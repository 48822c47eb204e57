------------------------------ MODULE RuleProofs ------------------------------
(***************************************************************************)
(* Proofs of the rules: for names of any length over any parts, for any    *)
(* number of mounts, for integers of any width, for environments with any  *)
(* finite number of variables and values of any length, for paths through  *)
(* file systems with any links, and for all configuration documents. What  *)
(* a rule computes step by step is proved by induction over the steps.     *)
(***************************************************************************)
EXTENDS RuleInputs, FiniteSetTheorems, SequenceTheorems, WellFoundedInduction, TLAPS

-----------------------------------------------------------------------------
(* Names of instances.                                                     *)

(* What LimaName puts together is found again at both ends.                *)
LEMMA LimaNameParts ==
    ASSUME NEW Text, NEW identity \in [name : Seq(Text), id : Hex]
    PROVE  LET name == LimaName(identity)
           IN /\ Len(name) = Len(identity.name) + 2
              /\ name[1] = "limanix"
              /\ Last(name) = identity.id
              /\ SubSeq(name, 2, Len(name) - 1) = identity.name
<1> DEFINE T == Text \cup Hex \cup {"limanix"}
           n == identity.name
           name == LimaName(identity)
<1>1. n \in Seq(T) /\ <<"limanix">> \in Seq(T) /\ <<identity.id>> \in Seq(T)
  OBVIOUS
<1>2. /\ name \in Seq(T) /\ Len(name) = Len(n) + 2
      /\ name[1] = "limanix" /\ name[Len(name)] = identity.id
      /\ \A i \in 1..Len(n) : name[i + 1] = n[i]
  BY <1>1 DEF LimaName
<1>3. SubSeq(name, 2, Len(name) - 1) = n
  <2> DEFINE s == SubSeq(name, 2, Len(name) - 1)
  <2>1. Len(n) \in Nat /\ \A i \in 1..Len(name) : name[i] \in T
    BY <1>1, <1>2
  <2>2. s \in Seq(T) /\ Len(s) = Len(n) /\ \A i \in 1..Len(n) : s[i] = n[i]
    <3> HIDE DEF n, name, T
    <3> QED BY <1>2, <2>1, SubSeqProperties
  <2> HIDE DEF n, s, T
  <2>3. s = n
    BY <1>1, <2>2, SeqEqual
  <2> QED BY <2>3 DEF s
<1> QED BY <1>2, <1>3 DEF Last

(* A name cut into its ends and what is between is put together again.     *)
LEMMA LimaNameWhole ==
    ASSUME NEW Text, NEW name \in Seq(Text), Len(name) > 1, name[1] = "limanix",
           Last(name) \in Hex
    PROVE  LimaName([name |-> SubSeq(name, 2, Len(name) - 1), id |-> Last(name)]) = name
<1> DEFINE T == Text \cup Hex \cup {"limanix"}
           n == SubSeq(name, 2, Len(name) - 1)
           whole == <<"limanix">> \o n \o <<Last(name)>>
<1>1. /\ name \in Seq(T) /\ n \in Seq(T) /\ <<"limanix">> \in Seq(T)
      /\ <<Last(name)>> \in Seq(T)
      /\ Len(n) = Len(name) - 2 /\ \A i \in 1..Len(n) : n[i] = name[i + 1]
  <2>1. name \in Seq(T) /\ Len(name) \in Nat /\ \A i \in 1..Len(name) : name[i] \in T
    OBVIOUS
  <2>2. n \in Seq(T) /\ Len(n) = Len(name) - 2 /\ \A i \in 1..Len(n) : n[i] = name[i + 1]
    <3> HIDE DEF T
    <3>1. \A i \in 2..(Len(name) - 1) : name[i] \in T
      BY <2>1
    <3>2. /\ n \in Seq(T)
          /\ Len(n) = IF 2 <= Len(name) - 1 THEN Len(name) - 1 - 2 + 1 ELSE 0
          /\ \A i \in 1..(Len(name) - 1 - 2 + 1) : n[i] = name[2 + i - 1]
      BY <2>1, <3>1, SubSeqProperties
    <3> HIDE DEF n
    <3>3. Len(n) = Len(name) - 2
      <4> DEFINE k == Len(name)
      <4>1. k \in Nat /\ k > 1 /\ Len(n) = IF 2 <= k - 1 THEN k - 1 - 2 + 1 ELSE 0
        BY <2>1, <3>2
      <4> HIDE DEF k
      <4>2. Len(n) = k - 2
        BY <4>1
      <4> QED BY <4>2 DEF k
    <3>4. ASSUME NEW i \in 1..Len(n)
          PROVE  n[i] = name[i + 1]
      <4>1. i \in 1..(Len(name) - 1 - 2 + 1) /\ 2 + i - 1 = i + 1
        BY <2>1, <3>3
      <4> QED BY <3>2, <4>1
    <3> QED BY <3>2, <3>3, <3>4
  <2> QED BY <2>1, <2>2
<1>2. whole \in Seq(T) /\ Len(whole) = Len(name)
  BY <1>1
<1>3. \A i \in 1..Len(name) : whole[i] = name[i]
  BY <1>1, <1>2 DEF Last
<1> QED BY <1>1, <1>2, <1>3 DEF LimaName

(* A host agent serves exactly the instances that VMs can have, and no two *)
(* VMs have one instance, whatever names and identifiers look like         *)
(* (hostagent/options.go validateName, domain/identity.go LimaName).       *)
THEOREM InstanceNamesOneVM ==
    ASSUME NEW Text, NEW i \in NamesToSplit(Text)
    PROVE  NamesOneVM(i.name, i.identities)
<1> DEFINE Owners == {o \in i.identities : NewVMName(o.name) /\ LimaName(o) = i.name}
<1>1. /\ i.name \in Seq(Text)
      /\ i.identities \subseteq [name : Seq(Text), id : Hex]
      /\ \A o \in [name : Seq(Text), id : Hex] : LimaName(o) = i.name => o \in i.identities
  BY DEF NamesToSplit
<1>2. ASSUME NEW o \in Owners
      PROVE  ValidateName(i.name)
  <2>1. o \in [name : Seq(Text), id : Hex] /\ NewVMName(o.name) /\ LimaName(o) = i.name
    BY <1>1
  <2>2. Len(o.name) > 0
    BY <2>1 DEF NewVMName
  <2>3. /\ Len(i.name) = Len(o.name) + 2 /\ i.name[1] = "limanix"
        /\ Last(i.name) = o.id /\ SubSeq(i.name, 2, Len(i.name) - 1) = o.name
    BY <2>1, LimaNameParts
  <2>4. Len(i.name) > 2 /\ o.id \in Hex
    BY <2>1, <2>2, <2>3
  <2> QED BY <2>1, <2>3, <2>4 DEF ValidateName, ValidIdentifier
<1>3. ASSUME ValidateName(i.name)
      PROVE  Owners # {}
  <2> DEFINE o == [name |-> SubSeq(i.name, 2, Len(i.name) - 1), id |-> Last(i.name)]
  <2>1. o \in [name : Seq(Text), id : Hex] /\ NewVMName(o.name)
    BY <1>1, <1>3 DEF ValidateName, ValidIdentifier
  <2>2. LimaName(o) = i.name
    <3>1. Len(i.name) > 1 /\ i.name[1] = "limanix" /\ Last(i.name) \in Hex
      BY <1>1, <1>3 DEF ValidateName, ValidIdentifier
    <3> QED BY <1>1, <3>1, LimaNameWhole
  <2> QED BY <1>1, <2>1, <2>2
<1>4. Cardinality(Owners) <= 1
  <2>1. ASSUME NEW o \in Owners, NEW p \in Owners
        PROVE  o = p
    <3>1. /\ o \in [name : Seq(Text), id : Hex] /\ LimaName(o) = i.name
          /\ p \in [name : Seq(Text), id : Hex] /\ LimaName(p) = i.name
      BY <1>1
    <3>2. o.name = p.name /\ o.id = p.id
      BY <3>1, LimaNameParts
    <3> QED BY <3>1, <3>2
  <2>2. CASE Owners = {}
    BY <2>2, FS_EmptySet
  <2>3. CASE \E o : Owners = {o}
    BY <2>3, FS_Singleton
  <2> QED BY <2>1, <2>2, <2>3
<1> QED BY <1>2, <1>3, <1>4 DEF NamesOneVM

-----------------------------------------------------------------------------
(* Selectors of modules.                                                   *)

(* A selector is the name of a module or one of its versions, and selects  *)
(* an entry point in the module's own directory.                           *)
LEMMA SelectionsFacts ==
    ASSUME NEW m, NEW s
    PROVE  /\ s \in DOMAIN Selections(m) <=>
                s = m.name \/ \E v \in Range(m.versions) : s = Append(m.name, v)
           /\ s \in DOMAIN Selections(m) =>
                Selections(m)[s] =
                    [directory |-> m.name,
                     entry |-> IF s = m.name THEN "default.nix" ELSE Last(s)]
  BY DEF Selections

(* In a catalog that opens, a selector leads to the module that declares   *)
(* it.                                                                     *)
LEMMA DeclaredFacts ==
    ASSUME NEW Module, NEW modules \in Seq(Module), Open(modules).ok,
           NEW i \in DOMAIN modules, NEW s \in DOMAIN Selections(modules[i])
    PROVE  /\ s \in DOMAIN Declared(modules)
           /\ Declared(modules)[s] = Selections(modules[i])[s]
<1>1. \A j \in DOMAIN modules, k \in DOMAIN modules :
          k < j => DOMAIN Selections(modules[j]) \cap DOMAIN Selections(modules[k]) = {}
  <2>1. DOMAIN modules = 1..Len(modules) /\ Len(modules) \in Nat
    OBVIOUS
  <2> QED BY <2>1 DEF Open
<1>2. \A j \in DOMAIN modules : s \in DOMAIN Selections(modules[j]) => j = i
  <2>1. DOMAIN modules \subseteq Int
    OBVIOUS
  <2> QED BY <1>1, <2>1
<1>3. i = CHOOSE j \in DOMAIN modules : s \in DOMAIN Selections(modules[j])
  BY <1>2
<1> QED BY <1>3 DEF Declared

(* A sequence without its last element.                                    *)
LEMMA FrontFacts ==
    ASSUME NEW T, NEW s \in Seq(T), Len(s) > 1
    PROVE  /\ Front(s) \in Seq(T) /\ Front(s) # <<>> /\ Front(s) # s
           /\ \A i \in DOMAIN Front(s) : i \in DOMAIN s /\ Front(s)[i] = s[i]
           /\ 1 \in DOMAIN Front(s)
           /\ s = Append(Front(s), Last(s))
<1> DEFINE k == Len(s) - 1
           f == SubSeq(s, 1, k)
<1>1. /\ k \in Nat /\ k >= 1 /\ Len(s) = k + 1 /\ DOMAIN s = 1..(k + 1)
      /\ \A i \in 1..(k + 1) : s[i] \in T
  OBVIOUS
<1>2. f \in Seq(T) /\ Len(f) = k /\ \A i \in 1..k : f[i] = s[i]
  <2> HIDE DEF k
  <2>1. \A i \in 1..k : s[i] \in T
    BY <1>1
  <2>2. /\ f \in Seq(T) /\ Len(f) = IF 1 <= k THEN k - 1 + 1 ELSE 0
        /\ \A i \in 1..(k - 1 + 1) : f[i] = s[1 + i - 1]
    BY <1>1, <2>1, SubSeqProperties
  <2> HIDE DEF f
  <2>3. Len(f) = k /\ k - 1 + 1 = k
    BY <1>1, <2>2
  <2> QED BY <1>1, <2>2, <2>3
<1> HIDE DEF k, f
<1>3. DOMAIN f = 1..k /\ f # <<>> /\ f # s
  BY <1>1, <1>2
<1>4. s = Append(f, s[k + 1])
  <2> DEFINE t == Append(f, s[k + 1])
  <2>1. t \in Seq(T) /\ Len(t) = k + 1 /\ \A i \in 1..(k + 1) : t[i] = s[i]
    BY <1>1, <1>2
  <2> HIDE DEF t
  <2>2. t = s
    BY <1>1, <2>1, SeqEqual
  <2> QED BY <2>2 DEF t
<1>5. Front(s) = f /\ Last(s) = s[k + 1]
  BY <1>1 DEF Front, Last, f, k
<1> QED BY <1>1, <1>2, <1>3, <1>4, <1>5

(* What a module declares can be written in a configuration: its name, and *)
(* its name with a version.                                                *)
LEMMA SelectorsAccepted ==
    ASSUME NEW Text, NEW m, m.name \in Seq(Text), Range(m.versions) \subseteq Text,
           NewModuleName(m.name), ReadMetadata(m),
           NEW s \in DOMAIN Selections(m)
    PROVE  NewModuleID([namespace |-> "lmx", name |-> s])
<1>1. Range(m.versions) \subseteq Versions
  BY DEF ReadMetadata, Range
<1>2. CASE s = m.name
  <2>1. Len(s) > 1 => /\ Front(s) # <<>> /\ Head(Front(s)) = Head(s)
                      /\ \A i \in DOMAIN Front(s) : i \in DOMAIN s /\ Front(s)[i] = s[i]
    <3>1. SUFFICES ASSUME Len(s) > 1
                   PROVE  /\ Front(s) # <<>> /\ Head(Front(s)) = Head(s)
                          /\ \A i \in DOMAIN Front(s) : i \in DOMAIN s /\ Front(s)[i] = s[i]
      OBVIOUS
    <3>2. /\ Front(s) \in Seq(Text) /\ Front(s) # <<>> /\ 1 \in DOMAIN Front(s)
          /\ \A i \in DOMAIN Front(s) : i \in DOMAIN s /\ Front(s)[i] = s[i]
      BY <1>2, <3>1, FrontFacts
    <3> QED BY <1>2, <3>2
  <2> QED BY <1>2, <2>1 DEF NewModuleID, NewModuleName
<1>3. ASSUME NEW v \in Range(m.versions), s = Append(m.name, v)
      PROVE  NewModuleID([namespace |-> "lmx", name |-> s])
  <2>1. m.name # <<>> /\ v \in Text
    BY DEF NewModuleName
  <2>2. Len(s) > 1 /\ Last(s) = v
    BY <1>3, <2>1 DEF Last
  <2>3. Front(s) = m.name
    BY <1>3, <2>1 DEF Front
  <2> QED BY <1>1, <2>2, <2>3 DEF NewModuleID
<1> QED BY <1>2, <1>3, SelectionsFacts

(* CopyModule copies the module the catalog names.                         *)
LEMMA StandardModule ==
    ASSUME NEW name, NEW imported, NEW catalog
    PROVE  CopyModule([namespace |-> "lmx", name |-> name], imported, catalog) =
               IF name \in DOMAIN catalog.selections
               THEN [ok |-> TRUE, directory |-> catalog.selections[name].directory,
                     entry |-> catalog.selections[name].entry]
               ELSE [ok |-> FALSE, directory |-> <<>>, entry |-> Empty]
  BY DEF CopyModule

(* In a catalog that opens, a selector has one meaning: a module's own     *)
(* name selects its default.nix and its name with a version that version,  *)
(* also when names of modules end like versions; what no module declares   *)
(* is refused, whatever is imported under the same name (catalog.go        *)
(* readModules, nixos/modules.go copyModule).                              *)
THEOREM SelectorsOneModule ==
    ASSUME NEW Text, NEW i \in CatalogsToOpen(Text)
    PROVE  SelectsOneModule(i.modules, i.name, i.imported)
<1> DEFINE modules == i.modules
           name == i.name
           catalog == Open(modules)
           chosen == CopyModule([namespace |-> "lmx", name |-> name], i.imported, catalog)
           Module == [name : Seq(Text), versions : Seq(Text), default : Text,
                      files : SUBSET (Text \cup {"default.nix"})]
           Own(m) == name = m.name
           Version(m) == Len(name) > 1 /\ Front(name) = m.name /\ Last(name) \in Range(m.versions)
<1> SUFFICES ASSUME catalog.ok
             PROVE  /\ \A k \in DOMAIN modules :
                        /\ Own(modules[k]) =>
                            chosen = [ok |-> TRUE, directory |-> name, entry |-> "default.nix"]
                        /\ Version(modules[k]) =>
                            chosen = [ok |-> TRUE, directory |-> modules[k].name,
                                      entry |-> Last(name)]
                    /\ chosen.ok => NewModuleID([namespace |-> "lmx", name |-> name])
                    /\ (\A k \in DOMAIN modules : ~Own(modules[k]) /\ ~Version(modules[k]))
                        => ~chosen.ok
  BY DEF SelectsOneModule
<1>1. modules \in Seq(Module) /\ name \in Seq(Text)
  BY DEF CatalogsToOpen
<1>2. \A k \in DOMAIN modules : modules[k] \in Module
  <2> HIDE DEF Module, modules
  <2> QED BY <1>1
<1>3. /\ catalog.selections = Declared(modules)
      /\ \A k \in DOMAIN modules : NewModuleName(modules[k].name) /\ ReadMetadata(modules[k])
  BY DEF Open
<1>4. ASSUME NEW k \in DOMAIN modules, name \in DOMAIN Selections(modules[k])
      PROVE  chosen = [ok |-> TRUE, directory |-> modules[k].name,
                       entry |-> IF name = modules[k].name THEN "default.nix" ELSE Last(name)]
  <2>1. /\ name \in DOMAIN catalog.selections
        /\ catalog.selections[name] = Selections(modules[k])[name]
    BY <1>1, <1>3, <1>4, DeclaredFacts
  <2>2. Selections(modules[k])[name] =
            [directory |-> modules[k].name,
             entry |-> IF name = modules[k].name THEN "default.nix" ELSE Last(name)]
    BY <1>4, SelectionsFacts
  <2> HIDE DEF catalog, modules, name
  <2> QED BY <2>1, <2>2, StandardModule
<1>5. ASSUME NEW k \in DOMAIN modules, Version(modules[k])
      PROVE  name \in DOMAIN Selections(modules[k]) /\ name # modules[k].name
  <2>1. name = Append(Front(name), Last(name)) /\ Front(name) # name
    BY <1>1, <1>5, FrontFacts
  <2>2. Front(name) = modules[k].name /\ Last(name) \in Range(modules[k].versions)
    BY <1>5
  <2>3. \E v \in Range(modules[k].versions) : name = Append(modules[k].name, v)
    BY <2>1, <2>2
  <2> HIDE DEF modules, name
  <2> QED BY <2>1, <2>2, <2>3, SelectionsFacts
<1>6. ASSUME chosen.ok
      PROVE  \E k \in DOMAIN modules : name \in DOMAIN Selections(modules[k])
  <2>1. name \in DOMAIN catalog.selections
    BY <1>6 DEF CopyModule
  <2> QED BY <1>3, <2>1 DEF Declared
<1>7. ASSUME NEW k \in DOMAIN modules, name \in DOMAIN Selections(modules[k])
      PROVE  Own(modules[k]) \/ Version(modules[k])
  <2>1. CASE name = modules[k].name
    BY <2>1
  <2>2. ASSUME NEW v \in Range(modules[k].versions), name = Append(modules[k].name, v)
        PROVE  Version(modules[k])
    <3>1. modules[k].name \in Seq(Text) /\ modules[k].name # <<>> /\ v \in Text
      BY <1>2, <1>3 DEF NewModuleName, Range
    <3>2. Len(name) > 1 /\ Last(name) = v
      BY <2>2, <3>1 DEF Last
    <3>3. Front(name) = modules[k].name
      BY <2>2, <3>1 DEF Front
    <3> QED BY <3>2, <3>3
  <2> QED BY <1>7, <2>1, <2>2, SelectionsFacts
<1>8. \A k \in DOMAIN modules : Own(modules[k]) =>
          chosen = [ok |-> TRUE, directory |-> name, entry |-> "default.nix"]
  BY <1>4, SelectionsFacts
<1>9. \A k \in DOMAIN modules : Version(modules[k]) =>
          chosen = [ok |-> TRUE, directory |-> modules[k].name, entry |-> Last(name)]
  BY <1>4, <1>5
<1>10. chosen.ok => NewModuleID([namespace |-> "lmx", name |-> name])
  <2>1. \A k \in DOMAIN modules :
            modules[k].name \in Seq(Text) /\ Range(modules[k].versions) \subseteq Text
    BY <1>2 DEF Range
  <2> QED BY <1>3, <1>6, <2>1, SelectorsAccepted
<1> QED BY <1>6, <1>7, <1>8, <1>9, <1>10

-----------------------------------------------------------------------------
(* Lists.                                                                  *)

(* A VM is listed with the status of its own Lima instance, and the list   *)
(* fails only for an instance of Limanix that is there and cannot be read  *)
(* (lima/instances.go FetchAll, vm/list.go instanceInfo).                  *)
THEOREM ListingsOwn ==
    ASSUME NEW Text, NEW i \in VMsToList(Text)
    PROVE  ListsOwnInstances(i.identities, i.names, i.inspect)
<1>1. \A o \in i.identities :
          LimaName(o) \in Range(i.names) => LimaName(o) \in Ours(i.names)
  <2>1. \A o \in i.identities : o \in [name : Seq(Text), id : Hex] /\ Len(o.name) \in Nat
    BY DEF VMsToList
  <2>2. \A o \in i.identities : LimaName(o)[1] = "limanix" /\ Len(LimaName(o)) > 1
    BY <2>1, LimaNameParts
  <2> QED BY <2>2 DEF Ours
<1>2. Ours(i.names) \subseteq Range(i.names)
  BY DEF Ours
<1>3. ASSUME Rows(i.identities, i.names, i.inspect).ok, NEW o \in i.identities
      PROVE  Rows(i.identities, i.names, i.inspect).rows[o].status =
                IF LimaName(o) \in Range(i.names) /\ i.inspect[LimaName(o)] # "missing"
                THEN i.inspect[LimaName(o)] ELSE Empty
  BY <1>1, <1>2, <1>3 DEF Rows, InstanceInfo, FetchAll
<1>4. ASSUME ~Rows(i.identities, i.names, i.inspect).ok
      PROVE  \E n \in Range(i.names) :
                Len(n) > 1 /\ n[1] = "limanix" /\ i.inspect[n] \in {"broken", "unknown"}
  BY <1>4 DEF Rows, FetchAll, Ours
<1> QED BY <1>3, <1>4 DEF ListsOwnInstances

(* All rules about names hold, for every set of words, numbers, versions   *)
(* and identifiers, and for inputs of every length over any parts.         *)
THEOREM NamesAlwaysTold ==
    ASSUME NEW Text, input \in NameInputs(Text)
    PROVE  NamesUnambiguous
<1>1. CASE input \in NamesToSplit(Text)
  BY <1>1, InstanceNamesOneVM DEF NamesUnambiguous, NamesToSplit
<1>2. CASE input \in CatalogsToOpen(Text)
  BY <1>2, SelectorsOneModule DEF NamesUnambiguous, CatalogsToOpen
<1>3. CASE input \in VMsToList(Text)
  BY <1>3, ListingsOwn DEF NamesUnambiguous, VMsToList
<1> QED BY <1>1, <1>2, <1>3 DEF NameInputs

-----------------------------------------------------------------------------
(* Mounts.                                                                 *)

(* Length, domain and elements of a sequence.                              *)
LEMMA SequenceParts ==
    ASSUME NEW S, NEW s \in Seq(S)
    PROVE  /\ Len(s) \in Nat /\ DOMAIN s = 1..Len(s)
           /\ \A k \in DOMAIN s : s[k] \in S
  BY LenProperties, ElementOfSeq

(* A function on the first n numbers is a sequence.                        *)
LEMMA FunctionIsSeq ==
    ASSUME NEW S, NEW n \in Nat, NEW f \in [1..n -> S]
    PROVE  f \in Seq(S)
OBVIOUS

(* There are n positions up to n.                                          *)
LEMMA UpTo ==
    ASSUME NEW n \in Nat
    PROVE  IsFiniteSet(1..n) /\ Cardinality(1..n) = n
<1>1. IsFiniteSet(1..n) /\ Cardinality(1..n) = IF 1 > n THEN 0 ELSE n - 1 + 1
  BY FS_Interval
<1> QED BY <1>1

(* A stable sort puts every mount somewhere: the mounts before it are as   *)
(* many as its position says, and there is one mount for each position.    *)
LEMMA BeforeFacts ==
    ASSUME NEW Paths, NEW mounts \in Seq([target : Paths, writable : BOOLEAN]),
           \A p \in Paths : Len(p) \in Nat,
           NEW i \in DOMAIN mounts
    PROVE  /\ IsFiniteSet(Before(mounts, i))
           /\ Cardinality(Before(mounts, i)) \in 0..(Len(mounts) - 1)
           /\ \A j \in DOMAIN mounts : i \in Before(mounts, j) =>
                  Cardinality(Before(mounts, i)) < Cardinality(Before(mounts, j))
<1> DEFINE D == 1..Len(mounts)
           B(j) == Before(mounts, j)
<1>1. /\ Len(mounts) \in Nat /\ DOMAIN mounts = D /\ D \subseteq Int
      /\ \A j \in D : Len(mounts[j].target) \in Nat
  OBVIOUS
<1>2. IsFiniteSet(D) /\ Cardinality(D) = Len(mounts)
  BY <1>1, UpTo
<1>3. \A j \in D : B(j) \subseteq D \ {j}
  BY <1>1 DEF Before
<1>4. \A j \in D : IsFiniteSet(B(j)) /\ Cardinality(B(j)) \in Nat
  BY <1>2, <1>3, FS_Subset, FS_CardinalityType
<1>5. Cardinality(B(i)) <= Len(mounts) - 1
  <2>1. IsFiniteSet(D \ {i}) /\ Cardinality(D \ {i}) = Len(mounts) - 1
    <3>1. i \in D
      BY <1>1
    <3>2. IsFiniteSet(D \ {i}) /\ Cardinality(D \ {i}) = Cardinality(D) - 1
      <4> HIDE DEF D
      <4> QED BY <1>2, <3>1, FS_RemoveElement
    <3> QED BY <1>2, <3>2
  <2> QED BY <1>1, <1>3, <2>1, FS_Subset
<1>6. ASSUME NEW j \in D, i \in B(j)
      PROVE  Cardinality(B(i)) < Cardinality(B(j))
  <2>1. B(i) \subseteq B(j)
    BY <1>1, <1>6 DEF Before
  <2>2. i \notin B(i)
    BY <1>1, <1>3
  <2>3. Cardinality(B(i)) <= Cardinality(B(j)) /\ Cardinality(B(i)) # Cardinality(B(j))
    BY <1>4, <1>6, <2>1, <2>2, FS_Subset
  <2> QED BY <1>1, <1>4, <2>3
<1> QED BY <1>1, <1>4, <1>5, <1>6

(* Of two mounts, one is before the other.                                 *)
LEMMA BeforeTotal ==
    ASSUME NEW Paths, NEW mounts \in Seq([target : Paths, writable : BOOLEAN]),
           \A p \in Paths : Len(p) \in Nat,
           NEW i \in DOMAIN mounts, NEW j \in DOMAIN mounts, i # j
    PROVE  i \in Before(mounts, j) \/ j \in Before(mounts, i)
<1>1. /\ i \in Int /\ j \in Int
      /\ Len(mounts[i].target) \in Nat /\ Len(mounts[j].target) \in Nat
  OBVIOUS
<1> QED BY <1>1 DEF Before

(* Every position has its mount.                                           *)
LEMMA Positions ==
    ASSUME NEW Paths, NEW mounts \in Seq([target : Paths, writable : BOOLEAN]),
           \A p \in Paths : Len(p) \in Nat,
           NEW n \in DOMAIN mounts
    PROVE  \E i \in DOMAIN mounts : Cardinality(Before(mounts, i)) = n - 1
<1> DEFINE D == DOMAIN mounts
           f == [i \in D |-> Cardinality(Before(mounts, i)) + 1]
<1>1. D = 1..Len(mounts) /\ Len(mounts) \in Nat
  OBVIOUS
<1>2. \A i \in D : Cardinality(Before(mounts, i)) \in 0..(Len(mounts) - 1)
  BY BeforeFacts
<1>3. f \in [D -> D]
  BY <1>1, <1>2
<1>4. ASSUME NEW i \in D, NEW j \in D, i # j
      PROVE  f[i] # f[j]
  <2>1. \/ Cardinality(Before(mounts, i)) < Cardinality(Before(mounts, j))
        \/ Cardinality(Before(mounts, j)) < Cardinality(Before(mounts, i))
    BY <1>4, BeforeTotal, BeforeFacts
  <2> QED BY <1>2, <2>1
<1>5. f \in Injection(D, D)
  <2> HIDE DEF f, D
  <2> QED BY <1>3, <1>4 DEF Injection, IsInjective
<1>6. IsFiniteSet(D)
  BY <1>1, FS_Interval
<1>7. f \in Surjection(D, D)
  <2> HIDE DEF f, D
  <2> QED BY <1>5, <1>6, FS_Injection
<1>8. PICK i \in D : f[i] = n
  <2> HIDE DEF f
  <2> QED BY <1>7 DEF Surjection
<1> QED BY <1>1, <1>2, <1>8

(* The mounts that were requested, in some order of which no path gets     *)
(* shorter.                                                                *)
InOrder(sorted, mounts) ==
    /\ DOMAIN sorted = DOMAIN mounts /\ Len(sorted) = Len(mounts)
    /\ \A i \in DOMAIN mounts : mounts[i] \in Range(sorted)
    /\ \A n \in DOMAIN sorted : \E i \in DOMAIN mounts : sorted[n] = mounts[i]
    /\ \A n \in DOMAIN sorted : \A k \in 1..(n - 1) :
          \E i \in DOMAIN mounts, j \in DOMAIN mounts :
              /\ i # j /\ sorted[n] = mounts[i] /\ sorted[k] = mounts[j]
              /\ Len(mounts[j].target) <= Len(mounts[i].target)

(* TemplateMounts sorts.                                                   *)
LEMMA Sorted ==
    ASSUME NEW Paths, \A p \in Paths : Len(p) \in Nat,
           NEW config, Requested(config) \in Seq([target : Paths, writable : BOOLEAN])
    PROVE  InOrder(TemplateMounts(config), Requested(config))
<1> DEFINE mounts == Requested(config)
           sorted == TemplateMounts(config)
           D == DOMAIN mounts
           rank(i) == Cardinality(Before(mounts, i))
           at(n) == CHOOSE i \in D : rank(i) = n - 1
<1>1. D = 1..Len(mounts) /\ Len(mounts) \in Nat
  OBVIOUS
<1>2. sorted = [n \in D |-> mounts[at(n)]]
  BY DEF TemplateMounts
<1>3. ASSUME NEW n \in D
      PROVE  at(n) \in D /\ rank(at(n)) = n - 1
  BY Positions
<1>4. \A i \in D : rank(i) \in 0..(Len(mounts) - 1)
  BY BeforeFacts
<1>5. ASSUME NEW i \in D, NEW j \in D, rank(i) = rank(j)
      PROVE  i = j
  <2>1. CASE i # j
    <3>1. rank(i) < rank(j) \/ rank(j) < rank(i)
      BY <2>1, BeforeTotal, BeforeFacts
    <3> QED BY <1>4, <1>5, <3>1
  <2> QED BY <2>1
<1>6. ASSUME NEW i \in D
      PROVE  mounts[i] \in Range(sorted)
  <2> DEFINE n == rank(i) + 1
  <2>1. n \in D /\ rank(i) = n - 1
    BY <1>1, <1>4
  <2> HIDE DEF n
  <2>2. at(n) = i
    BY <1>3, <1>5, <2>1
  <2>3. sorted[n] = mounts[i] /\ n \in DOMAIN sorted
    BY <1>2, <2>1, <2>2
  <2> QED BY <2>3 DEF Range
<1>7. ASSUME NEW n \in D, NEW k \in 1..(n - 1)
      PROVE  \E i \in D, j \in D :
                /\ i # j /\ sorted[n] = mounts[i] /\ sorted[k] = mounts[j]
                /\ Len(mounts[j].target) <= Len(mounts[i].target)
  <2>1. /\ at(n) \in D /\ rank(at(n)) = n - 1
        /\ at(k) \in D /\ rank(at(k)) = k - 1
    <3>1. k \in D
      BY <1>1
    <3> QED BY <1>3, <3>1
  <2>2. rank(at(k)) < rank(at(n))
    BY <1>1, <1>7, <2>1
  <2>3. PICK i \in D, j \in D : i = at(n) /\ j = at(k)
    BY <2>1
  <2>4. rank(i) \in Nat /\ rank(j) \in Nat /\ rank(j) < rank(i)
    <3>1. rank(i) \in Nat /\ rank(j) \in Nat
      BY <1>1, <1>4
    <3> HIDE DEF rank
    <3> QED BY <2>2, <2>3, <3>1
  <2>5. i # j /\ i \notin Before(mounts, j)
    <3>1. i \in Before(mounts, j) => rank(i) < rank(j)
      BY BeforeFacts
    <3> HIDE DEF rank
    <3> QED BY <2>4, <3>1
  <2>6. j \in Before(mounts, i)
    BY <2>5, BeforeTotal
  <2>7. Len(mounts[j].target) <= Len(mounts[i].target)
    <3>1. Len(mounts[j].target) \in Nat
      OBVIOUS
    <3> QED BY <2>6, <3>1 DEF Before
  <2>8. sorted[n] = mounts[i] /\ sorted[k] = mounts[j]
    BY <1>2, <2>3
  <2> QED BY <2>5, <2>7, <2>8
<1>8. DOMAIN sorted = D /\ Len(sorted) = Len(mounts)
  <2>1. sorted \in [1..Len(mounts) -> Range(mounts)]
    <3>1. \A n \in D : mounts[at(n)] \in Range(mounts)
      BY <1>3 DEF Range
    <3> QED BY <1>1, <1>2, <3>1
  <2>2. DOMAIN sorted = D
    BY <1>2
  <2> HIDE DEF sorted, mounts
  <2>3. sorted \in Seq(Range(mounts))
    BY <1>1, <2>1
  <2>4. Len(sorted) \in Nat /\ DOMAIN sorted = 1..Len(sorted)
    BY <2>3, SequenceParts
  <2>5. Len(sorted) = Len(mounts)
    <3> DEFINE k == Len(sorted)
               l == Len(mounts)
    <3>1. k \in Nat /\ l \in Nat /\ 1..k = 1..l
      BY <1>1, <2>2, <2>4
    <3> HIDE DEF k, l
    <3>2. k = l
      BY <3>1
    <3> QED BY <3>2 DEF k, l
  <2> QED BY <2>2, <2>5
<1>9. \A n \in D : \E i \in D : sorted[n] = mounts[i]
  BY <1>2, <1>3
<1> HIDE DEF mounts, sorted, rank, at
<1>10. /\ \A i \in DOMAIN mounts : mounts[i] \in Range(sorted)
       /\ \A n \in DOMAIN sorted : \A k \in 1..(n - 1) :
             \E i \in DOMAIN mounts, j \in DOMAIN mounts :
                 /\ i # j /\ sorted[n] = mounts[i] /\ sorted[k] = mounts[j]
                 /\ Len(mounts[j].target) <= Len(mounts[i].target)
  BY <1>6, <1>7, <1>8
<1>11. InOrder(sorted, mounts)
  BY <1>8, <1>9, <1>10 DEF InOrder
<1> QED BY <1>11 DEF mounts, sorted

(* A path that lies below another one and is not longer is that path.      *)
LEMMA WithinLonger ==
    ASSUME NEW S, NEW p \in Seq(S), NEW q \in Seq(S)
    PROVE  /\ Within(p, p)
           /\ Within(p, q) /\ Len(p) <= Len(q) => p = q
<1> DEFINE m == Len(p)
           n == Len(q)
<1>1. m \in Nat /\ n \in Nat /\ SubSeq(p, 1, m) = p /\ SubSeq(q, 1, n) = q
  BY SequenceParts, SubSeqFull
<1>2. Within(p, p) <=> m <= m /\ SubSeq(p, 1, m) = SubSeq(p, 1, m)
  BY DEF Within, IsPrefix
<1>3. Within(p, q) <=> n <= m /\ SubSeq(q, 1, n) = SubSeq(p, 1, n)
  BY DEF Within, IsPrefix
<1>4. Within(p, p)
  <2> HIDE DEF m
  <2> QED BY <1>1, <1>2
<1>5. ASSUME Within(p, q), m <= n
      PROVE  p = q
  <2> HIDE DEF m, n
  <2>1. m = n
    BY <1>1, <1>3, <1>5
  <2> QED BY <1>1, <1>3, <1>5, <2>1
<1> QED BY <1>4, <1>5

(* Two elements before a sequence.                                         *)
LEMMA TwoAndMore ==
    ASSUME NEW S, NEW a \in S, NEW b \in S, NEW n \in Nat, NEW rest \in [1..n -> S]
    PROVE  LET s == <<a, b>> \o rest
           IN /\ s \in Seq(S) /\ DOMAIN s = 1..(n + 2) /\ Len(s) = n + 2
              /\ s[1] = a /\ s[2] = b
              /\ \A k \in 1..n : s[k + 2] = rest[k]
<1> DEFINE first == <<a, b>>
           s == first \o rest
           l == Len(rest)
<1>1. first \in Seq(S) /\ Len(first) = 2 /\ first[1] = a /\ first[2] = b
  OBVIOUS
<1>2. rest \in Seq(S) /\ l = n
  <2>1. rest \in Seq(S)
    BY IsASeq
  <2>2. l \in Nat /\ DOMAIN rest = 1..l /\ DOMAIN rest = 1..n
    BY <2>1, SequenceParts
  <2> HIDE DEF l
  <2>3. l = n
    BY <2>2
  <2> QED BY <2>1, <2>3
<1> HIDE DEF first
<1>3. /\ s \in Seq(S) /\ Len(s) = Len(first) + l
      /\ \A k \in 1..(Len(first) + l) :
            s[k] = IF k <= Len(first) THEN first[k] ELSE rest[k - Len(first)]
  BY <1>1, <1>2, ConcatProperties
<1>4. DOMAIN s = 1..Len(s)
  BY <1>3, SequenceParts
<1> HIDE DEF s, l
<1>5. /\ Len(s) = n + 2
      /\ \A k \in 1..(n + 2) : s[k] = IF k <= 2 THEN first[k] ELSE rest[k - 2]
  BY <1>1, <1>2, <1>3
<1>6. s[1] = a /\ s[2] = b
  BY <1>1, <1>5
<1>7. ASSUME NEW k \in 1..n
      PROVE  s[k + 2] = rest[k]
  <2>1. k + 2 \in 1..(n + 2) /\ ~(k + 2 <= 2) /\ (k + 2) - 2 = k
    OBVIOUS
  <2> QED BY <1>5, <2>1
<1> QED BY <1>3, <1>4, <1>5, <1>6, <1>7 DEF s, first

(* The paths of a normalized configuration are clean.                      *)
LEMMA NormalizedPaths ==
    ASSUME NEW Text, NEW Other, NEW i \in MachinesToRender(Text, Other),
           i.config = Normalized(i.config)
    PROVE  /\ i.config.user.home \in Seq(Text)
           /\ Cleaned(i.config.user.home) = i.config.user.home
           /\ Len(i.config.mounts) \in Nat
           /\ DOMAIN i.config.mounts = 1..Len(i.config.mounts)
           /\ \A k \in DOMAIN i.config.mounts :
                 /\ i.config.mounts[k].target \in Seq(Text)
                 /\ i.config.mounts[k].mode \in {"ro", "rw"}
                 /\ Cleaned(i.config.mounts[k].target) = i.config.mounts[k].target
<1> DEFINE M == [mode : {"ro", "rw"}, source : Other, target : Seq(Text)]
           config == i.config
           mounts == config.mounts
           clean == [k \in DOMAIN mounts |-> [mounts[k] EXCEPT !.target = Cleaned(@)]]
<1>1. /\ config \in [schema_version : Other, name : Other, resources : Other, home : Other,
                     nixos : Other, network : Other, env : Other,
                     user : [name : Other, home : Seq(Text), sudo : Other], mounts : Seq(M)]
  BY DEF MachinesToRender
<1>2. config = [config EXCEPT !.user.home = Cleaned(@), !.mounts = clean]
  BY DEF Normalized
<1>3. mounts \in Seq(M) /\ config.user.home \in Seq(Text)
  <2> HIDE DEF M, config
  <2> QED BY <1>1
<1>4. config.user.home = Cleaned(config.user.home) /\ mounts = clean
  <2> HIDE DEF M, clean, config
  <2> QED BY <1>1, <1>2
<1>5. /\ Len(mounts) \in Nat /\ DOMAIN mounts = 1..Len(mounts)
      /\ \A k \in DOMAIN mounts : mounts[k] \in M
  <2> HIDE DEF M, mounts
  <2> QED BY <1>3, SequenceParts
<1>6. ASSUME NEW k \in DOMAIN mounts
      PROVE  /\ mounts[k].target \in Seq(Text) /\ mounts[k].mode \in {"ro", "rw"}
             /\ Cleaned(mounts[k].target) = mounts[k].target
  <2> HIDE DEF mounts
  <2>1. mounts[k] = [mounts[k] EXCEPT !.target = Cleaned(@)]
    BY <1>4, <1>6
  <2>2. mounts[k] \in M
    BY <1>5, <1>6
  <2>3. mounts[k].target = Cleaned(mounts[k].target)
    BY <2>1, <2>2
  <2> QED BY <2>2, <2>3
<1> QED BY <1>3, <1>4, <1>5, <1>6

\* What the paths in a guest are made of.
GuestParts(Text) == Text \cup {"mnt", "limanix", "home", "limanix-admin"}

(* What a valid and normalized configuration asks for: mounts on pairwise  *)
(* different paths, none of which lies above the management user's home.   *)
Apart(Text, config) ==
    LET mounts == Requested(config)
        asked  == config.mounts
        n      == Len(asked)
    IN /\ n \in Nat /\ DOMAIN asked = 1..n
       /\ mounts \in Seq([target : Seq(GuestParts(Text)), writable : BOOLEAN])
       /\ DOMAIN mounts = 1..(n + 2) /\ Len(mounts) = n + 2
       /\ mounts[1] = Mount(config.user.home, TRUE)
       /\ mounts[2] = Mount(<<"mnt", "limanix">>, FALSE)
       /\ \A k \in 1..n : mounts[k + 2] = Mount(asked[k].target, asked[k].mode = "rw")
       /\ \A k \in DOMAIN mounts : k \in {1, 2} \/ \E m \in 1..n : k = m + 2
       /\ \A k \in DOMAIN mounts : ~Within(<<"home", "limanix-admin">>, mounts[k].target)
       /\ \A k \in DOMAIN mounts, m \in DOMAIN mounts :
             k # m => mounts[k].target # mounts[m].target

(* Validation keeps what is mounted apart.                                 *)
LEMMA RequestedApart ==
    ASSUME NEW Text, NEW Other, NEW i \in MachinesToRender(Text, Other),
           ValidateMounts(i.config.user.home, i.config.mounts),
           i.config = Normalized(i.config)
    PROVE  Apart(Text, i.config)
<1> DEFINE All    == GuestParts(Text)
           M      == [target : Seq(All), writable : BOOLEAN]
           asked  == i.config.mounts
           n      == Len(asked)
           home   == i.config.user.home
           first  == Mount(home, TRUE)
           second == Mount(<<"mnt", "limanix">>, FALSE)
           rest   == [k \in DOMAIN asked |-> Mount(asked[k].target, asked[k].mode = "rw")]
           mounts == Requested(i.config)
<1>1. /\ n \in Nat /\ DOMAIN asked = 1..n
      /\ home \in Seq(Text) /\ Cleaned(home) = home
      /\ \A k \in 1..n : /\ asked[k].target \in Seq(Text)
                         /\ Cleaned(asked[k].target) = asked[k].target
  BY NormalizedPaths
<1>2. /\ home \in Seq(All) /\ <<"mnt", "limanix">> \in Seq(All)
      /\ <<"home", "limanix-admin">> \in Seq(All)
      /\ \A k \in 1..n : asked[k].target \in Seq(All)
  <2>1. Seq(Text) \subseteq Seq(All)
    BY SeqMonotonic DEF GuestParts
  <2>2. <<"mnt", "limanix">> \in Seq(All) /\ <<"home", "limanix-admin">> \in Seq(All)
    BY DEF GuestParts
  <2> HIDE DEF All, n, asked, home
  <2> QED BY <1>1, <2>1, <2>2
<1>3. first \in M /\ second \in M
  <2> HIDE DEF All, home
  <2> QED BY <1>2 DEF Mount
<1>4. /\ rest \in [1..n -> M]
      /\ \A k \in 1..n : rest[k] = Mount(asked[k].target, asked[k].mode = "rw")
  <2> HIDE DEF All, n, asked
  <2>1. \A k \in 1..n : Mount(asked[k].target, asked[k].mode = "rw") \in M
    BY <1>2 DEF Mount
  <2> HIDE DEF M
  <2> QED BY <1>1, <2>1
<1>5. mounts = <<first, second>> \o rest
  BY DEF Requested
<1>6. /\ mounts \in Seq(M) /\ DOMAIN mounts = 1..(n + 2) /\ Len(mounts) = n + 2
      /\ mounts[1] = first /\ mounts[2] = second
      /\ \A k \in 1..n : mounts[k + 2] = rest[k]
  <2> HIDE DEF All, M, n, asked, home, first, second, rest, mounts
  <2> QED BY <1>1, <1>3, <1>4, <1>5, TwoAndMore
<1>7. /\ mounts[1].target = home /\ mounts[2].target = <<"mnt", "limanix">>
      /\ \A k \in 1..n : mounts[k + 2].target = asked[k].target
  <2> HIDE DEF All, M, n, asked, home, rest, mounts
  <2> QED BY <1>4, <1>6 DEF Mount
<1>8. \A k \in 1..(n + 2) : k \in {1, 2} \/ \E m \in 1..n : k = m + 2
  <2> HIDE DEF n
  <2>1. ASSUME NEW k \in 1..(n + 2), k \notin {1, 2}
        PROVE  k - 2 \in 1..n /\ k = (k - 2) + 2
    BY <1>1, <2>1
  <2> QED BY <2>1
<1>9. /\ CheckedGuestTarget(home)
      /\ \A k \in 1..n :
            /\ CheckedGuestTarget(asked[k].target)
            /\ ~Within(home, asked[k].target)
            /\ \A m \in 1..(k - 1) : ~Within(asked[k].target, asked[m].target)
  <2>1. /\ CheckedGuestTarget(home)
        /\ \A k \in DOMAIN asked :
              /\ CheckedGuestTarget(asked[k].target)
              /\ ~Within(Cleaned(home), Cleaned(asked[k].target))
              /\ \A m \in 1..(k - 1) :
                    ~Within(Cleaned(asked[k].target), Cleaned(asked[m].target))
    BY DEF ValidateMounts
  <2>2. \A k \in 1..n : \A m \in 1..(k - 1) : m \in 1..n
    <3> HIDE DEF n
    <3> QED BY <1>1
  <2> HIDE DEF n, asked, home
  <2> QED BY <1>1, <2>1, <2>2
<1>10. \A p \in Seq(All) : Within(p, p)
  BY WithinLonger
<1>11. ASSUME NEW p, p = Cleaned(p), CheckedGuestTarget(p)
       PROVE  p # <<"mnt", "limanix">> /\ ~Within(<<"home", "limanix-admin">>, p)
  BY <1>2, <1>10, <1>11 DEF CheckedGuestTarget, Reserved
<1>12. ~Within(<<"home", "limanix-admin">>, <<"mnt", "limanix">>)
  <2> DEFINE admin == <<"home", "limanix-admin">>
             own   == <<"mnt", "limanix">>
  <2>1. admin # own /\ Len(admin) <= Len(own)
    OBVIOUS
  <2> HIDE DEF admin, own, All
  <2> QED BY <1>2, <2>1, WithinLonger DEF admin, own
<1> HIDE DEF All, M, n, asked, home, first, second, rest, mounts
<1>13. ASSUME NEW k \in DOMAIN mounts
       PROVE  ~Within(<<"home", "limanix-admin">>, mounts[k].target)
  <2>1. CASE k = 1
    BY <1>1, <1>7, <1>9, <1>11, <2>1
  <2>2. CASE k = 2
    BY <1>7, <1>12, <2>2
  <2>3. ASSUME NEW m \in 1..n, k = m + 2
        PROVE  ~Within(<<"home", "limanix-admin">>, mounts[k].target)
    <3>1. mounts[k].target = asked[m].target
      BY <1>7, <2>3
    <3> QED BY <1>1, <1>9, <1>11, <3>1
  <2> QED BY <1>6, <1>8, <2>1, <2>2, <2>3
<1>14. home # <<"mnt", "limanix">>
  BY <1>1, <1>9, <1>11
<1>15. \A k \in 1..n : home # asked[k].target /\ <<"mnt", "limanix">> # asked[k].target
  BY <1>1, <1>2, <1>9, <1>10, <1>11
<1>16. ASSUME NEW k \in 1..n, NEW m \in 1..n, k # m
       PROVE  asked[k].target # asked[m].target
  <2>1. k \in 1..(m - 1) \/ m \in 1..(k - 1)
    BY <1>1, <1>16
  <2> QED BY <1>2, <1>9, <1>10, <2>1
<1>17. ASSUME NEW k \in DOMAIN mounts, NEW m \in DOMAIN mounts, k # m
       PROVE  mounts[k].target # mounts[m].target
  <2>1. ASSUME NEW x \in 1..(n + 2)
        PROVE  \/ x = 1 /\ mounts[x].target = home
               \/ x = 2 /\ mounts[x].target = <<"mnt", "limanix">>
               \/ \E y \in 1..n : x = y + 2 /\ mounts[x].target = asked[y].target
    BY <1>7, <1>8
  <2>2. CASE k \in {1, 2} /\ m \in {1, 2}
    BY <1>7, <1>14, <1>17, <2>2
  <2>3. CASE k \in {1, 2} /\ m \notin {1, 2}
    BY <1>6, <1>7, <1>15, <2>1, <2>3
  <2>4. CASE k \notin {1, 2} /\ m \in {1, 2}
    BY <1>6, <1>7, <1>15, <2>1, <2>4
  <2>5. CASE k \notin {1, 2} /\ m \notin {1, 2}
    BY <1>6, <1>16, <1>17, <2>1, <2>5
  <2> QED BY <2>2, <2>3, <2>4, <2>5
<1> QED BY <1>1, <1>4, <1>6, <1>8, <1>13, <1>17
        DEF All, M, n, asked, home, first, second, rest, mounts, Apart

(* In such an order no mount on a path of its own covers an earlier one.   *)
LEMMA NoneHidden ==
    ASSUME NEW S, NEW mounts, NEW sorted,
           \A a \in DOMAIN mounts : mounts[a].target \in Seq(S),
           \A a \in DOMAIN mounts, b \in DOMAIN mounts :
               a # b => mounts[a].target # mounts[b].target,
           InOrder(sorted, mounts),
           NEW m \in DOMAIN sorted, NEW k \in 1..(m - 1)
    PROVE  ~Within(sorted[k].target, sorted[m].target)
<1>1. \A n \in DOMAIN sorted : \A l \in 1..(n - 1) :
          \E a \in DOMAIN mounts, b \in DOMAIN mounts :
              /\ a # b /\ sorted[n] = mounts[a] /\ sorted[l] = mounts[b]
              /\ Len(mounts[b].target) <= Len(mounts[a].target)
  BY DEF InOrder
<1>2. PICK a \in DOMAIN mounts, b \in DOMAIN mounts :
          /\ a # b /\ sorted[m] = mounts[a] /\ sorted[k] = mounts[b]
          /\ Len(mounts[b].target) <= Len(mounts[a].target)
  BY <1>1
<1>3. mounts[a].target # mounts[b].target
  BY <1>2
<1>4. ~Within(mounts[b].target, mounts[a].target)
  BY <1>2, <1>3, WithinLonger
<1> QED BY <1>2, <1>4

(* What validation accepts is visible in the guest, for every number of    *)
(* mounts and every path: no mount covers an earlier one, because an       *)
(* earlier one has no longer path and none has the same, nothing covers    *)
(* the management user's home, and nothing is writable that was not asked  *)
(* for (config/validate.go, lima/template.go).                             *)
THEOREM MountsServed ==
    ASSUME NEW Text, NEW Other, NEW i \in MachinesToRender(Text, Other)
    PROVE  MachineServes(i.config, i.arch, i.host, i.uid)
<1> DEFINE config == i.config
           asked  == config.mounts
           n      == Len(asked)
           home   == config.user.home
           All    == GuestParts(Text)
           mounts == Requested(config)
           sorted == TemplateMounts(config)
           rendered == Render(config, i.arch, i.host, i.uid)
<1>1. SUFFICES ASSUME ValidateMounts(home, asked), config = Normalized(config)
               PROVE  /\ Len(sorted) = n + 2
                      /\ Mount(home, TRUE) \in Range(sorted)
                      /\ Mount(<<"mnt", "limanix">>, FALSE) \in Range(sorted)
                      /\ \A k \in DOMAIN asked :
                          Mount(asked[k].target, asked[k].mode = "rw") \in Range(sorted)
                      /\ \A m \in DOMAIN sorted :
                          /\ \A k \in 1..(m - 1) :
                                ~Within(sorted[k].target, sorted[m].target)
                          /\ ~Within(<<"home", "limanix-admin">>, sorted[m].target)
                          /\ sorted[m].writable =>
                              \/ sorted[m].target = home
                              \/ \E k \in DOMAIN asked :
                                    asked[k].target = sorted[m].target /\ asked[k].mode = "rw"
                      /\ rendered.adminUID # i.uid
                      /\ rendered.machine.network = "shared" <=> rendered.machine.vmType = "qemu"
  <2>1. rendered.mounts = sorted
    BY DEF Render
  <2> HIDE DEF sorted, rendered
  <2> QED BY <2>1 DEF MachineServes, rendered
<1>2. /\ n \in Nat /\ DOMAIN asked = 1..n
      /\ mounts \in Seq([target : Seq(All), writable : BOOLEAN])
      /\ DOMAIN mounts = 1..(n + 2) /\ Len(mounts) = n + 2
      /\ mounts[1] = Mount(home, TRUE)
      /\ mounts[2] = Mount(<<"mnt", "limanix">>, FALSE)
      /\ \A k \in 1..n : mounts[k + 2] = Mount(asked[k].target, asked[k].mode = "rw")
      /\ \A k \in DOMAIN mounts : k \in {1, 2} \/ \E m \in 1..n : k = m + 2
      /\ \A k \in DOMAIN mounts : ~Within(<<"home", "limanix-admin">>, mounts[k].target)
      /\ \A k \in DOMAIN mounts, m \in DOMAIN mounts :
            k # m => mounts[k].target # mounts[m].target
  <2>1. Apart(Text, config)
    BY <1>1, RequestedApart
  <2> HIDE DEF config
  <2> QED BY <2>1 DEF Apart
<1>3. InOrder(sorted, mounts)
  <2>1. \A p \in Seq(All) : Len(p) \in Nat
    BY SequenceParts
  <2> HIDE DEF All, config
  <2> QED BY <1>2, <2>1, Sorted
<1>4. /\ DOMAIN sorted = DOMAIN mounts /\ Len(sorted) = Len(mounts)
      /\ \A k \in DOMAIN mounts : mounts[k] \in Range(sorted)
      /\ \A m \in DOMAIN sorted : \E k \in DOMAIN mounts : sorted[m] = mounts[k]
  <2> HIDE DEF sorted, mounts
  <2> QED BY <1>3 DEF InOrder
<1>5. /\ rendered.adminUID # i.uid
      /\ rendered.machine.network = "shared" <=> rendered.machine.vmType = "qemu"
  <2>1. rendered.adminUID = ManagementUser(i.uid) /\ i.uid \in Nat
    BY DEF Render, MachinesToRender
  <2>2. rendered.machine = MachineTemplate(i.arch, i.host)
    BY DEF Render
  <2>3. rendered.adminUID # i.uid
    BY <2>1 DEF ManagementUser
  <2>4. rendered.machine.network = "shared" <=> rendered.machine.vmType = "qemu"
    BY <2>2 DEF MachineTemplate
  <2> QED BY <2>3, <2>4
<1> HIDE DEF config, asked, n, home, All, mounts, sorted, rendered
<1>6. \A k \in DOMAIN mounts : mounts[k].target \in Seq(All)
  <2>1. \A k \in DOMAIN mounts : mounts[k] \in [target : Seq(All), writable : BOOLEAN]
    BY <1>2, SequenceParts
  <2> QED BY <2>1
<1>7. ASSUME NEW m \in DOMAIN sorted, NEW k \in 1..(m - 1)
      PROVE  ~Within(sorted[k].target, sorted[m].target)
  BY <1>2, <1>3, <1>6, <1>7, NoneHidden
<1>8. ASSUME NEW m \in DOMAIN sorted
      PROVE  /\ ~Within(<<"home", "limanix-admin">>, sorted[m].target)
             /\ sorted[m].writable =>
                 \/ sorted[m].target = home
                 \/ \E k \in DOMAIN asked :
                        asked[k].target = sorted[m].target /\ asked[k].mode = "rw"
  <2>1. PICK k \in DOMAIN mounts : sorted[m] = mounts[k]
    BY <1>4, <1>8
  <2>2. ~Within(<<"home", "limanix-admin">>, sorted[m].target)
    BY <1>2, <2>1
  <2>3. CASE k \in {1, 2}
    BY <1>2, <2>1, <2>2, <2>3 DEF Mount
  <2>4. ASSUME NEW j \in 1..n, k = j + 2
        PROVE  sorted[m].writable =>
                  asked[j].target = sorted[m].target /\ asked[j].mode = "rw"
    <3>1. sorted[m] = Mount(asked[j].target, asked[j].mode = "rw")
      BY <1>2, <2>1, <2>4
    <3>2. sorted[m].target = asked[j].target
      BY <3>1 DEF Mount
    <3>3. CASE asked[j].mode # "rw"
      <4>1. sorted[m] = Mount(asked[j].target, FALSE)
        BY <3>1, <3>3, Zenon
      <4> QED BY <4>1 DEF Mount
    <3> QED BY <3>2, <3>3
  <2> QED BY <1>2, <2>1, <2>2, <2>3, <2>4
<1>9. ASSUME NEW k \in DOMAIN asked
      PROVE  Mount(asked[k].target, asked[k].mode = "rw") \in Range(sorted)
  <2>1. k + 2 \in DOMAIN mounts /\ mounts[k + 2] = Mount(asked[k].target, asked[k].mode = "rw")
    BY <1>2, <1>9
  <2> QED BY <1>4, <2>1
<1>10. mounts[1] \in Range(sorted) /\ mounts[2] \in Range(sorted) /\ Len(sorted) = n + 2
  <2>1. 1 \in DOMAIN mounts /\ 2 \in DOMAIN mounts
    BY <1>2
  <2> QED BY <1>2, <1>4, <2>1
<1> QED BY <1>2, <1>5, <1>7, <1>8, <1>9, <1>10

(* The rule the runs check on configurations of up to two mounts.          *)
THEOREM MountsAlwaysVisible ==
    ASSUME NEW Text, NEW Other, input \in MachinesToRender(Text, Other)
    PROVE  MountsVisible
  BY MountsServed DEF MountsVisible

-----------------------------------------------------------------------------
(* Sizes.                                                                  *)

(* What fits in an integer is not wrapped.                                 *)
LEMMA WrapFits ==
    ASSUME NEW n \in Nat, n <= MaxInt
    PROVE  Wrap(n) = n
  BY SizeAssumption DEF Wrap, MaxInt

(* A product is bounded exactly if its factor is by the quotient.          *)
LEMMA DivisionBounds ==
    ASSUME NEW a \in Nat, NEW b \in Nat, NEW d \in Nat \ {0}
    PROVE  a <= b \div d <=> a * d <= b
<1> DEFINE q == b \div d
<1>1. q \in Nat /\ d * q <= b /\ b < d * (q + 1)
  BY SMTT(30)
<1> HIDE DEF q
<1>2. ASSUME a <= q
      PROVE  a * d <= b
  BY <1>1, <1>2, SMTT(30)
<1>3. ASSUME a > q
      PROVE  a * d > b
  BY <1>1, <1>3, SMTT(30)
<1> QED BY <1>1, <1>2, <1>3 DEF q

(* A multiple divides without a remainder.                                 *)
LEMMA MultipleDivided ==
    ASSUME NEW a \in Nat, NEW d \in Nat \ {0}
    PROVE  (a * d) % d = 0 /\ (a * d) \div d = a
  BY SMTT(30)

(* What is read of an amount: all of it, if an integer holds it.           *)
LEMMA SizeParsed ==
    ASSUME NEW amount \in Nat
    PROVE  /\ amount * GiB \in Nat
           /\ ParseByteSize(amount) =
                IF amount > 0 /\ amount * GiB <= MaxInt
                THEN [ok |-> TRUE, size |-> amount * GiB] ELSE [ok |-> FALSE, size |-> 0]
           /\ amount > 0 => Amount(amount * GiB) = [ok |-> TRUE, amount |-> amount]
<1>1. MaxInt \in Nat /\ GiB \in Nat \ {0} /\ amount * GiB \in Nat
  BY SizeAssumption DEF MaxInt
<1>2. amount <= MaxInt \div GiB <=> amount * GiB <= MaxInt
  BY <1>1, DivisionBounds
<1>3. amount * GiB <= MaxInt => Wrap(amount * GiB) = amount * GiB
  BY <1>1, WrapFits
<1>4. amount > 0 => amount * GiB > 0
  BY <1>1, SMTT(30)
<1>5. ParseByteSize(amount) =
          IF amount > 0 /\ amount * GiB <= MaxInt
          THEN [ok |-> TRUE, size |-> amount * GiB] ELSE [ok |-> FALSE, size |-> 0]
  BY <1>2, <1>3, <1>4 DEF ParseByteSize
<1>6. amount > 0 => Amount(amount * GiB) = [ok |-> TRUE, amount |-> amount]
  BY <1>1, <1>4, MultipleDivided DEF Amount
<1> QED BY <1>1, <1>5, <1>6

(* A size is accepted exactly if it is positive and an integer holds it,   *)
(* and it is written as it was read, for integers of every width and every *)
(* unit: the overflow check loses no size (domain/size.go ParseByteSize,   *)
(* MarshalText).                                                           *)
THEOREM SizesSurvive == \A amount \in Nat : SizeSurvives(amount)
<1> SUFFICES ASSUME NEW amount \in Nat
             PROVE  SizeSurvives(amount)
  OBVIOUS
<1> DEFINE a == amount * GiB
<1>1. /\ ParseByteSize(amount) =
            IF amount > 0 /\ a <= MaxInt
            THEN [ok |-> TRUE, size |-> a] ELSE [ok |-> FALSE, size |-> 0]
      /\ amount > 0 => Amount(a) = [ok |-> TRUE, amount |-> amount]
  BY SizeParsed
<1> HIDE DEF a
<1> QED BY <1>1 DEF SizeSurvives, a

-----------------------------------------------------------------------------
(* Induction. The library states it for predicates, which the provers do   *)
(* not instantiate; that a well-founded relation has minimal elements is   *)
(* about sets.                                                             *)

Less == {p \in Nat \X Nat : p[1] < p[2]}

(* The numbers have no infinite descent.                                   *)
LEMMA LessWellFounded == IsWellFoundedOn(Less, Nat)
<1>1. Less = OpToRel(<, Nat)
  BY Zenon DEF Less, OpToRel
<1> QED BY <1>1, NatLessThanWellFounded

(* A set that holds 0 and with every number the next one holds all.        *)
LEMMA Induction ==
    ASSUME NEW S, 0 \in S, \A n \in Nat : n \in S => n + 1 \in S
    PROVE  \A n \in Nat : n \in S
<1> DEFINE T == Nat \ S
<1>1. T \subseteq Nat
  OBVIOUS
<1>2. ASSUME T # {}
      PROVE  FALSE
  <2>1. PICK x \in T : \A y \in T : ~(<<y, x>> \in Less)
    <3> HIDE DEF T
    <3> QED BY <1>1, <1>2, LessWellFounded, WFMin
  <2>2. x - 1 \in Nat /\ <<x - 1, x>> \in Less
    BY DEF Less
  <2> QED BY <2>1, <2>2
<1> QED BY <1>2

(* The same up to a bound.                                                 *)
LEMMA InductionTo ==
    ASSUME NEW m \in Nat, NEW S, 0 \in S, \A n \in 1..m : n - 1 \in S => n \in S
    PROVE  \A n \in 0..m : n \in S
<1> DEFINE T == {n \in Nat : n <= m => n \in S}
<1>1. 0 \in T
  OBVIOUS
<1>2. ASSUME NEW n \in Nat, n \in T
      PROVE  n + 1 \in T
  <2>1. n + 1 <= m => n + 1 \in 1..m /\ (n + 1) - 1 = n /\ n <= m
    OBVIOUS
  <2> QED BY <1>2, <2>1
<1>3. \A n \in Nat : n \in T
  <2> HIDE DEF T
  <2> QED BY <1>1, <1>2, Induction
<1> QED BY <1>3

-----------------------------------------------------------------------------
(* What is computed from the front of a sequence to its end: step takes    *)
(* what has been computed and the next element.                            *)

IsRun(f, step, start, text) ==
    /\ DOMAIN f = 0..Len(text)
    /\ f[0] = start
    /\ \A n \in 1..Len(text) : f[n] = step[<<f[n - 1], text[n]>>]

(* Every text has a run.                                                   *)
LEMMA RunExists ==
    ASSUME NEW D, NEW C, NEW step \in [D \X C -> D], NEW start \in D, NEW text \in Seq(C)
    PROVE  \E f \in [0..Len(text) -> D] : IsRun(f, step, start, text)
<1> DEFINE l == Len(text)
           To(m, f) == f[0] = start /\ \A n \in 1..m : f[n] = step[<<f[n - 1], text[n]>>]
           S == {m \in Nat : \E f \in [0..m -> D] : To(m, f)}
<1>1. l \in Nat /\ \A n \in 1..l : text[n] \in C
  BY LenProperties, ElementOfSeq
<1>2. 0 \in S
  <2>1. [n \in 0..0 |-> start] \in [0..0 -> D]
    OBVIOUS
  <2>2. To(0, [n \in 0..0 |-> start])
    OBVIOUS
  <2> QED BY <2>1, <2>2
<1>3. ASSUME NEW m \in 1..l, m - 1 \in S
      PROVE  m \in S
  <2>1. PICK g \in [0..(m - 1) -> D] : To(m - 1, g)
    BY <1>3
  <2> DEFINE f == [n \in 0..m |-> IF n < m THEN g[n] ELSE step[<<g[m - 1], text[m]>>]]
  <2>2. l \in Nat /\ m \in Nat /\ m - 1 \in Nat /\ m - 1 \in 0..(m - 1) /\ m \in 1..l
    BY <1>1
  <2>3. g[m - 1] \in D /\ text[m] \in C
    BY <1>1, <2>2
  <2>4. step[<<g[m - 1], text[m]>>] \in D
    BY <2>3
  <2>5. f \in [0..m -> D]
    <3>1. \A n \in 0..m : n < m => n \in 0..(m - 1)
      BY <2>2
    <3> QED BY <2>4, <3>1
  <2>6. To(m, f)
    <3>1. f[0] = start
      BY <2>1, <2>2
    <3>2. ASSUME NEW n \in 1..m
          PROVE  f[n] = step[<<f[n - 1], text[n]>>]
      <4>1. n - 1 \in 0..m /\ n - 1 < m /\ n \in 0..m
        BY <2>2
      <4>2. f[n - 1] = g[n - 1]
        BY <4>1
      <4>3. CASE n < m
        <5>1. n \in 1..(m - 1)
          BY <2>2, <4>3
        <5> QED BY <2>1, <4>1, <4>2, <4>3, <5>1
      <4>4. CASE n = m
        BY <4>1, <4>2, <4>4
      <4> QED BY <2>2, <4>3, <4>4
    <3> QED BY <3>1, <3>2
  <2> QED BY <2>2, <2>5, <2>6
<1>4. l \in S
  <2> HIDE DEF l, S
  <2>1. \A n \in 0..l : n \in S
    BY <1>1, <1>2, <1>3, InductionTo
  <2> QED BY <1>1, <2>1
<1> QED BY <1>1, <1>4 DEF IsRun

(* Two runs agree as far as their texts do.                                *)
LEMMA RunsAgree ==
    ASSUME NEW step, NEW start, NEW s, NEW t, NEW f, NEW g, NEW m \in Nat,
           m <= Len(s), m <= Len(t), Len(s) \in Nat, Len(t) \in Nat,
           \A n \in 1..m : s[n] = t[n],
           IsRun(f, step, start, s), IsRun(g, step, start, t)
    PROVE  \A n \in 0..m : f[n] = g[n]
<1> DEFINE S == {n \in Nat : f[n] = g[n]}
<1>1. 0 \in S
  BY DEF IsRun
<1>2. ASSUME NEW n \in 1..m, n - 1 \in S
      PROVE  n \in S
  <2>1. n \in Nat /\ n \in 1..Len(s) /\ n \in 1..Len(t)
    OBVIOUS
  <2>2. f[n] = step[<<f[n - 1], s[n]>>] /\ g[n] = step[<<g[n - 1], t[n]>>]
    BY <2>1 DEF IsRun
  <2> QED BY <1>2, <2>1, <2>2
<1>3. \A n \in 0..m : n \in S
  <2> HIDE DEF S
  <2> QED BY <1>1, <1>2, InductionTo
<1> QED BY <1>3

(* A set that holds the empty sequence, and with every sequence its longer *)
(* ones, holds all.                                                        *)
LEMMA SequenceInduction ==
    ASSUME NEW C, NEW S, <<>> \in S,
           \A s \in Seq(C), c \in C : s \in S => Append(s, c) \in S
    PROVE  \A s \in Seq(C) : s \in S
<1> DEFINE T == {n \in Nat : \A s \in Seq(C) : Len(s) = n => s \in S}
<1>1. 0 \in T
  BY EmptySeq
<1>2. ASSUME NEW n \in Nat, n \in T
      PROVE  n + 1 \in T
  <2>1. ASSUME NEW s \in Seq(C), Len(s) = n + 1
        PROVE  s \in S
    <3>1. PICK f \in Seq(C), c \in C : s = Append(f, c)
      BY <2>1, SequenceEmptyOrAppend, EmptySeq
    <3>2. Len(f) = n
      BY <2>1, <3>1, AppendProperties, LenProperties
    <3> QED BY <1>2, <3>1, <3>2
  <2> QED BY <2>1
<1>3. \A n \in Nat : n \in T
  <2> HIDE DEF T
  <2> QED BY <1>1, <1>2, Induction
<1>4. ASSUME NEW s \in Seq(C)
      PROVE  s \in S
  BY <1>3, LenProperties
<1> QED BY <1>4

(* The run of a text that goes on.                                         *)
LEMMA RunAppend ==
    ASSUME NEW C, NEW step, NEW start, NEW text \in Seq(C), NEW c \in C, NEW f, NEW g,
           IsRun(f, step, start, text), IsRun(g, step, start, Append(text, c))
    PROVE  g[Len(Append(text, c))] = step[<<f[Len(text)], c>>]
<1> DEFINE l == Len(text)
           t == Append(text, c)
<1>0. IsRun(f, step, start, text) /\ IsRun(g, step, start, t)
  OBVIOUS
<1>1. /\ l \in Nat /\ Len(t) = l + 1 /\ t[l + 1] = c
      /\ \A n \in 1..l : text[n] = t[n]
  BY LenProperties, AppendProperties
<1>2. f[l] = g[l]
  <2>1. \A n \in 0..l : f[n] = g[n]
    <3>1. l <= Len(t) /\ Len(t) \in Nat
      BY <1>1
    <3>2. l <= Len(text) /\ Len(text) \in Nat
      BY <1>1
    <3>3. \A n \in 1..l : text[n] = t[n]
      BY <1>1
    <3> HIDE DEF t, l
    <3> QED BY <1>0, <1>1, <3>1, <3>2, <3>3, RunsAgree
  <2> QED BY <1>1, <2>1
<1>3. g[l + 1] = step[<<g[(l + 1) - 1], t[l + 1]>>]
  <2>1. l + 1 \in 1..Len(t)
    BY <1>1
  <2> HIDE DEF l, t
  <2> QED BY <1>0, <2>1 DEF IsRun
<1>4. (l + 1) - 1 = l
  BY <1>1
<1> HIDE DEF l, t
<1> QED BY <1>1, <1>2, <1>3, <1>4 DEF l, t

-----------------------------------------------------------------------------
(* Sequences put together from sequences.                                  *)

Concat(D) == [p \in D \X D |-> p[1] \o p[2]]

(* FlattenSeq is the end of the run that puts one part after the other.    *)
LEMMA FlattenRuns ==
    ASSUME NEW C, NEW ss \in Seq(Seq(C))
    PROVE  \E g : /\ IsRun(g, Concat(Seq(C)), <<>>, ss)
                  /\ FlattenSeq(ss) = g[Len(ss)] /\ FlattenSeq(ss) \in Seq(C)
<1> DEFINE D == Seq(C)
           step == Concat(D)
           l == Len(ss)
<1>1. step \in [D \X D -> D] /\ <<>> \in D
  BY DEF Concat
<1>2. PICK g \in [0..l -> D] : IsRun(g, step, <<>>, ss)
  <2> HIDE DEF D, step
  <2> QED BY <1>1, RunExists DEF D
<1>3. l \in Nat /\ \A n \in 1..l : ss[n] \in D
  BY EmptySeq
<1> SUFFICES ASSUME l # 0
             PROVE  FlattenSeq(ss) = g[l]
  <2>0. l \in 0..l
    BY <1>3
  <2>1. ASSUME l = 0
        PROVE  FlattenSeq(ss) = g[l]
    <3>1. ss = <<>>
      BY <2>1, EmptySeq
    <3> QED BY <1>2, <2>1, <3>1, Zenon DEF IsRun, FlattenSeq
  <2> QED BY <1>2, <2>0, <2>1
<1>4. /\ g[0] = <<>>
      /\ \A n \in 1..l : g[n] = g[n - 1] \o ss[n]
  <2>1. \A n \in 1..l : n - 1 \in 0..l
    BY <1>3
  <2>2. ASSUME NEW n \in 1..l
        PROVE  g[n] = g[n - 1] \o ss[n]
    <3>1. g[n] = step[<<g[n - 1], ss[n]>>]
      BY <1>2 DEF IsRun
    <3>2. <<g[n - 1], ss[n]>> \in D \X D
      <4> HIDE DEF D
      <4> QED BY <2>1, <1>3
    <3> QED BY <3>1, <3>2 DEF Concat
  <2> QED BY <1>2, <2>2 DEF IsRun
<1> DEFINE f == [n \in 1..l |-> g[n]]
           F == [i \in 1..l |-> IF i = 1 THEN ss[i] ELSE f[i - 1] \o ss[i]]
<1>5. f \in [1..l -> D]
  BY <1>3
<1>6. g[1] = ss[1]
  <2>1. 1 \in 1..l /\ ss[1] \in D
    BY <1>3
  <2>2. g[1] = <<>> \o ss[1]
    <3>1. g[1] = g[1 - 1] \o ss[1]
      BY <1>4, <2>1
    <3>2. g[1 - 1] = <<>>
      BY <1>4
    <3> QED BY <3>1, <3>2
  <2> QED BY <2>1, <2>2, ConcatEmptySeq
<1>7. f = F
  <2>1. ASSUME NEW n \in 1..l
        PROVE  f[n] = F[n]
    <3>1. CASE n = 1
      BY <1>6, <3>1
    <3>2. CASE n # 1
      <4>1. n - 1 \in 1..l
        BY <1>3, <3>2
      <4> QED BY <1>4, <3>2, <4>1
    <3> QED BY <3>1, <3>2
  <2> QED BY <2>1
<1>8. ASSUME NEW h, h = [i \in 1..l |-> IF i = 1 THEN ss[i] ELSE h[i - 1] \o ss[i]]
      PROVE  h = f
  <2> DEFINE S == {n \in Nat : n \in 1..l => h[n] = f[n]}
  <2>1. 0 \in S
    OBVIOUS
  <2>2. ASSUME NEW n \in 1..l, n - 1 \in S
        PROVE  n \in S
    <3>1. h[n] = IF n = 1 THEN ss[n] ELSE h[n - 1] \o ss[n]
      BY <1>8
    <3>2. CASE n = 1
      BY <1>6, <3>1, <3>2
    <3>3. CASE n # 1
      <4>1. n - 1 \in 1..l /\ n \in Nat
        BY <1>3, <3>3
      <4> QED BY <1>4, <2>2, <3>1, <3>3, <4>1
    <3> QED BY <3>2, <3>3
  <2>3. \A n \in 0..l : n \in S
    <3> HIDE DEF S
    <3> QED BY <1>3, <2>1, <2>2, InductionTo
  <2>4. \A n \in 1..l : h[n] = f[n]
    <3>1. \A n \in 1..l : n \in 0..l
      BY <1>3
    <3>2. \A n \in 1..l : n \in S
      BY <2>3, <3>1
    <3> HIDE DEF f, l
    <3> QED BY <3>2
  <2>5. DOMAIN h = 1..l
    BY <1>8
  <2> HIDE DEF f
  <2> QED BY <1>5, <1>8, <2>4, <2>5
<1>9. FlattenSeq(ss) = f[l]
  <2> DEFINE IsFlat(h) == h = [i \in 1..l |-> IF i = 1 THEN ss[i] ELSE h[i - 1] \o ss[i]]
  <2>1. IsFlat(f)
    BY <1>7
  <2>2. (CHOOSE h : IsFlat(h)) = f
    <3> HIDE DEF f
    <3>1. IsFlat(CHOOSE h : IsFlat(h))
      BY <2>1, Zenon
    <3> QED BY <3>1, <1>8
  <2> HIDE DEF f
  <2> QED BY <1>3, <2>2, Zenon DEF FlattenSeq
<1>10. l \in 1..l
  BY <1>3
<1> QED BY <1>9, <1>10

(* To flatten a list that is one longer.                                   *)
LEMMA FlattenAppend ==
    ASSUME NEW C
    PROVE  /\ FlattenSeq(<<>>) = <<>>
           /\ \A ss \in Seq(Seq(C)) : FlattenSeq(ss) \in Seq(C)
           /\ \A ss \in Seq(Seq(C)), s \in Seq(C) :
                FlattenSeq(Append(ss, s)) = FlattenSeq(ss) \o s
<1>1. FlattenSeq(<<>>) = <<>>
  BY EmptySeq, Zenon DEF FlattenSeq
<1>2. ASSUME NEW ss \in Seq(Seq(C))
      PROVE  FlattenSeq(ss) \in Seq(C)
  BY FlattenRuns
<1>3. ASSUME NEW ss \in Seq(Seq(C)), NEW s \in Seq(C)
      PROVE  FlattenSeq(Append(ss, s)) = FlattenSeq(ss) \o s
  <2> DEFINE D     == Seq(C)
             t     == Append(ss, s)
             step  == Concat(D)
             start == <<>>
  <2>1. PICK f : /\ IsRun(f, step, start, ss)
                 /\ FlattenSeq(ss) = f[Len(ss)] /\ f[Len(ss)] \in D
    BY FlattenRuns
  <2>2. t \in Seq(D)
    BY AppendProperties
  <2>3. PICK g : IsRun(g, step, start, t) /\ FlattenSeq(t) = g[Len(t)]
    BY <2>2, FlattenRuns
  <2>4. g[Len(t)] = step[<<f[Len(ss)], s>>]
    <3>1. ss \in Seq(D) /\ s \in D
      OBVIOUS
    <3> HIDE DEF D, step, start
    <3> QED BY <2>1, <2>3, <3>1, RunAppend
  <2>5. step[<<f[Len(ss)], s>>] = f[Len(ss)] \o s
    <3>1. <<f[Len(ss)], s>> \in D \X D
      BY <2>1
    <3> QED BY <3>1 DEF Concat
  <2> QED BY <2>1, <2>3, <2>4, <2>5
<1> QED BY <1>1, <1>2, <1>3

(* What a function makes of each element of a sequence.                    *)
Mapped(m, s) == [i \in DOMAIN s |-> m[s[i]]]

(* There is one result for each element.                                   *)
LEMMA MappedFacts ==
    ASSUME NEW C, NEW D, NEW m \in [C -> D], NEW s \in Seq(C)
    PROVE  Mapped(m, s) \in Seq(D) /\ Len(Mapped(m, s)) = Len(s)
<1>1. Len(s) \in Nat /\ DOMAIN s = 1..Len(s) /\ \A i \in 1..Len(s) : s[i] \in C
  BY LenProperties, ElementOfSeq
<1>2. Mapped(m, s) \in [1..Len(s) -> D]
  BY <1>1 DEF Mapped
<1> QED BY <1>1, <1>2

(* A longer sequence has one more.                                         *)
LEMMA MappedAppend ==
    ASSUME NEW C, NEW D, NEW m \in [C -> D], NEW s \in Seq(C), NEW c \in C
    PROVE  Mapped(m, Append(s, c)) = Append(Mapped(m, s), m[c])
<1>0. ASSUME NEW v \in Seq(C)
      PROVE  Mapped(m, v) \in Seq(D) /\ Len(Mapped(m, v)) = Len(v)
  <2>1. Len(v) \in Nat /\ DOMAIN v = 1..Len(v) /\ \A i \in 1..Len(v) : v[i] \in C
    BY LenProperties, ElementOfSeq
  <2>2. Mapped(m, v) \in [1..Len(v) -> D]
    BY <2>1 DEF Mapped
  <2> QED BY <2>1, <2>2
<1> DEFINE l == Len(s)
           t == Append(s, c)
<1>1. /\ l \in Nat /\ DOMAIN s = 1..l /\ t \in Seq(C) /\ Len(t) = l + 1
      /\ t[l + 1] = c /\ \A i \in 1..l : t[i] = s[i]
  BY LenProperties, AppendProperties
<1>2. m[c] \in D /\ Mapped(m, s) \in Seq(D) /\ Len(Mapped(m, s)) = l
  BY <1>0
<1>3. Mapped(m, t) \in Seq(D) /\ Len(Mapped(m, t)) = l + 1
  BY <1>0, <1>1
<1> DEFINE ms == Mapped(m, s)
           u  == Append(ms, m[c])
<1>4. u \in Seq(D) /\ Len(u) = l + 1 /\ u[l + 1] = m[c] /\ \A i \in 1..l : u[i] = ms[i]
  <2> DEFINE d == m[c]
  <2>1. Len(ms) = l /\ ms \in Seq(D) /\ d \in D
    BY <1>2
  <2> HIDE DEF ms, l, d
  <2>2. /\ Append(ms, d) \in Seq(D) /\ Len(Append(ms, d)) = Len(ms) + 1
        /\ Append(ms, d)[Len(ms) + 1] = d
        /\ \A i \in 1..Len(ms) : Append(ms, d)[i] = ms[i]
    BY <2>1, AppendProperties
  <2> QED BY <2>1, <2>2 DEF d
<1>5. ASSUME NEW i \in 1..(l + 1)
      PROVE  Mapped(m, t)[i] = u[i]
  <2>1. i \in DOMAIN t /\ Mapped(m, t)[i] = m[t[i]]
    BY <1>1, LenProperties DEF Mapped
  <2>2. CASE i \in 1..l
    <3>1. ms[i] = m[s[i]]
      BY <1>1, <2>2 DEF Mapped
    <3> HIDE DEF ms, u, t
    <3> QED BY <1>1, <1>4, <2>1, <2>2, <3>1
  <2>3. CASE i = l + 1
    <3> HIDE DEF ms, u, t
    <3> QED BY <1>1, <1>4, <2>1, <2>3
  <2>4. i \in 1..l \/ i = l + 1
    <3> HIDE DEF l
    <3> QED BY <1>1
  <2> QED BY <2>2, <2>3, <2>4, Zenon
<1> HIDE DEF u, t, l
<1>6. Mapped(m, t) = u
  BY <1>3, <1>4, <1>5, SeqEqual
<1> QED BY <1>6 DEF u, t

-----------------------------------------------------------------------------
(* Environment files.                                                      *)

Phases == {"line", "name", "equals", "value", "escape", "quoted", "error"}

Envs(C) == UNION {[N -> Seq(C)] : N \in SUBSET (C \cup {""})}

(* What a value consists of that a file can hold.                          *)
Plain(C) == C \ {"noncharacter"}

(* What a reader can have read of a text over C.                           *)
Readings(C) ==
    [at : Phases, name : C \cup {""}, value : Seq(C),
     env : Envs(C)]

(* An assignment changes an environment into one.                          *)
LEMMA AssignFacts ==
    ASSUME NEW C, NEW env \in Envs(C),
           NEW name \in C \cup {""}, NEW value \in Seq(C)
    PROVE  Assign(env, name, value) \in Envs(C)
<1>1. PICK N \in SUBSET (C \cup {""}) : env \in [N -> Seq(C)]
  BY DEF Envs
<1>2. Assign(env, name, value) \in [N \cup {name} -> Seq(C)]
  BY <1>1 DEF Assign
<1>3. N \cup {name} \in SUBSET (C \cup {""})
  BY <1>1
<1> QED BY <1>2, <1>3 DEF Envs

(* A character changes a reading into one.                                 *)
LEMMA ReadFacts ==
    ASSUME NEW C, Special \subseteq C, NEW s \in Readings(C), NEW c \in C, NEW shell
    PROVE  Read(s, c, shell) \in Readings(C)
<1> DEFINE E == Envs(C)
<1>1. /\ s = [at |-> s.at, name |-> s.name, value |-> s.value, env |-> s.env]
      /\ s.at \in Phases /\ s.name \in C \cup {""} /\ s.value \in Seq(C) /\ s.env \in E
  BY DEF Readings
<1>2. Append(s.value, c) \in Seq(C) /\ s.value \o <<"backslash", c>> \in Seq(C)
  <2>1. s.value \in Seq(C) /\ "backslash" \in C
    BY <1>1 DEF Special
  <2>2. <<"backslash", c>> \in Seq(C)
    BY <2>1
  <2> HIDE DEF E
  <2> QED BY <2>1, <2>2, AppendProperties, ConcatProperties
<1>3. Assign(s.env, s.name, s.value) \in E
  BY <1>1, AssignFacts
<1>4. <<>> \in Seq(C)
  OBVIOUS
<1>5. Readings(C) = [at : Phases, name : C \cup {""}, value : Seq(C), env : E]
  BY DEF Readings
<1> HIDE DEF E
<1> QED BY <1>1, <1>2, <1>3, <1>4, <1>5 DEF Read, Reading, Phases, Unreadable, Special

Reads(C, shell) == [p \in Readings(C) \X C |-> Read(p[1], p[2], shell)]

(* Reading goes on where it stopped.                                       *)
LEMMA ReadTextRuns ==
    ASSUME NEW C, Special \subseteq C, NEW start \in Readings(C), NEW text \in Seq(C),
           NEW shell
    PROVE  \E g : /\ IsRun(g, Reads(C, shell), start, text)
                  /\ ReadText(start, text, shell) = g[Len(text)]
                  /\ ReadText(start, text, shell) \in Readings(C)
<1> DEFINE D == Readings(C)
           step == Reads(C, shell)
           l == Len(text)
<1>1. step \in [D \X C -> D]
  BY ReadFacts DEF Reads
<1>2. PICK f \in [0..l -> D] : IsRun(f, step, start, text)
  <2> HIDE DEF D, step
  <2> QED BY <1>1, RunExists DEF D
<1>3. l \in Nat /\ l \in 0..l /\ \A n \in 1..l : text[n] \in C /\ n - 1 \in 0..l
  BY LenProperties, ElementOfSeq
<1>4. ASSUME NEW n \in 1..l
      PROVE  f[n] = Read(f[n - 1], text[n], shell)
  <2>1. f[n] = step[<<f[n - 1], text[n]>>]
    BY <1>2 DEF IsRun
  <2>2. <<f[n - 1], text[n]>> \in D \X C
    <3> HIDE DEF D
    <3> QED BY <1>2, <1>3
  <2> HIDE DEF D
  <2> QED BY <2>1, <2>2 DEF Reads, D
<1> DEFINE F(h) == [n \in 0..l |-> IF n = 0 THEN start ELSE Read(h[n - 1], text[n], shell)]
           Is(h) == h = F(h)
<1>5. f[0] = start
  BY <1>2 DEF IsRun
<1>6. Is(f)
  <2>1. ASSUME NEW n \in 0..l
        PROVE  f[n] = F(f)[n]
    <3>1. n # 0 => n \in 1..l
      BY <1>3
    <3> QED BY <1>4, <1>5, <3>1
  <2> QED BY <1>2, <2>1
<1>7. ASSUME NEW h, Is(h)
      PROVE  h = f
  <2> DEFINE S == {n \in Nat : n \in 0..l => h[n] = f[n]}
  <2>0. \A n \in 0..l : h[n] = IF n = 0 THEN start ELSE Read(h[n - 1], text[n], shell)
    BY <1>7
  <2>1. 0 \in S
    BY <1>3, <1>5, <2>0
  <2>2. ASSUME NEW n \in 1..l, n - 1 \in S
        PROVE  n \in S
    <3>1. n \in 0..l /\ n # 0 /\ n \in Nat
      BY <1>3
    <3>2. h[n - 1] = f[n - 1]
      BY <1>3, <2>2
    <3>3. h[n] = Read(h[n - 1], text[n], shell)
      BY <2>0, <3>1
    <3> QED BY <1>4, <3>1, <3>2, <3>3
  <2>3. \A n \in 0..l : n \in S
    <3> HIDE DEF S
    <3> QED BY <1>3, <2>1, <2>2, InductionTo
  <2>4. DOMAIN h = 0..l
    BY <1>7
  <2>5. \A n \in 0..l : h[n] = f[n]
    BY <2>3
  <2>6. h = [n \in 0..l |-> h[n]]
    BY <1>7
  <2> QED BY <1>2, <2>4, <2>5, <2>6
<1>8. ReadText(start, text, shell) = f[l]
  <2>1. (CHOOSE h : Is(h)) = f
    <3>1. Is(CHOOSE h : Is(h))
      BY <1>6, Zenon
    <3> HIDE DEF Is
    <3> QED BY <3>1, <1>7
  <2> QED BY <2>1, Zenon DEF ReadText
<1>9. f[l] \in D
  <2> HIDE DEF D
  <2> QED BY <1>2, <1>3
<1> QED BY <1>2, <1>8, <1>9

(* Nothing is read of an empty text,                                       *)
LEMMA ReadNothing ==
    ASSUME NEW C, Special \subseteq C, NEW start \in Readings(C), NEW shell
    PROVE  ReadText(start, <<>>, shell) = start
<1> DEFINE step == Reads(C, shell)
<1>1. <<>> \in Seq(C) /\ Len(<<>>) = 0
  BY EmptySeq
<1> DEFINE none == <<>>
<1>2. PICK g : /\ IsRun(g, step, start, none)
               /\ ReadText(start, none, shell) = g[Len(none)]
  <2>1. none \in Seq(C)
    BY <1>1
  <2> HIDE DEF none
  <2> QED BY <2>1, ReadTextRuns
<1>3. g[0] = start
  BY <1>2, Zenon DEF IsRun
<1>4. g[Len(none)] = g[0]
  BY <1>1
<1> QED BY <1>2, <1>3, <1>4, Zenon

(* every text is read,                                                     *)
LEMMA ReadTextIn ==
    ASSUME NEW C, Special \subseteq C, NEW start \in Readings(C), NEW shell, NEW text \in Seq(C)
    PROVE  ReadText(start, text, shell) \in Readings(C)
BY ReadTextRuns

(* and a longer one character by character.                                *)
LEMMA ReadTextAppend ==
    ASSUME NEW C, Special \subseteq C, NEW start \in Readings(C), NEW shell,
           NEW text \in Seq(C), NEW c \in C
    PROVE  ReadText(start, Append(text, c), shell) = Read(ReadText(start, text, shell), c, shell)
<1> DEFINE D == Readings(C)
           step == Reads(C, shell)
<1> DEFINE t == Append(text, c)
<1>1. PICK f : /\ IsRun(f, step, start, text)
               /\ ReadText(start, text, shell) = f[Len(text)] /\ f[Len(text)] \in D
  BY ReadTextRuns
<1>2. t \in Seq(C)
  BY AppendProperties
<1>3. PICK g : IsRun(g, step, start, t) /\ ReadText(start, t, shell) = g[Len(t)]
  <2> HIDE DEF t
  <2> QED BY <1>2, ReadTextRuns
<1>4. g[Len(t)] = step[<<f[Len(text)], c>>]
  <2> HIDE DEF step
  <2> QED BY <1>1, <1>3, RunAppend
<1>5. step[<<f[Len(text)], c>>] = Read(f[Len(text)], c, shell)
  <2>1. <<f[Len(text)], c>> \in D \X C
    BY <1>1
  <2> QED BY <2>1 DEF Reads
<1> QED BY <1>1, <1>3, <1>4, <1>5

(* A text is read by reading its front and then, from there, the rest.     *)
Joined(t, u) == t \o u

(* The same of two texts that are joined.                                  *)
LEMMA ReadTextConcat ==
    ASSUME NEW C, Special \subseteq C, NEW start \in Readings(C), NEW shell,
           NEW t \in Seq(C), NEW u \in Seq(C)
    PROVE  ReadText(start, Joined(t, u), shell) = ReadText(ReadText(start, t, shell), u, shell)
<1> DEFINE S == {s \in Seq(C) : ReadText(start, t \o s, shell)
                                    = ReadText(ReadText(start, t, shell), s, shell)}
<1>1. ReadText(start, t, shell) \in Readings(C)
  BY ReadTextIn
<1>2. <<>> \in S
  <2>1. t \o <<>> = t
    BY ConcatEmptySeq
  <2> QED BY <1>1, <2>1, ReadNothing, EmptySeq
<1>3. ASSUME NEW s \in Seq(C), NEW c \in C, s \in S
      PROVE  Append(s, c) \in S
  <2>1. t \o Append(s, c) = Append(t \o s, c)
    <3>1. Append(s, c) = s \o <<c>> /\ Append(t \o s, c) = (t \o s) \o <<c>>
      BY AppendIsConcat, ConcatProperties
    <3> QED BY <3>1, ConcatAssociative
  <2>2. t \o s \in Seq(C) /\ Append(s, c) \in Seq(C)
    BY ConcatProperties, AppendProperties
  <2>3. ReadText(start, Append(t \o s, c), shell) = Read(ReadText(start, t \o s, shell), c, shell)
    <3> DEFINE ts == t \o s
    <3> HIDE DEF ts
    <3>1. ReadText(start, Append(ts, c), shell) = Read(ReadText(start, ts, shell), c, shell)
      <4>1. ts \in Seq(C)
        BY <2>2 DEF ts
      <4> QED BY <4>1, ReadTextAppend
    <3> QED BY <3>1 DEF ts
  <2>4. ReadText(ReadText(start, t, shell), Append(s, c), shell)
            = Read(ReadText(ReadText(start, t, shell), s, shell), c, shell)
    <3> DEFINE mid == ReadText(start, t, shell)
    <3> HIDE DEF mid
    <3>1. ReadText(mid, Append(s, c), shell) = Read(ReadText(mid, s, shell), c, shell)
      <4>1. mid \in Readings(C)
        BY <1>1 DEF mid
      <4> QED BY <4>1, ReadTextAppend
    <3> QED BY <3>1 DEF mid
  <2> QED BY <1>3, <2>1, <2>2, <2>3, <2>4
<1>4. u \in S
  <2> HIDE DEF S
  <2> QED BY <1>2, <1>3, SequenceInduction
<1> QED BY <1>4 DEF Joined

(* Texts of one, two and three characters.                                 *)
LEMMA ReadOne ==
    ASSUME NEW C, Special \subseteq C, NEW s \in Readings(C), NEW shell, NEW c \in C
    PROVE  ReadText(s, <<c>>, shell) = Read(s, c, shell)
<1> DEFINE none == <<>>
<1>1. none \in Seq(C) /\ Append(none, c) = <<c>>
  OBVIOUS
<1>2. ReadText(s, none, shell) = s
  BY ReadNothing
<1>3. ReadText(s, Append(none, c), shell) = Read(ReadText(s, none, shell), c, shell)
  <2> HIDE DEF none
  <2> QED BY <1>1, ReadTextAppend
<1> QED BY <1>1, <1>2, <1>3

(* Two characters.                                                         *)
LEMMA ReadTwo ==
    ASSUME NEW C, Special \subseteq C, NEW s \in Readings(C), NEW shell, NEW c \in C, NEW d \in C
    PROVE  ReadText(s, <<c, d>>, shell) = Read(Read(s, c, shell), d, shell)
<1> DEFINE one == <<c>>
<1>1. one \in Seq(C)
  OBVIOUS
<1>4. Append(one, d) = <<c, d>>
  <2>1. <<c, d>> \in Seq(C) /\ Len(<<c, d>>) = 2 /\ Len(one) = 1
    OBVIOUS
  <2>2. Append(one, d) \in Seq(C) /\ Len(Append(one, d)) = 2
    BY <1>1, <2>1, AppendProperties
  <2>3. Append(one, d)[1] = c /\ Append(one, d)[2] = d
    BY <1>1, <2>1, AppendProperties
  <2> DEFINE two == <<c, d>>
  <2>4. two[1] = c /\ two[2] = d /\ \A i \in 1..2 : i = 1 \/ i = 2
    OBVIOUS
  <2>5. \A i \in 1..Len(two) : Append(one, d)[i] = two[i]
    BY <2>1, <2>3, <2>4
  <2> HIDE DEF one, two
  <2> QED BY <2>1, <2>2, <2>5, SeqEqual DEF two
<1>2. ReadText(s, one, shell) = Read(s, c, shell)
  BY ReadOne
<1>3. ReadText(s, Append(one, d), shell) = Read(ReadText(s, one, shell), d, shell)
  <2> HIDE DEF one
  <2> QED BY <1>1, ReadTextAppend
<1> QED BY <1>1, <1>2, <1>3, <1>4

(* A value is escaped character by character.                              *)
EscapeOf(c) == IF c \in Special THEN <<"backslash", c>> ELSE <<c>>

(* What is written of a longer value is longer by its last character.      *)
LEMMA EscapeFacts ==
    ASSUME NEW C, Special \subseteq C
    PROVE  /\ Escape(<<>>) = <<>>
           /\ \A v \in Seq(C) : Escape(v) \in Seq(C)
           /\ \A v \in Seq(C), c \in C : Escape(Append(v, c)) = Escape(v) \o EscapeOf(c)
<1> DEFINE m == [c \in C |-> EscapeOf(c)]
           D == Seq(C)
<1>1. ASSUME NEW c \in C
      PROVE  EscapeOf(c) \in D
  <2>1. "backslash" \in C
    BY DEF Special
  <2>2. <<c>> \in Seq(C) /\ <<"backslash", c>> \in Seq(C)
    BY <2>1
  <2> QED BY <2>2 DEF EscapeOf
<1>2. m \in [C -> D]
  <2> HIDE DEF D
  <2> QED BY <1>1
<1>3. ASSUME NEW v \in Seq(C)
      PROVE  Escape(v) = FlattenSeq(Mapped(m, v))
  <2>1. \A i \in DOMAIN v : v[i] \in C
    OBVIOUS
  <2>2. Mapped(m, v) = [i \in DOMAIN v |->
            IF v[i] \in Special THEN <<"backslash", v[i]>> ELSE <<v[i]>>]
    BY <2>1 DEF Mapped, EscapeOf
  <2> QED BY <2>2, Zenon DEF Escape
<1>4. Escape(<<>>) = <<>>
  <2>1. Mapped(m, <<>>) = <<>>
    BY DEF Mapped
  <2>2. <<>> \in Seq(C)
    OBVIOUS
  <2>3. Escape(<<>>) = FlattenSeq(Mapped(m, <<>>))
    BY <1>3, <2>2, Zenon
  <2> QED BY <2>1, <2>3, FlattenAppend, Zenon
<1>5. ASSUME NEW v \in Seq(C)
      PROVE  Mapped(m, v) \in Seq(Seq(C)) /\ Escape(v) \in Seq(C)
  <2>1. Mapped(m, v) \in Seq(D)
    <3> HIDE DEF m, D
    <3> QED BY <1>2, MappedFacts
  <2>2. FlattenSeq(Mapped(m, v)) \in Seq(C)
    <3> HIDE DEF m
    <3> QED BY <2>1, FlattenAppend
  <2> QED BY <1>3, <2>1, <2>2
<1>6. ASSUME NEW v \in Seq(C), NEW c \in C
      PROVE  Escape(Append(v, c)) = Escape(v) \o EscapeOf(c)
  <2> DEFINE mv == Mapped(m, v)
  <2>1. Append(v, c) \in Seq(C)
    BY AppendProperties
  <2>2. Mapped(m, Append(v, c)) = Append(mv, m[c])
    <3> HIDE DEF m, D
    <3> QED BY <1>2, MappedAppend
  <2>3. m[c] = EscapeOf(c) /\ m[c] \in Seq(C)
    BY <1>1
  <2>4. FlattenSeq(Append(mv, m[c])) = FlattenSeq(mv) \o m[c]
    <3>1. mv \in Seq(Seq(C))
      BY <1>5
    <3> HIDE DEF m, mv
    <3> QED BY <2>3, <3>1, FlattenAppend
  <2>5. Escape(Append(v, c)) = FlattenSeq(Mapped(m, Append(v, c)))
    BY <1>3, <2>1, Zenon
  <2>6. Escape(v) = FlattenSeq(mv)
    BY <1>3
  <2> HIDE DEF m, mv
  <2> QED BY <2>2, <2>3, <2>4, <2>5, <2>6, Zenon
<1> QED BY <1>4, <1>5, <1>6

(* A reader is where it is, with what it has.                              *)
At(at, name, value, env) == [at |-> at, name |-> name, value |-> value, env |-> env]

(* The characters that end a part of a line.                               *)
LEMMA ReadMarks ==
    ASSUME NEW n, NEW v, NEW e, NEW shell
    PROVE  /\ Read(At("name", n, v, e), "=", shell) = At("equals", n, v, e)
           /\ Read(At("equals", n, v, e), "quote", shell) = At("value", n, v, e)
           /\ Read(At("value", n, v, e), "quote", shell) = At("quoted", n, v, e)
           /\ Read(At("value", n, v, e), "backslash", shell) = At("escape", n, v, e)
           /\ Read(At("quoted", n, v, e), "newline", shell) = Reading(Assign(e, n, v))
<1>1. Read(At("name", n, v, e), "=", shell) = At("equals", n, v, e)
  BY DEF Read, At
<1>2. Read(At("equals", n, v, e), "quote", shell) = At("value", n, v, e)
  BY DEF Read, At
<1>3. Read(At("value", n, v, e), "quote", shell) = At("quoted", n, v, e)
  BY DEF Read, At, Special, Unreadable
<1>4. Read(At("value", n, v, e), "backslash", shell) = At("escape", n, v, e)
  BY DEF Read, At, Special, Unreadable
<1>5. Read(At("quoted", n, v, e), "newline", shell) = Reading(Assign(e, n, v))
  BY DEF Read, At
<1> QED BY <1>1, <1>2, <1>3, <1>4, <1>5

(* The characters of a value.                                              *)
LEMMA ReadCharacter ==
    ASSUME NEW n, NEW v, NEW e, NEW c, c # "noncharacter", NEW shell
    PROVE  /\ c \notin Special =>
                Read(At("value", n, v, e), c, shell) = At("value", n, Append(v, c), e)
           /\ c \in Special =>
                Read(At("escape", n, v, e), c, shell) = At("value", n, Append(v, c), e)
<1>1. c \notin Special =>
        Read(At("value", n, v, e), c, shell) = At("value", n, Append(v, c), e)
  BY DEF Read, At, Special, Unreadable
<1>2. c \in Special =>
        Read(At("escape", n, v, e), c, shell) = At("value", n, Append(v, c), e)
  BY DEF Read, At, Special, Unreadable
<1> QED BY <1>1, <1>2

(* Whatever a value consists of, what is written of it is read as it was.  *)
LEMMA ValueRead ==
    ASSUME NEW C, Special \subseteq C, NEW shell, NEW n, NEW start, NEW e,
           \A v \in Seq(C) : At("value", n, v, e) \in Readings(C),
           start \in Seq(C), NEW value \in Seq(Plain(C))
    PROVE  ReadText(At("value", n, start, e), Escape(value), shell)
            = At("value", n, start \o value, e)
<1> DEFINE P == Plain(C)
           s == At("value", n, start, e)
           After(v) == At("value", n, start \o v, e)
           S == {v \in Seq(P) : ReadText(s, Escape(v), shell) = After(v)}
<1>1. Seq(P) \subseteq Seq(C)
  <2>1. P \subseteq C
    BY DEF Plain
  <2> HIDE DEF P
  <2> QED BY <2>1, SeqMonotonic
<1>2. s \in Readings(C)
  OBVIOUS
<1>3. ASSUME NEW v \in Seq(P)
      PROVE  /\ start \o v \in Seq(C) /\ After(v) \in Readings(C)
             /\ Escape(v) \in Seq(C)
  <2>1. v \in Seq(C)
    BY <1>1
  <2>2. start \o v \in Seq(C)
    BY <2>1, ConcatProperties
  <2>3. Escape(v) \in Seq(C)
    BY <2>1, EscapeFacts
  <2> QED BY <2>2, <2>3
<1>4. <<>> \in S
  <2>1. Escape(<<>>) = <<>>
    BY EscapeFacts
  <2>2. ReadText(s, <<>>, shell) = s
    <3> HIDE DEF s
    <3> QED BY <1>2, ReadNothing
  <2>3. start \o <<>> = start
    BY ConcatEmptySeq
  <2>4. After(<<>>) = s
    BY <2>3
  <2> QED BY <2>1, <2>2, <2>4, EmptySeq
<1>5. ASSUME NEW v \in Seq(P), NEW c \in P, v \in S
      PROVE  Append(v, c) \in S
  <2> DEFINE w == start \o v
             r == At("value", n, w, e)
             t == Escape(v)
             u == EscapeOf(c)
  <2>1. v \in Seq(C) /\ c \in C /\ c # "noncharacter" /\ Append(v, c) \in Seq(P)
    BY <1>1, AppendProperties DEF Plain
  <2>2. Escape(Append(v, c)) = t \o u
    BY <2>1, EscapeFacts
  <2>3. t \in Seq(C) /\ u \in Seq(C) /\ w \in Seq(C) /\ r \in Readings(C)
    <3>1. "backslash" \in C
      BY DEF Special
    <3>2. <<c>> \in Seq(C) /\ <<"backslash", c>> \in Seq(C)
      BY <2>1, <3>1
    <3> QED BY <1>3, <3>2 DEF EscapeOf
  <2>4. ReadText(s, t, shell) = r
    BY <1>5
  <2>5. ReadText(s, t \o u, shell) = ReadText(r, u, shell)
    <3> HIDE DEF s, r, t, u, w, P, S
    <3>1. ReadText(s, Joined(t, u), shell) = ReadText(ReadText(s, t, shell), u, shell)
      BY <1>2, <2>3, ReadTextConcat
    <3> QED BY <2>4, <3>1 DEF Joined
  <2>6. ReadText(r, u, shell) = At("value", n, Append(w, c), e)
    <3>1. CASE c \in Special
      <4> DEFINE q == At("escape", n, w, e)
      <4>1. ReadText(r, <<"backslash", c>>, shell) = Read(Read(r, "backslash", shell), c, shell)
        <5>1. "backslash" \in C
          BY DEF Special
        <5> DEFINE b == "backslash"
        <5>2. b \in C /\ c \in C /\ r \in Readings(C)
          BY <2>1, <2>3, <5>1
        <5> HIDE DEF r, b
        <5>3. ReadText(r, <<b, c>>, shell) = Read(Read(r, b, shell), c, shell)
          BY <5>2, ReadTwo
        <5> QED BY <5>3 DEF b
      <4>2. Read(r, "backslash", shell) = q
        BY ReadMarks
      <4>3. Read(q, c, shell) = At("value", n, Append(w, c), e)
        BY <2>1, <3>1, ReadCharacter
      <4> QED BY <3>1, <4>1, <4>2, <4>3 DEF EscapeOf
    <3>2. CASE c \notin Special
      <4>1. ReadText(r, <<c>>, shell) = Read(r, c, shell)
        <5> HIDE DEF r
        <5> QED BY <2>1, <2>3, ReadOne
      <4>2. Read(r, c, shell) = At("value", n, Append(w, c), e)
        BY <2>1, <3>2, ReadCharacter
      <4> QED BY <3>2, <4>1, <4>2 DEF EscapeOf
    <3> QED BY <3>1, <3>2
  <2>7. Append(w, c) = start \o Append(v, c)
    <3>1. Append(v, c) = v \o <<c>>
      BY <2>1, AppendIsConcat
    <3>2. Append(w, c) = w \o <<c>>
      <4> HIDE DEF w
      <4> QED BY <2>1, <2>3, AppendIsConcat
    <3>3. <<c>> \in Seq(C)
      BY <2>1
    <3> QED BY <2>1, <3>1, <3>2, <3>3, ConcatAssociative
  <2> QED BY <2>1, <2>2, <2>5, <2>6, <2>7
<1>6. value \in S
  <2> HIDE DEF S, P
  <2> QED BY <1>4, <1>5, SequenceInduction DEF P
<1> QED BY <1>6

-----------------------------------------------------------------------------
(* The line of a variable gives it its value.                              *)
LineOf(n, value) == <<n, "=", "quote">> \o Escape(value) \o <<"quote", "newline">>

Marks == {"=", "newline"}

(* Three characters.                                                       *)
LEMMA ReadThree ==
    ASSUME NEW C, Special \subseteq C, NEW s \in Readings(C), NEW shell,
           NEW c \in C, NEW d \in C, NEW f \in C
    PROVE  ReadText(s, <<c, d, f>>, shell) = Read(Read(Read(s, c, shell), d, shell), f, shell)
<1> DEFINE two == <<c, d>>
<1>1. two \in Seq(C)
  OBVIOUS
<1>2. ReadText(s, two, shell) = Read(Read(s, c, shell), d, shell)
  BY ReadTwo
<1>3. ReadText(s, Append(two, f), shell) = Read(ReadText(s, two, shell), f, shell)
  <2> HIDE DEF two
  <2> QED BY <1>1, ReadTextAppend
<1>4. Append(two, f) = <<c, d, f>>
  <2> DEFINE three == <<c, d, f>>
  <2>1. three \in Seq(C) /\ Len(three) = 3 /\ Len(two) = 2
    OBVIOUS
  <2>2. Append(two, f) \in Seq(C) /\ Len(Append(two, f)) = 3
    BY <1>1, <2>1, AppendProperties
  <2>3. two[1] = c /\ two[2] = d /\ three[1] = c /\ three[2] = d /\ three[3] = f
    OBVIOUS
  <2> HIDE DEF two, three
  <2>4. Append(two, f)[1] = two[1] /\ Append(two, f)[2] = two[2] /\ Append(two, f)[3] = f
    <3>1. Append(two, f)[Len(two) + 1] = f
      BY <1>1, AppendProperties
    <3>2. Len(two) + 1 = 3 /\ 1 \in 1..Len(two) /\ 2 \in 1..Len(two)
      BY <2>1
    <3> QED BY <1>1, <3>1, <3>2, AppendProperties
  <2>5. \A i \in 1..3 : i = 1 \/ i = 2 \/ i = 3
    OBVIOUS
  <2>6. \A i \in 1..Len(three) : Append(two, f)[i] = three[i]
    BY <2>1, <2>3, <2>4, <2>5
  <2>7. Append(two, f) = three
    BY <2>1, <2>2, <2>6, SeqEqual
  <2> QED BY <2>7 DEF three
<1> QED BY <1>2, <1>3, <1>4

(* Texts that are joined are a text,                                       *)
LEMMA JoinedIn ==
    ASSUME NEW C, NEW t \in Seq(C), NEW u \in Seq(C), NEW w \in Seq(C)
    PROVE  Joined(t, u) \in Seq(C) /\ Joined(Joined(t, u), w) \in Seq(C)
BY ConcatProperties DEF Joined

(* which is read part by part.                                             *)
LEMMA ReadJoined ==
    ASSUME NEW C, Special \subseteq C, NEW shell, NEW s \in Readings(C), NEW r \in Readings(C),
           NEW q \in Readings(C), NEW t \in Seq(C), NEW u \in Seq(C), NEW w \in Seq(C),
           ReadText(s, t, shell) = r, ReadText(r, u, shell) = q
    PROVE  ReadText(s, Joined(Joined(t, u), w), shell) = ReadText(q, w, shell)
<1> DEFINE tu == Joined(t, u)
<1>1. tu \in Seq(C)
  BY JoinedIn
<1>2. ReadText(s, tu, shell) = q
  BY ReadTextConcat
<1>3. ReadText(s, Joined(tu, w), shell) = ReadText(ReadText(s, tu, shell), w, shell)
  <2> HIDE DEF tu
  <2> QED BY <1>1, ReadTextConcat
<1> QED BY <1>2, <1>3

(* A line is read as the assignment it was written for.                    *)
LEMMA LineRead ==
    ASSUME NEW C, Special \subseteq C, Marks \subseteq C, NEW shell, NEW n \in C,
           NEW env \in Envs(C),
           NEW value \in Seq(Plain(C))
    PROVE  /\ LineOf(n, value) \in Seq(C)
           /\ ReadText(Reading(env), LineOf(n, value), shell) = Reading(Assign(env, n, value))
<1> DEFINE front == <<n, "=", "quote">>
           mid   == Escape(value)
           back  == <<"quote", "newline">>
           s     == Reading(env)
           r     == At("value", n, <<>>, env)
           q     == At("value", n, value, env)
<1>1. "quote" \in C /\ <<>> \in Seq(C) /\ value \in Seq(C)
      /\ "=" \in C /\ "newline" \in C
  <2>1. Seq(Plain(C)) \subseteq Seq(C)
    <3>1. Plain(C) \subseteq C
      BY DEF Plain
    <3> QED BY <3>1, SeqMonotonic
  <2>2. "quote" \in C /\ "=" \in C /\ "newline" \in C
    BY DEF Special, Marks
  <2> QED BY <2>1, <2>2
<1>2. front \in Seq(C) /\ back \in Seq(C) /\ mid \in Seq(C)
  <2>1. mid \in Seq(C)
    BY <1>1, EscapeFacts
  <2>2. front \in Seq(C)
    BY <1>1
  <2>3. back \in Seq(C)
    BY <1>1
  <2> QED BY <2>1, <2>2, <2>3
<1>3. s = At("line", "", <<>>, env) /\ s \in Readings(C) /\ r \in Readings(C) /\ q \in Readings(C)
  <2>1. s = At("line", "", <<>>, env)
    BY DEF Reading, At
  <2>2. At("line", "", <<>>, env) \in Readings(C)
    BY <1>1 DEF Phases, At, Readings
  <2>3. r \in Readings(C) /\ q \in Readings(C)
    BY <1>1 DEF Phases, At, Readings
  <2> QED BY <2>1, <2>2, <2>3
<1>4. ReadText(s, front, shell) = r
  <2>1. ReadText(s, <<n, "=", "quote">>, shell)
            = Read(Read(Read(s, n, shell), "=", shell), "quote", shell)
    <3> DEFINE a == "="
               b == "quote"
    <3>1. a \in C /\ b \in C
      BY <1>1
    <3>2. s \in Readings(C)
      BY <1>3
    <3> HIDE DEF s, r, q, a, b, front, mid, back
    <3>3. ReadText(s, <<n, a, b>>, shell) = Read(Read(Read(s, n, shell), a, shell), b, shell)
      BY <3>1, <3>2, ReadThree
    <3> QED BY <3>3 DEF a, b
  <2>2. Read(s, n, shell) = At("name", n, <<>>, env)
    <3>1. Read(At("line", "", <<>>, env), n, shell) = At("name", n, <<>>, env)
      BY DEF Read, At
    <3> HIDE DEF s
    <3> QED BY <1>3, <3>1
  <2>3. Read(At("name", n, <<>>, env), "=", shell) = At("equals", n, <<>>, env)
    BY ReadMarks
  <2>4. Read(At("equals", n, <<>>, env), "quote", shell) = r
    BY ReadMarks
  <2> QED BY <2>1, <2>2, <2>3, <2>4
<1>5. ReadText(r, mid, shell) = q
  <2> DEFINE none == <<>>
  <2>1. none \in Seq(C)
    OBVIOUS
  <2>4. none \o value = value
    BY <1>1, ConcatEmptySeq
  <2>2. \A v \in Seq(C) : At("value", n, v, env) \in Readings(C)
    BY DEF Phases, At, Readings
  <2> HIDE DEF none, s, r, q, front, mid, back
  <2>3. ReadText(At("value", n, none, env), Escape(value), shell)
            = At("value", n, none \o value, env)
    BY <2>1, <2>2, ValueRead
  <2> QED BY <2>3, <2>4 DEF none, r, q, mid
<1>6. ReadText(q, back, shell) = Reading(Assign(env, n, value))
  <2>1. ReadText(q, back, shell) = Read(Read(q, "quote", shell), "newline", shell)
    <3> DEFINE a == "quote"
               b == "newline"
    <3>1. a \in C /\ b \in C
      BY <1>1
    <3>2. q \in Readings(C)
      BY <1>3
    <3> HIDE DEF q, a, b
    <3>3. ReadText(q, <<a, b>>, shell) = Read(Read(q, a, shell), b, shell)
      BY <3>1, <3>2, ReadTwo
    <3> QED BY <3>3 DEF a, b
  <2>2. Read(q, "quote", shell) = At("quoted", n, value, env)
    BY ReadMarks
  <2>3. Read(At("quoted", n, value, env), "newline", shell) = Reading(Assign(env, n, value))
    BY ReadMarks
  <2> QED BY <2>1, <2>2, <2>3
<1>7. LineOf(n, value) = Joined(Joined(front, mid), back)
  BY DEF LineOf, Joined
<1>8. s \in Readings(C) /\ r \in Readings(C) /\ q \in Readings(C)
  BY <1>3
<1> HIDE DEF s, r, q, front, mid, back
<1>9. ReadText(s, Joined(Joined(front, mid), back), shell) = ReadText(q, back, shell)
  BY <1>2, <1>4, <1>5, <1>8, ReadJoined
<1>10. Joined(Joined(front, mid), back) \in Seq(C)
  BY <1>2, JoinedIn
<1> QED BY <1>6, <1>7, <1>9, <1>10 DEF s

(* The environment of no variable is the empty sequence.                   *)
LEMMA EmptyFunction ==
    ASSUME NEW f
    PROVE  [n \in {} |-> f[n]] = <<>>
OBVIOUS

KnownOf(env, ns) == [n \in Range(ns) |-> env[n]]

(* One more variable is known after its line.                              *)
LEMMA AssignOne ==
    ASSUME NEW N, NEW M, NEW env \in [N -> M], NEW ns \in Seq(N), NEW n \in N
    PROVE  Assign(KnownOf(env, ns), n, env[n]) = KnownOf(env, Append(ns, n))
<1>1. Range(Append(ns, n)) = Range(ns) \cup {n}
  <2> DEFINE t == Append(ns, n)
             l == Len(ns)
  <2>1. /\ l \in Nat /\ DOMAIN ns = 1..l /\ DOMAIN t = 1..(l + 1)
        /\ t[l + 1] = n /\ \A i \in 1..l : t[i] = ns[i]
    BY LenProperties, AppendProperties
  <2>2. 1..(l + 1) = (1..l) \cup {l + 1}
    BY <2>1
  <2> HIDE DEF t, l
  <2> QED BY <2>1, <2>2 DEF Range
<1> QED BY <1>1 DEF Assign, KnownOf

(* The text of some variables of an environment gives each of them its     *)
(* value, to either reader.                                                *)
ReadsBack(names, env, shell) ==
    ReadText(Reading(<<>>), RenderEnvironmentFiles(names, env).text, shell)
        = Reading(KnownOf(env, names))

\* Every value consists of characters that a file can hold.
WritableEnv(C, N, env) ==
    /\ Special \subseteq C /\ Marks \subseteq C /\ N \subseteq C
    /\ env \in [N -> Seq(Plain(C))]

(* Line after line, by induction over the variables.                       *)
LEMMA LinesRead ==
    ASSUME NEW C, NEW shell, NEW N, NEW env, WritableEnv(C, N, env), NEW names \in Seq(N)
    PROVE  ReadsBack(names, env, shell)
<1> Special \subseteq C /\ Marks \subseteq C /\ N \subseteq C /\ env \in [N -> Seq(Plain(C))]
  BY DEF WritableEnv
<1>0. ASSUME NEW n \in C, NEW v \in Seq(Plain(C)), NEW e \in Envs(C)
      PROVE  ReadText(Reading(e), LineOf(n, v), shell) = Reading(Assign(e, n, v))
  BY LineRead
<1> DEFINE m == [n \in N |-> LineOf(n, env[n])]
           Known(ns) == [n \in Range(ns) |-> env[n]]
           Text(ns) == FlattenSeq(Mapped(m, ns))
           start == Reading(<<>>)
           S == {ns \in Seq(N) : ReadText(start, Text(ns), shell) = Reading(Known(ns))}
<1>1. ASSUME NEW n \in N
      PROVE  n \in C /\ env[n] \in Seq(Plain(C))
  OBVIOUS
<1>2. <<>> \in Envs(C)
  <2>1. <<>> \in [{} -> Seq(C)]
    OBVIOUS
  <2>2. {} \in SUBSET (C \cup {""})
    OBVIOUS
  <2> QED BY <2>1, <2>2 DEF Envs
<1>3. ASSUME NEW n \in N
      PROVE  LineOf(n, env[n]) \in Seq(C)
  <2> DEFINE v == env[n]
             e == <<>>
  <2>1. n \in C /\ v \in Seq(Plain(C)) /\ e \in Envs(C)
    BY <1>1, <1>2
  <2> HIDE DEF v, e
  <2>2. LineOf(n, v) \in Seq(C)
    BY <2>1, LineRead
  <2> QED BY <2>2 DEF v
<1>4. m \in [N -> Seq(C)]
  BY <1>3
<1>5. ASSUME NEW ns \in Seq(N)
      PROVE  Known(ns) \in Envs(C)
  <2>1. Range(ns) \subseteq N
    BY LenProperties, ElementOfSeq DEF Range
  <2>2. Seq(Plain(C)) \subseteq Seq(C)
    <3>1. Plain(C) \subseteq C
      BY DEF Plain
    <3> QED BY <3>1, SeqMonotonic
  <2>3. Known(ns) \in [Range(ns) -> Seq(C)]
    BY <1>1, <2>1, <2>2
  <2>4. Range(ns) \in SUBSET (C \cup {""})
    BY <2>1
  <2> QED BY <2>3, <2>4 DEF Envs
<1>6. ASSUME NEW e \in Envs(C)
      PROVE  Reading(e) \in Readings(C)
  <2>1. <<>> \in Seq(C)
    OBVIOUS
  <2> QED BY <2>1 DEF Reading, Readings, Phases
<1>7. start \in Readings(C)
  <2> DEFINE e == <<>>
  <2>1. e \in Envs(C)
    BY <1>2
  <2> HIDE DEF e
  <2>2. Reading(e) \in Readings(C)
    BY <1>6, <2>1
  <2> QED BY <2>2 DEF e
<1>8. <<>> \in S
  <2>1. Text(<<>>) = <<>>
    <3>1. Mapped(m, <<>>) = <<>>
      BY DEF Mapped
    <3> QED BY <3>1, FlattenAppend, Zenon
  <2>2. ReadText(start, <<>>, shell) = start
    <3> HIDE DEF start
    <3> QED BY <1>7, ReadNothing
  <2>3. Known(<<>>) = <<>>
    <3>1. Range(<<>>) = {}
      BY DEF Range
    <3> QED BY <3>1, EmptyFunction
  <2> QED BY <2>1, <2>2, <2>3, EmptySeq
<1>9. ASSUME NEW ns \in Seq(N), NEW n \in N, ns \in S
      PROVE  Append(ns, n) \in S
  <2> DEFINE t == Text(ns)
             u == LineOf(n, env[n])
             k == Known(ns)
  <2>1. Mapped(m, ns) \in Seq(Seq(C))
    <3> DEFINE D == Seq(C)
    <3>1. m \in [N -> D]
      BY <1>4
    <3> HIDE DEF m, D
    <3>2. Mapped(m, ns) \in Seq(D)
      BY <3>1, MappedFacts
    <3> QED BY <3>2 DEF D
  <2>2. t \in Seq(C) /\ u \in Seq(C) /\ k \in Envs(C)
    <3>1. t \in Seq(C)
      <4> HIDE DEF m
      <4> QED BY <2>1, FlattenAppend
    <3> QED BY <1>3, <1>5, <3>1
  <2>3. Text(Append(ns, n)) = Joined(t, u)
    <3> DEFINE D == Seq(C)
               ms == Mapped(m, ns)
    <3>1. m \in [N -> D] /\ ms \in Seq(D) /\ m[n] = u
      BY <1>4, <2>1
    <3>2. Mapped(m, Append(ns, n)) = Append(ms, m[n])
      <4>1. m \in [N -> D]
        BY <3>1
      <4> HIDE DEF m, D
      <4> QED BY <4>1, MappedAppend
    <3>3. FlattenSeq(Append(ms, u)) = FlattenSeq(ms) \o u
      <4>1. ms \in Seq(Seq(C)) /\ u \in Seq(C)
        BY <2>1, <2>2
      <4> HIDE DEF ms, u
      <4> QED BY <4>1, FlattenAppend
    <3> HIDE DEF m, u, D
    <3> QED BY <3>1, <3>2, <3>3 DEF Joined
  <2>4. ReadText(start, Joined(t, u), shell) = ReadText(ReadText(start, t, shell), u, shell)
    <3> HIDE DEF start, t, u, S, m
    <3> QED BY <1>7, <2>2, ReadTextConcat, SMTT(60)
  <2>5. ReadText(start, t, shell) = Reading(k)
    BY <1>9
  <2>6. ReadText(Reading(k), u, shell) = Reading(Assign(k, n, env[n]))
    <3> DEFINE v == env[n]
    <3>1. n \in C /\ v \in Seq(Plain(C)) /\ k \in Envs(C)
      BY <1>1, <2>2
    <3> HIDE DEF v, k, m, t, u, start, S
    <3>2. ReadText(Reading(k), LineOf(n, v), shell) = Reading(Assign(k, n, v))
      BY <1>0, <3>1
    <3> QED BY <3>2 DEF v, u
  <2>7. Assign(k, n, env[n]) = Known(Append(ns, n))
    <3> DEFINE v == env[n]
               M == Seq(Plain(C))
    <3>1. env \in [N -> M]
      OBVIOUS
    <3> HIDE DEF v, M, m, t, u, start, S
    <3>2. Assign(KnownOf(env, ns), n, env[n]) = KnownOf(env, Append(ns, n))
      BY <3>1, AssignOne
    <3> QED BY <3>2 DEF KnownOf
  <2>8. Append(ns, n) \in Seq(N)
    BY AppendProperties
  <2> HIDE DEF start, t, u, k, m, Known
  <2> QED BY <2>3, <2>4, <2>5, <2>6, <2>7, <2>8
<1>10. names \in S
  <2> HIDE DEF S
  <2> QED BY <1>8, <1>9, SequenceInduction
<1>11. RenderEnvironmentFiles(names, env).text = Text(names)
  <2>1. \A i \in DOMAIN names : names[i] \in N
    OBVIOUS
  <2>2. Mapped(m, names) = [i \in DOMAIN names |->
            <<names[i], "=", "quote">> \o Escape(env[names[i]]) \o <<"quote", "newline">>]
    BY <2>1, Zenon DEF Mapped, LineOf
  <2> HIDE DEF m
  <2> QED BY <2>2 DEF RenderEnvironmentFiles
<1> QED BY <1>10, <1>11 DEF ReadsBack, KnownOf

(* A finite set is the range of its sequence, which has each element once. *)
LEMMA SetToSeqRange ==
    ASSUME NEW N, IsFiniteSet(N)
    PROVE  /\ SetToSeq(N) \in Seq(N) /\ Range(SetToSeq(N)) = N
           /\ IsInjective(SetToSeq(N))
<1> DEFINE k == Cardinality(N)
           f == SetToSeq(N)
           R == Range(f)
<1>1. k \in Nat /\ ExistsBijection(1..k, N)
  BY FS_CardinalityType
<1>2. f \in [1..k -> N] /\ IsInjective(f)
  <2>1. \E g \in [1..k -> N] : IsInjective(g)
    BY <1>1 DEF ExistsBijection, Bijection, Injection
  <2> QED BY <2>1, Zenon DEF SetToSeq
<1> HIDE DEF f, k
<1>3. R \subseteq N /\ f \in [1..k -> R] /\ \A r \in R : \E i \in 1..k : f[i] = r
  BY <1>2 DEF Range
<1>4. f \in Bijection(1..k, R)
  BY <1>2, <1>3 DEF Bijection, Injection, Surjection
<1>5. Cardinality(R) = k
  <2> HIDE DEF R
  <2> QED BY <1>1, <1>4, FS_CountingElements DEF ExistsBijection
<1>6. R = N
  <2> HIDE DEF R
  <2> QED BY <1>3, <1>5, FS_Subset DEF k
<1> QED BY <1>1, <1>2, <1>6 DEF f

(* Both readers of the written environment get every variable with its     *)
(* value: for every finite set of variables and for values of any length   *)
(* over any characters, in whatever order the lines are written            *)
(* (nixos/environment.go).                                                 *)
THEOREM EnvironmentsKept ==
    ASSUME NEW Text, NEW N \in SUBSET Text, NEW env \in [N -> Seq(Text)],
           NEW names \in Seq(N), Range(names) = N
    PROVE  EnvironmentSurvives(names, env)
<1> DEFINE C == Text \cup Special \cup Marks
           files == RenderEnvironmentFiles(names, env)
<1>1. SUFFICES ASSUME files.ok, NEW shell
               PROVE  ReadText(Reading(<<>>), files.text, shell) = Reading(env)
  BY DEF EnvironmentSurvives
<1>2. Special \subseteq C /\ Marks \subseteq C /\ N \subseteq C
  OBVIOUS
<1>3. ASSUME NEW n \in N
      PROVE  env[n] \in Seq(Plain(C))
  <2>1. PICK i \in DOMAIN names : names[i] = n
    BY DEF Range
  <2>2. NewEnvValue(env[n])
    BY <1>1, <2>1 DEF RenderEnvironmentFiles
  <2> DEFINE v == env[n]
  <2>3. v \in Seq(Text)
    OBVIOUS
  <2>4. DOMAIN v = 1..Len(v) /\ Len(v) \in Nat /\ \A j \in 1..Len(v) : v[j] \in Text
    <3> HIDE DEF v
    <3> QED BY <2>3, LenProperties, ElementOfSeq
  <2>5. \A j \in 1..Len(v) : v[j] \in Plain(C)
    BY <2>2, <2>4 DEF NewEnvValue, Plain
  <2> DEFINE Z == Plain(C)
             l == Len(v)
  <2> HIDE DEF v, Z, C
  <2>6. v = [j \in 1..l |-> v[j]]
    BY <2>3
  <2> HIDE DEF l
  <2>7. v \in [1..l -> Z]
    BY <2>5, <2>6 DEF Z, l
  <2>8. v \in Seq(Z)
    BY <2>4, <2>7, FunctionIsSeq DEF l
  <2> QED BY <2>8 DEF v, Z
<1>4. env \in [N -> Seq(Plain(C))]
  <2> HIDE DEF C
  <2> QED BY <1>3
<1>5. ReadsBack(names, env, shell)
  <2> HIDE DEF C
  <2>1. WritableEnv(C, N, env)
    BY <1>2, <1>4 DEF WritableEnv
  <2> HIDE DEF C
  <2> QED BY <2>1, LinesRead
<1>6. KnownOf(env, names) = env
  BY DEF KnownOf
<1> QED BY <1>5, <1>6 DEF ReadsBack

(* ValuesSurvive holds of every input.                                     *)
THEOREM ValuesAlwaysSurvive ==
    ASSUME NEW Text, input \in AmountsToWrite \cup EnvironmentsToWrite(Text)
    PROVE  ValuesSurvive
<1>1. CASE input \in AmountsToWrite
  BY <1>1, SizesSurvive DEF ValuesSurvive, AmountsToWrite
<1>2. CASE input \in EnvironmentsToWrite(Text)
  <2> DEFINE env == input.env
             N == DOMAIN env
             names == SetToSeq(N)
  <2>1. /\ input.rule = "environment" /\ IsFiniteSet(N)
        /\ env \in UNION {[M -> Seq(Text)] : M \in SUBSET Text}
    BY <1>2 DEF EnvironmentsToWrite
  <2>2. N \in SUBSET Text /\ env \in [N -> Seq(Text)]
    BY <2>1
  <2>3. names \in Seq(N) /\ Range(names) = N
    <3> HIDE DEF N
    <3> QED BY <2>1, SetToSeqRange
  <2>4. EnvironmentSurvives(names, env)
    <3> HIDE DEF N, env, names
    <3> QED BY <2>2, <2>3, EnvironmentsKept
  <2> QED BY <2>1, <2>4 DEF ValuesSurvive
<1> QED BY <1>1, <1>2

-----------------------------------------------------------------------------
(* Host paths. The names are any set; a path without links is canonical.   *)

Places(Name) == [state : {"walking", "link", "failed"}, at : Seq(Name), rest : Seq(Name)]

(* No name in it is a link or stands for another place.                    *)
Canonical(fs, path) ==
    \A n \in 1..Len(path) :
        /\ path[n] \notin {"", ".", ".."}
        /\ Lstat(fs, SubSeq(path, 1, n)).kind \notin {"link", "error"}

(* The root is canonical.                                                  *)
LEMMA RootCanonical ==
    ASSUME NEW fs
    PROVE  Canonical(fs, <<>>)
<1>1. 1..Len(<<>>) = {}
  OBVIOUS
<1> QED BY <1>1, Zenon DEF Canonical

(* Where a path without its last name is,                                  *)
LEMMA ParentIn ==
    ASSUME NEW Name, NEW path \in Seq(Name)
    PROVE  Parent(path) \in Seq(Name)
<1>1. CASE path = <<>>
  BY <1>1 DEF Parent
<1>2. CASE path # <<>>
  <2> DEFINE l == Len(path) - 1
  <2>1. l \in Nat /\ Len(path) = l + 1 /\ \A i \in 1..(l + 1) : path[i] \in Name
    BY <1>2, EmptySeq, LenProperties, ElementOfSeq
  <2>2. \A i \in 1..l : path[i] \in Name
    BY <2>1
  <2> HIDE DEF l
  <2>3. SubSeq(path, 1, l) \in Seq(Name)
    BY <2>2, <2>1, SubSeqProperties
  <2> QED BY <2>3, <1>2, Zenon DEF Parent, Front, l
<1> QED BY <1>1, <1>2

(* and which names it has.                                                 *)
LEMMA ParentFacts ==
    ASSUME NEW Name, NEW path \in Seq(Name), path # <<>>
    PROVE  /\ Len(Parent(path)) \in Nat /\ Len(path) = Len(Parent(path)) + 1
           /\ \A i \in 1..Len(Parent(path)) : Parent(path)[i] = path[i]
           /\ Parent(path) = SubSeq(path, 1, Len(path) - 1)
<1> DEFINE l == Len(path) - 1
<1>1. l \in Nat /\ Len(path) = l + 1 /\ \A i \in 1..(l + 1) : path[i] \in Name
  BY EmptySeq, LenProperties, ElementOfSeq
<1>2. \A i \in 1..l : path[i] \in Name
  BY <1>1
<1>3. Parent(path) = SubSeq(path, 1, l)
  BY DEF Parent, Front
<1> HIDE DEF l
<1>4. /\ Len(SubSeq(path, 1, l)) = IF 1 <= l THEN l - 1 + 1 ELSE 0
      /\ \A i \in 1..(l - 1 + 1) : SubSeq(path, 1, l)[i] = path[1 + i - 1]
  BY <1>1, <1>2, SubSeqProperties
<1> HIDE DEF Parent
<1>5. Len(Parent(path)) = l
  BY <1>1, <1>3, <1>4
<1>6. \A i \in 1..l : Parent(path)[i] = path[i]
  BY <1>1, <1>3, <1>4
<1> QED BY <1>1, <1>3, <1>5, <1>6 DEF l

(* A prefix of a prefix is one.                                            *)
LEMMA PrefixFacts ==
    ASSUME NEW Name, NEW path \in Seq(Name), NEW m \in 0..Len(path)
    PROVE  /\ SubSeq(path, 1, m) \in Seq(Name) /\ Len(SubSeq(path, 1, m)) = m
           /\ \A n \in 1..m : SubSeq(path, 1, m)[n] = path[n]
           /\ \A n \in 0..m : SubSeq(SubSeq(path, 1, m), 1, n) = SubSeq(path, 1, n)
<1>1. Len(path) \in Nat /\ m \in Nat /\ m <= Len(path)
      /\ \A i \in 1..Len(path) : path[i] \in Name
  BY LenProperties, ElementOfSeq
<1>2. ASSUME NEW k \in 0..Len(path)
      PROVE  /\ SubSeq(path, 1, k) \in Seq(Name) /\ Len(SubSeq(path, 1, k)) = k
             /\ \A n \in 1..k : SubSeq(path, 1, k)[n] = path[n]
  <2>1. k \in Nat /\ \A i \in 1..k : path[i] \in Name
    BY <1>1
  <2>2. /\ SubSeq(path, 1, k) \in Seq(Name)
        /\ Len(SubSeq(path, 1, k)) = IF 1 <= k THEN k - 1 + 1 ELSE 0
        /\ \A i \in 1..(k - 1 + 1) : SubSeq(path, 1, k)[i] = path[1 + i - 1]
    BY <2>1, SubSeqProperties
  <2> DEFINE p == SubSeq(path, 1, k)
  <2> HIDE DEF p
  <2>3. p \in Seq(Name) /\ Len(p) = k /\ \A n \in 1..k : p[n] = path[n]
    BY <2>1, <2>2 DEF p
  <2> QED BY <2>3 DEF p
<1>3. ASSUME NEW n \in 0..m
      PROVE  SubSeq(SubSeq(path, 1, m), 1, n) = SubSeq(path, 1, n)
  <2> DEFINE p == SubSeq(path, 1, m)
             q == SubSeq(path, 1, n)
             r == SubSeq(p, 1, n)
  <2>1. n \in 0..Len(path) /\ n \in Nat /\ n <= m
    BY <1>1
  <2>2. p \in Seq(Name) /\ Len(p) = m /\ \A i \in 1..m : p[i] = path[i]
    BY <1>2
  <2>3. q \in Seq(Name) /\ Len(q) = n /\ \A i \in 1..n : q[i] = path[i]
    BY <1>2, <2>1
  <2>4. r \in Seq(Name) /\ Len(r) = n /\ \A i \in 1..n : r[i] = p[i]
    <3> HIDE DEF p, q
    <3>1. \A i \in 1..n : p[i] \in Name
      BY <2>1, <2>2, <1>1
    <3>2. /\ r \in Seq(Name)
          /\ Len(r) = IF 1 <= n THEN n - 1 + 1 ELSE 0
          /\ \A i \in 1..(n - 1 + 1) : r[i] = p[1 + i - 1]
      BY <2>1, <2>2, <3>1, SubSeqProperties
    <3> HIDE DEF r
    <3> QED BY <2>1, <3>2
  <2> HIDE DEF p, q, r
  <2>5. \A i \in 1..n : r[i] = q[i]
    BY <1>1, <2>1, <2>2, <2>3, <2>4
  <2>6. r = q
    BY <2>3, <2>4, <2>5, SeqEqual
  <2> QED BY <2>6 DEF p, q, r
<1>4. m \in 0..Len(path)
  OBVIOUS
<1> QED BY <1>2, <1>3, <1>4

(* The ancestors of a path with one more name are those of the path, and   *)
(* the path.                                                               *)
LEMMA CanonicalAppend ==
    ASSUME NEW Name, NEW fs, NEW path \in Seq(Name), NEW c \in Name
    PROVE  Canonical(fs, Append(path, c)) <=>
              /\ Canonical(fs, path) /\ c \notin {"", ".", ".."}
              /\ Lstat(fs, Append(path, c)).kind \notin {"link", "error"}
<1> DEFINE q == Append(path, c)
           l == Len(path)
<1>1. q \in Seq(Name) /\ Len(q) = l + 1 /\ l \in Nat /\ q[l + 1] = c
      /\ \A n \in 1..l : q[n] = path[n]
  BY AppendProperties, LenProperties
<1>2. SubSeq(q, 1, l + 1) = q
  <2>1. l + 1 \in 0..Len(q)
    BY <1>1
  <2> DEFINE r == SubSeq(q, 1, l + 1)
  <2> HIDE DEF q
  <2>2. r \in Seq(Name) /\ Len(r) = l + 1 /\ \A n \in 1..(l + 1) : r[n] = q[n]
    BY <1>1, <2>1, PrefixFacts
  <2> HIDE DEF r, l
  <2>3. r = q
    BY <1>1, <2>2, SeqEqual
  <2> QED BY <2>3 DEF r
<1>3. SubSeq(q, 1, l) = path
  <2>1. l \in 0..Len(q)
    BY <1>1
  <2> DEFINE r == SubSeq(q, 1, l)
  <2> HIDE DEF q
  <2>2. r \in Seq(Name) /\ Len(r) = l /\ \A n \in 1..l : r[n] = q[n]
    BY <1>1, <2>1, PrefixFacts
  <2>3. Len(path) = l /\ path \in Seq(Name)
    OBVIOUS
  <2> HIDE DEF r, l
  <2>5. \A n \in 1..l : r[n] = path[n]
    BY <1>1, <2>2
  <2>4. r = path
    BY <1>1, <2>2, <2>3, <2>5, SeqEqual
  <2> QED BY <2>4 DEF r
<1>4. \A n \in 1..l : SubSeq(path, 1, n) = SubSeq(q, 1, n)
  <2>1. l \in 0..Len(q)
    BY <1>1
  <2> HIDE DEF q
  <2>2. \A n \in 0..l : SubSeq(SubSeq(q, 1, l), 1, n) = SubSeq(q, 1, n)
    BY <1>1, <2>1, PrefixFacts
  <2> HIDE DEF l
  <2>3. \A n \in 1..l : n \in 0..l
    BY <1>1
  <2> QED BY <1>3, <2>2, <2>3
<1> DEFINE P(n) == Lstat(fs, SubSeq(q, 1, n)).kind \notin {"link", "error"}
<1>5. P(l + 1) <=> Lstat(fs, q).kind \notin {"link", "error"}
  <2> HIDE DEF q, l
  <2> QED BY <1>2
<1>6. Canonical(fs, path) <=> \A n \in 1..l : q[n] \notin {"", ".", ".."} /\ P(n)
  <2>1. Canonical(fs, path) <=>
            \A n \in 1..l : path[n] \notin {"", ".", ".."}
                            /\ Lstat(fs, SubSeq(path, 1, n)).kind \notin {"link", "error"}
    BY Zenon DEF Canonical
  <2> HIDE DEF q, l
  <2> QED BY <1>1, <1>4, <2>1
<1>7. Canonical(fs, q) <=> \A n \in 1..(l + 1) : q[n] \notin {"", ".", ".."} /\ P(n)
  <2>1. Canonical(fs, q) <=> \A n \in 1..Len(q) : q[n] \notin {"", ".", ".."} /\ P(n)
    BY Zenon DEF Canonical
  <2> HIDE DEF q, l, P
  <2> QED BY <1>1, <2>1
<1>8. \A n \in 1..(l + 1) : n \in 1..l \/ n = l + 1
  BY <1>1
<1>9. \A n \in 1..l : n \in 1..(l + 1)
  BY <1>1
<1>10. l + 1 \in 1..(l + 1)
  BY <1>1
<1>11. q[l + 1] = c
  BY <1>1
<1> HIDE DEF q, l, P
<1> QED BY <1>5, <1>6, <1>7, <1>8, <1>9, <1>10, <1>11 DEF q

(* The directories on the way to a canonical path are canonical.           *)
LEMMA CanonicalPrefix ==
    ASSUME NEW Name, NEW fs, NEW path \in Seq(Name), NEW m \in 0..Len(path),
           Canonical(fs, path)
    PROVE  Canonical(fs, SubSeq(path, 1, m))
<1> DEFINE p == SubSeq(path, 1, m)
<1>1. /\ p \in Seq(Name) /\ Len(p) = m
      /\ \A n \in 1..m : p[n] = path[n]
      /\ \A n \in 0..m : SubSeq(p, 1, n) = SubSeq(path, 1, n)
  BY PrefixFacts
<1>2. Len(path) \in Nat /\ \A n \in 1..m : n \in 0..m /\ n \in 1..Len(path)
  BY LenProperties
<1> HIDE DEF p
<1>3. Canonical(fs, p)
  BY <1>1, <1>2 DEF Canonical
<1> QED BY <1>3 DEF p

(* So is the directory it is in.                                           *)
LEMMA CanonicalParent ==
    ASSUME NEW Name, NEW fs, NEW path \in Seq(Name), Canonical(fs, path)
    PROVE  Canonical(fs, Parent(path))
<1>1. CASE path = <<>>
  BY <1>1 DEF Parent
<1>2. CASE path # <<>>
  <2>1. Parent(path) = SubSeq(path, 1, Len(path) - 1) /\ Len(path) - 1 \in 0..Len(path)
    BY <1>2, ParentFacts, LenProperties
  <2> QED BY <2>1, CanonicalPrefix
<1> QED BY <1>1, <1>2

(* Under every name is a node, and lstat finds one or fails.               *)
LEMMA LstatFacts ==
    ASSUME NEW Name, NEW fs \in FileSystemsOver(Name), NEW path \in Seq(Name)
    PROVE  /\ Lstat(fs, path) \in NodesOver(Name) \cup {[kind |-> "error"]}
           /\ Lstat(fs, path).kind = "link" =>
                /\ Lstat(fs, path).from \in {"root", "here"}
                /\ Lstat(fs, path).comps \in Seq(Name)
           /\ Lstat(fs, path).kind = "missing" => Lstat(fs, path) = Missing
           /\ Lstat(fs, path).kind = "directory" => Lstat(fs, path) = Directory
           /\ Lstat(fs, path).kind = "file" => Lstat(fs, path) = File
           /\ Lstat(fs, path).kind \in {"missing", "directory", "file", "link", "error"}
<1>1. NodeAt(fs, path) \in NodesOver(Name)
  <2>1. PICK S \in SUBSET Seq(Name) : fs \in [S -> NodesOver(Name)]
    BY DEF FileSystemsOver
  <2>2. Missing \in NodesOver(Name) /\ Directory \in NodesOver(Name)
    BY DEF NodesOver
  <2>3. path \in DOMAIN fs => fs[path] \in NodesOver(Name)
    <3> DEFINE N == NodesOver(Name)
    <3> HIDE DEF N
    <3> QED BY <2>1 DEF N
  <2> DEFINE N == NodesOver(Name)
             empty == <<>>
  <2> HIDE DEF N, empty
  <2>4. NodeAt(fs, path) = Directory \/ NodeAt(fs, path) = Missing
        \/ (path \in DOMAIN fs /\ NodeAt(fs, path) = fs[path])
    BY DEF NodeAt
  <2> QED BY <2>2, <2>3, <2>4 DEF N
<1>2. Lstat(fs, path) \in NodesOver(Name) \cup {[kind |-> "error"]}
  <2>1. Missing \in NodesOver(Name)
    BY DEF NodesOver
  <2> DEFINE N == NodesOver(Name)
             A == Ancestors(path)
             e == [kind |-> "error"]
  <2>2. Lstat(fs, path) \in {e, NodeAt(fs, path), Missing}
    <3> HIDE DEF A, e
    <3> QED BY Zenon DEF Lstat, A, e
  <2> HIDE DEF N, e
  <2> QED BY <1>1, <2>1, <2>2 DEF e, N
<1> DEFINE n == Lstat(fs, path)
<1> HIDE DEF n
<1>3. n \in {[kind |-> "missing"], [kind |-> "directory"], [kind |-> "file"], [kind |-> "error"]}
      \/ n \in [kind : {"link"}, from : {"root", "here"}, comps : Seq(Name)]
  BY <1>2 DEF NodesOver, Missing, Directory, File, n
<1>4. /\ n.kind = "link" => n.from \in {"root", "here"} /\ n.comps \in Seq(Name)
      /\ n.kind = "missing" => n = Missing
      /\ n.kind = "directory" => n = Directory
      /\ n.kind = "file" => n = File
      /\ n.kind \in {"missing", "directory", "file", "link", "error"}
  BY <1>3 DEF Missing, Directory, File
<1> QED BY <1>2, <1>4 DEF n

(* A place that is walked to is one, and so are those a walk stops at.     *)
LEMMA PlaceFacts ==
    ASSUME NEW Name, NEW fs \in FileSystemsOver(Name), NEW at \in Seq(Name), NEW c \in Name,
           NEW s \in Places(Name)
    PROVE  /\ Walking(at) \in Places(Name) /\ Walking(at).state = "walking"
           /\ Walking(at).at = at /\ Walking(at).rest = <<>>
           /\ Fail(s) \in Places(Name) /\ Fail(s).state = "failed" /\ Fail(s).at = s.at
           /\ Leave(s, c) \in Places(Name) /\ Leave(s, c).state = "link"
           /\ Leave(s, c).at = s.at
           /\ s.at \in Seq(Name) /\ s.rest \in Seq(Name)
           /\ s.state \in {"walking", "link", "failed"}
           /\ Append(s.at, c) \in Seq(Name) /\ Parent(s.at) \in Seq(Name)
<1>1. /\ s = [state |-> s.state, at |-> s.at, rest |-> s.rest]
      /\ s.at \in Seq(Name) /\ s.rest \in Seq(Name) /\ s.state \in {"walking", "link", "failed"}
  BY DEF Places
<1>2. Append(s.at, c) \in Seq(Name) /\ Append(s.rest, c) \in Seq(Name)
  BY <1>1, AppendProperties
<1>3. Parent(s.at) \in Seq(Name)
  BY <1>1, ParentIn
<1>4. <<>> \in Seq(Name)
  OBVIOUS
<1> DEFINE Q == Seq(Name)
<1> HIDE DEF Q
<1>6. Walking(at) \in Places(Name) /\ Walking(at).state = "walking"
      /\ Walking(at).at = at /\ Walking(at).rest = <<>>
  BY <1>4 DEF Walking, Places
<1>7. Fail(s) \in Places(Name) /\ Fail(s).state = "failed" /\ Fail(s).at = s.at
  BY <1>1 DEF Fail, Places
<1>8. Leave(s, c) \in Places(Name) /\ Leave(s, c).state = "link" /\ Leave(s, c).at = s.at
  BY <1>1, <1>2 DEF Leave, Places
<1> QED BY <1>1, <1>2, <1>3, <1>6, <1>7, <1>8

(* It stops at a place, in a directory that has been walked to.            *)
LEMMA StopFacts ==
    ASSUME NEW Name, NEW s \in Places(Name), NEW node,
           node.kind = "link" => node.from \in {"root", "here"} /\ node.comps \in Seq(Name),
           node.kind = "link"
    PROVE  /\ Stop(s, node) \in Places(Name) /\ Stop(s, node).state = "link"
           /\ Stop(s, node).at \in {<<>>, s.at}
<1>1. s.at \in Seq(Name)
  BY DEF Places
<1>2. <<>> \in Seq(Name) /\ node.comps \in Seq(Name)
  OBVIOUS
<1> QED BY <1>1, <1>2 DEF Stop, Places

(* What a step of either walk does.                                        *)
LEMMA EnterFacts ==
    ASSUME NEW Name, NEW fs \in FileSystemsOver(Name), NEW s \in Places(Name), NEW c \in Name
    PROVE  /\ Enter(fs, s, c) \in Places(Name)
           /\ KernelEnter(fs, s, c) \in Places(Name)
           /\ Canonical(fs, s.at) => Canonical(fs, Enter(fs, s, c).at)
           /\ KernelEnter(fs, s, c).state # "failed" =>
                s.state # "failed" /\ KernelEnter(fs, s, c) = Enter(fs, s, c)
<1> DEFINE next == Append(s.at, c)
           node == Lstat(fs, next)
           more == Leave(s, c)
           up == Walking(Parent(s.at))
           on == Walking(next)
           stop == Stop(s, node)
           fail == Fail(s)
           named == c \notin {"", ".", ".."}
           stays == c \in {"", "."}
           goes == s.state = "walking" /\ Lstat(fs, s.at) = Directory
<1>1. /\ s.at \in Seq(Name) /\ next \in Seq(Name) /\ Parent(s.at) \in Seq(Name)
      /\ s.state \in {"walking", "link", "failed"}
      /\ more \in Places(Name) /\ more.state = "link" /\ more.at = s.at
      /\ fail \in Places(Name) /\ fail.state = "failed" /\ fail.at = s.at
  <2>1. s.at \in Seq(Name)
    BY DEF Places
  <2> QED BY <2>1, PlaceFacts
<1>2. up \in Places(Name) /\ up.state = "walking" /\ up.at = Parent(s.at)
  <2> DEFINE p == Parent(s.at)
  <2>1. p \in Seq(Name)
    BY <1>1
  <2> HIDE DEF p
  <2>2. Walking(p) \in Places(Name) /\ Walking(p).state = "walking" /\ Walking(p).at = p
    <3>1. <<>> \in Seq(Name)
      OBVIOUS
    <3> QED BY <2>1, <3>1 DEF Walking, Places
  <2> QED BY <2>2 DEF p
<1>3. on \in Places(Name) /\ on.state = "walking" /\ on.at = next
  <2> HIDE DEF next
  <2> QED BY <1>1, PlaceFacts
<1>4. /\ node.kind = "link" => node.from \in {"root", "here"} /\ node.comps \in Seq(Name)
      /\ node.kind \in {"missing", "directory", "file", "link", "error"}
  <2> HIDE DEF next
  <2> QED BY <1>1, LstatFacts
<1>5. node.kind = "link" =>
        /\ stop \in Places(Name) /\ stop.state = "link" /\ stop.at \in {<<>>, s.at}
  <2> HIDE DEF node
  <2> QED BY <1>4, StopFacts
<1> DEFINE e == Enter(fs, s, c)
           k == KernelEnter(fs, s, c)
<1>6. /\ s.state = "failed" => e = s
      /\ s.state = "link" => e = more
      /\ s.state = "walking" /\ stays => e = s
      /\ s.state = "walking" /\ c = ".." => e = up
      /\ s.state = "walking" /\ named /\ node.kind = "error" => e = fail
      /\ s.state = "walking" /\ named /\ node.kind = "link" => e = stop
      /\ s.state = "walking" /\ named /\ node.kind \notin {"error", "link"} => e = on
  <2> HIDE DEF more, up, on, stop, fail, node
  <2> QED BY <1>1 DEF Enter, more, up, on, stop, fail, node
<1>7. /\ s.state = "link" => k = more
      /\ goes /\ stays => k = s
      /\ goes /\ c = ".." => k = up
      /\ goes /\ named /\ node.kind = "link" => k = stop
      /\ goes /\ named /\ node.kind \in {"directory", "file"} => k = on
      /\ s.state # "link" /\ ~(goes /\ stays) /\ ~(goes /\ c = "..")
            /\ ~(goes /\ named /\ node.kind = "link")
            /\ ~(goes /\ named /\ node.kind \in {"directory", "file"}) => k = fail
  <2> HIDE DEF more, up, on, stop, fail, node
  <2> QED BY <1>1 DEF KernelEnter, more, up, on, stop, fail, node
<1>8. Canonical(fs, s.at) =>
        /\ Canonical(fs, Parent(s.at)) /\ Canonical(fs, <<>>)
        /\ named /\ node.kind \notin {"link", "error"} => Canonical(fs, next)
  <2>1. Canonical(fs, <<>>)
    BY RootCanonical
  <2>2. Canonical(fs, s.at) => Canonical(fs, Parent(s.at))
    BY <1>1, CanonicalParent
  <2>3. Canonical(fs, next) <=> Canonical(fs, s.at) /\ named /\ node.kind \notin {"link", "error"}
    BY <1>1, CanonicalAppend
  <2> QED BY <2>1, <2>2, <2>3
<1> HIDE DEF more, up, on, stop, fail, node, next, e, k
<1>9. stays \/ c = ".." \/ named
  OBVIOUS
<1> DEFINE root == <<>>
<1> HIDE DEF root
<1>10. node.kind = "link" => stop.at = root \/ stop.at = s.at
  BY <1>5 DEF root
<1>11. Canonical(fs, s.at) => Canonical(fs, root)
  BY <1>8 DEF root
<1>12. e \in Places(Name) /\ (Canonical(fs, s.at) => Canonical(fs, e.at))
  BY <1>1, <1>2, <1>3, <1>4, <1>5, <1>6, <1>8, <1>9, <1>10, <1>11
<1>13. k \in Places(Name)
  BY <1>1, <1>2, <1>3, <1>5, <1>7
<1>14. k.state # "failed" => s.state # "failed" /\ k = e
  BY <1>1, <1>4, <1>6, <1>7
<1> QED BY <1>12, <1>13, <1>14 DEF e, k

Enters(Name, fs, kernel) == [p \in Places(Name) \X Name |-> Goes(fs, p[1], p[2], kernel)]

(* A step of either walk leads to a place.                                 *)
LEMMA GoesIn ==
    ASSUME NEW Name, NEW fs \in FileSystemsOver(Name), NEW s \in Places(Name), NEW c \in Name,
           NEW kernel
    PROVE  Goes(fs, s, c, kernel) \in Places(Name)
BY EnterFacts DEF Goes

(* A scan takes one step after the other.                                  *)
LEMMA ScanRuns ==
    ASSUME NEW Name, NEW fs \in FileSystemsOver(Name), NEW start \in Places(Name),
           NEW comps \in Seq(Name), NEW kernel
    PROVE  \E g : /\ IsRun(g, Enters(Name, fs, kernel), start, comps)
                  /\ Scan(fs, start, comps, kernel) = g[Len(comps)]
                  /\ Scan(fs, start, comps, kernel) \in Places(Name)
<1> DEFINE D == Places(Name)
           step == Enters(Name, fs, kernel)
           l == Len(comps)
<1>1. step \in [D \X Name -> D]
  BY GoesIn DEF Enters
<1>2. PICK f \in [0..l -> D] : IsRun(f, step, start, comps)
  <2> HIDE DEF D, step
  <2> QED BY <1>1, RunExists DEF D
<1>3. l \in Nat /\ l \in 0..l /\ \A n \in 1..l : comps[n] \in Name /\ n - 1 \in 0..l
  BY LenProperties, ElementOfSeq
<1>4. ASSUME NEW n \in 1..l
      PROVE  f[n] = Goes(fs, f[n - 1], comps[n], kernel)
  <2>1. f[n] = step[<<f[n - 1], comps[n]>>]
    BY <1>2 DEF IsRun
  <2>2. <<f[n - 1], comps[n]>> \in D \X Name
    <3> HIDE DEF D
    <3> QED BY <1>2, <1>3
  <2> HIDE DEF D
  <2> QED BY <2>1, <2>2 DEF Enters, D
<1> DEFINE F(h) == [n \in 0..l |->
                        IF n = 0 THEN start ELSE Goes(fs, h[n - 1], comps[n], kernel)]
           Is(h) == h = F(h)
<1>5. f[0] = start
  BY <1>2 DEF IsRun
<1>6. Is(f)
  <2>1. ASSUME NEW n \in 0..l
        PROVE  f[n] = F(f)[n]
    <3>1. n # 0 => n \in 1..l
      BY <1>3
    <3> QED BY <1>4, <1>5, <3>1
  <2> QED BY <1>2, <2>1
<1>7. ASSUME NEW h, Is(h)
      PROVE  h = f
  <2> DEFINE S == {n \in Nat : n \in 0..l => h[n] = f[n]}
  <2>0. \A n \in 0..l : h[n] = IF n = 0 THEN start ELSE Goes(fs, h[n - 1], comps[n], kernel)
    BY <1>7
  <2>1. 0 \in S
    BY <1>3, <1>5, <2>0
  <2>2. ASSUME NEW n \in 1..l, n - 1 \in S
        PROVE  n \in S
    <3>1. n \in 0..l /\ n # 0 /\ n \in Nat
      BY <1>3
    <3>2. h[n - 1] = f[n - 1]
      BY <1>3, <2>2
    <3>3. h[n] = Goes(fs, h[n - 1], comps[n], kernel)
      BY <2>0, <3>1
    <3> QED BY <1>4, <3>1, <3>2, <3>3
  <2>3. \A n \in 0..l : n \in S
    <3> HIDE DEF S
    <3> QED BY <1>3, <2>1, <2>2, InductionTo
  <2>4. DOMAIN h = 0..l
    BY <1>7
  <2>5. \A n \in 0..l : h[n] = f[n]
    BY <2>3
  <2>6. h = [n \in 0..l |-> h[n]]
    BY <1>7
  <2> QED BY <1>2, <2>4, <2>5, <2>6
<1>8. Scan(fs, start, comps, kernel) = f[l]
  <2>1. (CHOOSE h : Is(h)) = f
    <3>1. Is(CHOOSE h : Is(h))
      BY <1>6, Zenon
    <3> HIDE DEF Is
    <3> QED BY <3>1, <1>7
  <2> QED BY <2>1, Zenon DEF Scan
<1>9. f[l] \in D
  <2> HIDE DEF D
  <2> QED BY <1>2, <1>3
<1> QED BY <1>2, <1>8, <1>9

(* It ends in a place.                                                     *)
LEMMA ScanIn ==
    ASSUME NEW Name, NEW fs \in FileSystemsOver(Name), NEW start \in Places(Name),
           NEW comps \in Seq(Name), NEW kernel
    PROVE  Scan(fs, start, comps, kernel) \in Places(Name)
BY ScanRuns

(* Without components, it stays.                                           *)
LEMMA ScanNothing ==
    ASSUME NEW Name, NEW fs \in FileSystemsOver(Name), NEW start \in Places(Name), NEW kernel
    PROVE  Scan(fs, start, <<>>, kernel) = start
<1> DEFINE step == Enters(Name, fs, kernel)
           none == <<>>
<1>1. none \in Seq(Name) /\ Len(none) = 0
  BY EmptySeq
<1>2. PICK g : /\ IsRun(g, step, start, none)
               /\ Scan(fs, start, none, kernel) = g[Len(none)]
  <2>1. none \in Seq(Name)
    BY <1>1
  <2> HIDE DEF none
  <2> QED BY <2>1, ScanRuns
<1>3. g[0] = start
  BY <1>2, Zenon DEF IsRun
<1>4. g[Len(none)] = g[0]
  BY <1>1
<1> QED BY <1>2, <1>3, <1>4, Zenon

(* With one more, it takes one more step.                                  *)
LEMMA ScanAppend ==
    ASSUME NEW Name, NEW fs \in FileSystemsOver(Name), NEW start \in Places(Name), NEW kernel,
           NEW comps \in Seq(Name), NEW c \in Name
    PROVE  Scan(fs, start, Append(comps, c), kernel)
               = Goes(fs, Scan(fs, start, comps, kernel), c, kernel)
<1> DEFINE D == Places(Name)
           step == Enters(Name, fs, kernel)
           t == Append(comps, c)
<1>1. PICK f : /\ IsRun(f, step, start, comps)
               /\ Scan(fs, start, comps, kernel) = f[Len(comps)] /\ f[Len(comps)] \in D
  BY ScanRuns
<1>2. t \in Seq(Name)
  BY AppendProperties
<1>3. PICK g : IsRun(g, step, start, t) /\ Scan(fs, start, t, kernel) = g[Len(t)]
  <2> HIDE DEF t
  <2> QED BY <1>2, ScanRuns
<1>4. g[Len(t)] = step[<<f[Len(comps)], c>>]
  <2> HIDE DEF step
  <2> QED BY <1>1, <1>3, RunAppend
<1>5. step[<<f[Len(comps)], c>>] = Goes(fs, f[Len(comps)], c, kernel)
  <2>1. <<f[Len(comps)], c>> \in D \X Name
    BY <1>1
  <2> QED BY <2>1 DEF Enters
<1> QED BY <1>1, <1>3, <1>4, <1>5

(* Two sequences of components are scanned one after the other.            *)
LEMMA ScanConcat ==
    ASSUME NEW Name, NEW fs \in FileSystemsOver(Name), NEW start \in Places(Name), NEW kernel,
           NEW t \in Seq(Name), NEW u \in Seq(Name)
    PROVE  Scan(fs, start, Joined(t, u), kernel)
               = Scan(fs, Scan(fs, start, t, kernel), u, kernel)
<1> DEFINE mid == Scan(fs, start, t, kernel)
           S == {s \in Seq(Name) : Scan(fs, start, t \o s, kernel) = Scan(fs, mid, s, kernel)}
<1>1. mid \in Places(Name)
  BY ScanIn
<1> HIDE DEF mid
<1>2. <<>> \in S
  <2>1. t \o <<>> = t
    BY ConcatEmptySeq
  <2> QED BY <1>1, <2>1, ScanNothing, EmptySeq DEF mid
<1>3. ASSUME NEW s \in Seq(Name), NEW c \in Name, s \in S
      PROVE  Append(s, c) \in S
  <2>1. t \o Append(s, c) = Append(t \o s, c)
    <3>1. Append(s, c) = s \o <<c>> /\ Append(t \o s, c) = (t \o s) \o <<c>>
      BY AppendIsConcat, ConcatProperties
    <3> QED BY <3>1, ConcatAssociative
  <2>2. t \o s \in Seq(Name) /\ Append(s, c) \in Seq(Name)
    BY ConcatProperties, AppendProperties
  <2> DEFINE ts == t \o s
  <2> HIDE DEF ts
  <2>3. Scan(fs, start, Append(ts, c), kernel) = Goes(fs, Scan(fs, start, ts, kernel), c, kernel)
    <3>1. ts \in Seq(Name)
      BY <2>2 DEF ts
    <3> QED BY <3>1, ScanAppend
  <2>4. Scan(fs, mid, Append(s, c), kernel) = Goes(fs, Scan(fs, mid, s, kernel), c, kernel)
    BY <1>1, ScanAppend
  <2> QED BY <1>3, <2>1, <2>2, <2>3, <2>4 DEF ts
<1>4. u \in S
  <2> HIDE DEF S
  <2> QED BY <1>2, <1>3, SequenceInduction
<1> QED BY <1>4 DEF Joined, mid

(* A link leads to a place.                                                *)
LEMMA FollowIn ==
    ASSUME NEW Name, NEW fs \in FileSystemsOver(Name), NEW s \in Places(Name), NEW kernel
    PROVE  Follow(fs, s, kernel) \in Places(Name)
<1>1. s.at \in Seq(Name) /\ s.rest \in Seq(Name)
  BY DEF Places
<1>2. <<>> \in Seq(Name) /\ s.at \o s.rest \in Seq(Name)
  BY <1>1, ConcatProperties
<1> DEFINE root == <<>>
           all == s.at \o s.rest
<1> HIDE DEF root, all
<1>3. root \in Seq(Name) /\ all \in Seq(Name)
  BY <1>2 DEF root, all
<1>4. Walking(s.at) \in Places(Name) /\ Walking(root) \in Places(Name)
  BY <1>1, <1>3 DEF Walking, Places
<1>5. Scan(fs, Walking(s.at), s.rest, kernel) \in Places(Name)
  BY <1>1, <1>4, ScanIn
<1>6. Scan(fs, Walking(root), all, kernel) \in Places(Name)
  BY <1>3, <1>4, ScanIn
<1>7. \/ s.state # "link" /\ Follow(fs, s, kernel) = s
      \/ s.state = "link" /\ kernel /\ Follow(fs, s, kernel) = Scan(fs, Walking(s.at), s.rest, kernel)
      \/ s.state = "link" /\ ~kernel /\ Follow(fs, s, kernel) = Scan(fs, Walking(root), all, kernel)
  BY Zenon DEF Follow, root, all
<1> QED BY <1>5, <1>6, <1>7

(* What follows the links of a path.                                       *)
Follows(f, fs, at, comps, kernel) ==
    /\ f[0] = Scan(fs, Walking(at), comps, kernel)
    /\ \A n \in 1..MaxLinks : f[n] = Follow(fs, f[n - 1], kernel)
    /\ Walk(fs, at, comps, kernel) = Arrived(f[MaxLinks])

(* A walk scans the path, follows the link at which that ends, and so on.  *)
LEMMA WalkRuns ==
    ASSUME NEW Name, NEW fs \in FileSystemsOver(Name), NEW at \in Seq(Name),
           NEW comps \in Seq(Name), NEW kernel
    PROVE  \E f \in [0..MaxLinks -> Places(Name)] : Follows(f, fs, at, comps, kernel)
<1> DEFINE D == Places(Name)
           l == MaxLinks
           start == Scan(fs, Walking(at), comps, kernel)
           step == [p \in D \X {0} |-> Follow(fs, p[1], kernel)]
           text == [n \in 1..l |-> 0]
<1>1. l \in Nat /\ l \in 0..l /\ \A n \in 1..l : n - 1 \in 0..l
  BY DEF MaxLinks
<1>2. text \in Seq({0}) /\ Len(text) = l
  <2> HIDE DEF l
  <2> QED BY <1>1
<1>3. start \in D
  <2>1. Walking(at) \in Places(Name)
    BY DEF Walking, Places
  <2> QED BY <2>1, ScanIn
<1>4. step \in [D \X {0} -> D]
  BY FollowIn
<1>5. PICK f \in [0..Len(text) -> D] : IsRun(f, step, start, text)
  <2> HIDE DEF D, step, start, text
  <2> QED BY <1>2, <1>3, <1>4, RunExists
<1>6. f \in [0..l -> D] /\ f[0] = start
  <2> HIDE DEF D, l, text, start
  <2> QED BY <1>2, <1>5 DEF IsRun
<1>7. ASSUME NEW n \in 1..l
      PROVE  f[n] = Follow(fs, f[n - 1], kernel)
  <2>1. f[n] = step[<<f[n - 1], text[n]>>] /\ text[n] = 0
    <3>1. n \in 1..Len(text)
      <4> HIDE DEF text
      <4> QED BY <1>2
    <3> HIDE DEF step, l
    <3> QED BY <1>5, <3>1 DEF IsRun
  <2>2. <<f[n - 1], 0>> \in D \X {0}
    <3> HIDE DEF D
    <3> QED BY <1>1, <1>6
  <2> HIDE DEF D
  <2> QED BY <2>1, <2>2
<1> DEFINE F(h) == [n \in 0..l |-> IF n = 0 THEN start ELSE Follow(fs, h[n - 1], kernel)]
           Is(h) == h = F(h)
<1>8. Is(f)
  <2>1. ASSUME NEW n \in 0..l
        PROVE  f[n] = F(f)[n]
    <3>1. n # 0 => n \in 1..l
      BY <1>1
    <3> HIDE DEF l, start
    <3> QED BY <1>6, <1>7, <3>1
  <2> HIDE DEF l
  <2> QED BY <1>6, <2>1
<1>9. ASSUME NEW h, Is(h)
      PROVE  h = f
  <2> DEFINE S == {n \in Nat : n \in 0..l => h[n] = f[n]}
  <2> HIDE DEF l, start
  <2>0. \A n \in 0..l : h[n] = IF n = 0 THEN start ELSE Follow(fs, h[n - 1], kernel)
    BY <1>9
  <2>1. 0 \in S
    BY <1>1, <1>6, <2>0
  <2>2. ASSUME NEW n \in 1..l, n - 1 \in S
        PROVE  n \in S
    <3>1. n \in 0..l /\ n # 0 /\ n \in Nat
      BY <1>1
    <3>2. h[n - 1] = f[n - 1]
      BY <1>1, <2>2
    <3>3. h[n] = Follow(fs, h[n - 1], kernel)
      BY <2>0, <3>1
    <3> QED BY <1>7, <3>1, <3>2, <3>3
  <2>3. \A n \in 0..l : n \in S
    <3> HIDE DEF S
    <3> QED BY <1>1, <2>1, <2>2, InductionTo
  <2>4. DOMAIN h = 0..l
    BY <1>9
  <2>5. \A n \in 0..l : h[n] = f[n]
    BY <2>3
  <2>6. h = [n \in 0..l |-> h[n]]
    BY <1>9
  <2> QED BY <1>6, <2>4, <2>5, <2>6
<1>10. Walk(fs, at, comps, kernel) = Arrived(f[l])
  <2>1. (CHOOSE h : Is(h)) = f
    <3>1. Is(CHOOSE h : Is(h))
      BY <1>8, Zenon
    <3> HIDE DEF Is
    <3> QED BY <3>1, <1>9
  <2> QED BY <2>1, Zenon DEF Walk
<1> HIDE DEF D
<1>11. Follows(f, fs, at, comps, kernel)
  BY <1>6, <1>7, <1>10 DEF Follows
<1> QED BY <1>6, <1>11 DEF D

-----------------------------------------------------------------------------
(* A scan that starts at a canonical path ends at one.                     *)
LEMMA ScanCanonical ==
    ASSUME NEW Name, NEW fs \in FileSystemsOver(Name), NEW start \in Places(Name),
           NEW comps \in Seq(Name), Canonical(fs, start.at)
    PROVE  Canonical(fs, Scan(fs, start, comps, FALSE).at)
<1> DEFINE S == {s \in Seq(Name) : Canonical(fs, Scan(fs, start, s, FALSE).at)}
<1>1. <<>> \in S
  <2>1. Scan(fs, start, <<>>, FALSE) = start
    BY ScanNothing
  <2> QED BY <2>1, EmptySeq
<1>2. ASSUME NEW s \in Seq(Name), NEW c \in Name, s \in S
      PROVE  Append(s, c) \in S
  <2> DEFINE m == Scan(fs, start, s, FALSE)
  <2>1. m \in Places(Name) /\ Canonical(fs, m.at)
    BY <1>2, ScanIn
  <2>2. Scan(fs, start, Append(s, c), FALSE) = Goes(fs, m, c, FALSE)
    BY ScanAppend
  <2> HIDE DEF m
  <2>3. Canonical(fs, Enter(fs, m, c).at)
    BY <2>1, EnterFacts
  <2>4. Goes(fs, m, c, FALSE) = Enter(fs, m, c)
    BY DEF Goes
  <2>5. Append(s, c) \in Seq(Name)
    BY AppendProperties
  <2> QED BY <2>2, <2>3, <2>4, <2>5
<1>3. comps \in S
  <2> HIDE DEF S
  <2> QED BY <1>1, <1>2, SequenceInduction
<1> QED BY <1>3

(* A canonical path is scanned as it is.                                   *)
LEMMA ScanSame ==
    ASSUME NEW Name, NEW fs \in FileSystemsOver(Name), NEW path \in Seq(Name),
           Canonical(fs, path)
    PROVE  Scan(fs, Walking(<<>>), path, FALSE) = Walking(path)
<1> DEFINE root == <<>>
           start == Walking(root)
           S == {s \in Seq(Name) : Canonical(fs, s) => Scan(fs, start, s, FALSE) = Walking(s)}
<1>0. start \in Places(Name)
  <2>1. root \in Seq(Name)
    BY EmptySeq
  <2> HIDE DEF root
  <2> QED BY <2>1, EmptySeq DEF Walking, Places
<1>1. root \in S
  <2>1. Scan(fs, start, <<>>, FALSE) = start
    <3> HIDE DEF start
    <3> QED BY <1>0, ScanNothing
  <2> QED BY <2>1, EmptySeq
<1>2. ASSUME NEW s \in Seq(Name), NEW c \in Name, s \in S
      PROVE  Append(s, c) \in S
  <2> HIDE DEF start
  <2> DEFINE next == Append(s, c)
  <2>1. next \in Seq(Name)
    BY AppendProperties
  <2>2. Canonical(fs, next) <=>
            /\ Canonical(fs, s) /\ c \notin {"", ".", ".."}
            /\ Lstat(fs, next).kind \notin {"link", "error"}
    BY CanonicalAppend
  <2>3. Scan(fs, start, next, FALSE) = Goes(fs, Scan(fs, start, s, FALSE), c, FALSE)
    BY <1>0, ScanAppend
  <2>4. Goes(fs, Walking(s), c, FALSE) = Enter(fs, Walking(s), c)
    BY DEF Goes
  <2>5. Walking(s).state = "walking" /\ Walking(s).at = s
    BY DEF Walking
  <2>6. c \notin {"", ".", ".."} /\ Lstat(fs, next).kind \notin {"link", "error"}
            => Enter(fs, Walking(s), c) = Walking(next)
    <3> DEFINE w == Walking(s)
               on == Walking(next)
               stop == Stop(w, Lstat(fs, next))
    <3> HIDE DEF w, on, stop
    <3>1. w.state = "walking" /\ w.at = s
      BY <2>5 DEF w
    <3> QED BY <3>1 DEF Enter, on, stop, w
  <2> HIDE DEF next
  <2>7. Canonical(fs, next) => Scan(fs, start, next, FALSE) = Walking(next)
    BY <1>2, <2>2, <2>3, <2>4, <2>6
  <2> QED BY <2>1, <2>7 DEF next
<1>3. path \in S
  <2> HIDE DEF S
  <2>1. <<>> \in S
    BY <1>1
  <2> QED BY <1>2, <2>1, SequenceInduction
<1> QED BY <1>3

(* What a kernel's scan finds, that of resolvePath finds as well.          *)
LEMMA ScanAgrees ==
    ASSUME NEW Name, NEW fs \in FileSystemsOver(Name), NEW start \in Places(Name),
           NEW comps \in Seq(Name), Scan(fs, start, comps, TRUE).state # "failed"
    PROVE  Scan(fs, start, comps, TRUE) = Scan(fs, start, comps, FALSE)
<1> DEFINE S == {s \in Seq(Name) : Scan(fs, start, s, TRUE).state # "failed" =>
                                    Scan(fs, start, s, TRUE) = Scan(fs, start, s, FALSE)}
<1>1. <<>> \in S
  <2>1. Scan(fs, start, <<>>, FALSE) = start /\ Scan(fs, start, <<>>, TRUE) = start
    BY ScanNothing
  <2> QED BY <2>1, EmptySeq
<1>2. ASSUME NEW s \in Seq(Name), NEW c \in Name, s \in S
      PROVE  Append(s, c) \in S
  <2> DEFINE m == Scan(fs, start, s, TRUE)
             n == Scan(fs, start, s, FALSE)
  <2>1. m \in Places(Name) /\ (m.state # "failed" => m = n)
    BY <1>2, ScanIn
  <2>2. /\ Scan(fs, start, Append(s, c), FALSE) = Goes(fs, n, c, FALSE)
        /\ Scan(fs, start, Append(s, c), TRUE) = Goes(fs, m, c, TRUE)
    <3>1. Scan(fs, start, Append(s, c), FALSE) = Goes(fs, n, c, FALSE)
      BY ScanAppend
    <3>2. Scan(fs, start, Append(s, c), TRUE) = Goes(fs, m, c, TRUE)
      BY ScanAppend
    <3> QED BY <3>1, <3>2
  <2> HIDE DEF m, n
  <2>3. KernelEnter(fs, m, c).state # "failed" =>
            m.state # "failed" /\ KernelEnter(fs, m, c) = Enter(fs, m, c)
    BY <2>1, EnterFacts
  <2>4. Goes(fs, n, c, FALSE) = Enter(fs, n, c) /\ Goes(fs, m, c, TRUE) = KernelEnter(fs, m, c)
    BY DEF Goes
  <2>5. Append(s, c) \in Seq(Name)
    BY AppendProperties
  <2> QED BY <2>1, <2>2, <2>3, <2>4, <2>5
<1>3. comps \in S
  <2> HIDE DEF S
  <2> QED BY <1>1, <1>2, SequenceInduction
<1> QED BY <1>3

(* The place a link is followed to is canonical.                           *)
LEMMA FollowCanonical ==
    ASSUME NEW Name, NEW fs \in FileSystemsOver(Name), NEW s \in Places(Name),
           Canonical(fs, s.at)
    PROVE  Canonical(fs, Follow(fs, s, FALSE).at)
<1> DEFINE root == <<>>
           all == s.at \o s.rest
<1>1. s.at \in Seq(Name) /\ s.rest \in Seq(Name)
  BY DEF Places
<1>2. root \in Seq(Name) /\ all \in Seq(Name)
  BY <1>1, EmptySeq, ConcatProperties
<1>3. Canonical(fs, root)
  BY RootCanonical
<1>4. Walking(root) \in Places(Name) /\ Walking(root).at = root
  BY EmptySeq, <1>2 DEF Walking, Places
<1> HIDE DEF root, all
<1>5. Canonical(fs, Scan(fs, Walking(root), all, FALSE).at)
  BY <1>2, <1>3, <1>4, ScanCanonical
<1>6. \/ s.state # "link" /\ Follow(fs, s, FALSE) = s
      \/ s.state = "link" /\ Follow(fs, s, FALSE) = Scan(fs, Walking(root), all, FALSE)
  BY Zenon DEF Follow, root, all
<1> QED BY <1>5, <1>6

(* What resolvePath returns is canonical,                                  *)
LEMMA ResolvedCanonical ==
    ASSUME NEW Name, NEW fs \in FileSystemsOver(Name), NEW comps \in Seq(Name),
           ResolvePath(fs, comps).ok
    PROVE  \E path \in Seq(Name) : Canonical(fs, path) /\ ResolvePath(fs, comps) = Ok(path)
<1> DEFINE root == <<>>
           D == Places(Name)
<1>1. root \in Seq(Name) /\ Walking(root) \in D /\ Walking(root).at = root
  BY EmptySeq DEF Walking, Places
<1>2. Canonical(fs, root)
  BY RootCanonical
<1> HIDE DEF root
<1>3. PICK f \in [0..MaxLinks -> Places(Name)] : Follows(f, fs, root, comps, FALSE)
  BY <1>1, WalkRuns
<1> DEFINE S == {n \in Nat : Canonical(fs, f[n].at)}
<1>4. 0 \in S
  <2>1. Canonical(fs, Scan(fs, Walking(root), comps, FALSE).at)
    BY <1>1, <1>2, ScanCanonical
  <2> QED BY <1>3, <2>1 DEF Follows
<1>5. MaxLinks \in Nat /\ MaxLinks \in 0..MaxLinks /\ \A n \in 1..MaxLinks : n - 1 \in 0..MaxLinks
  BY DEF MaxLinks
<1>6. ASSUME NEW n \in 1..MaxLinks, n - 1 \in S
      PROVE  n \in S
  <2>1. f[n] = Follow(fs, f[n - 1], FALSE)
    BY <1>3 DEF Follows
  <2>2. f[n - 1] \in Places(Name)
    BY <1>3, <1>5
  <2>3. Canonical(fs, Follow(fs, f[n - 1], FALSE).at)
    BY <1>6, <2>2, FollowCanonical
  <2> QED BY <2>1, <2>3, <1>5
<1>7. Canonical(fs, f[MaxLinks].at) /\ f[MaxLinks] \in Places(Name)
  <2>1. \A n \in 0..MaxLinks : n \in S
    <3> HIDE DEF S
    <3> QED BY <1>4, <1>5, <1>6, InductionTo
  <2> QED BY <1>3, <1>5, <2>1
<1>8. ResolvePath(fs, comps) = Arrived(f[MaxLinks])
  BY <1>3, Zenon DEF Follows, ResolvePath, root
<1> DEFINE end == f[MaxLinks]
<1> HIDE DEF end
<1>9. end.at \in Seq(Name)
  BY <1>7 DEF Places, end
<1>10. Arrived(end) = Ok(end.at) \/ ~Arrived(end).ok
  BY DEF Arrived, Ok, Failed
<1> QED BY <1>7, <1>8, <1>9, <1>10 DEF end

(* and resolves to itself.                                                 *)
LEMMA CanonicalResolved ==
    ASSUME NEW Name, NEW fs \in FileSystemsOver(Name), NEW path \in Seq(Name),
           Canonical(fs, path)
    PROVE  ResolvePath(fs, path) = Ok(path)
<1> DEFINE root == <<>>
<1>1. root \in Seq(Name)
  BY EmptySeq
<1>2. Scan(fs, Walking(root), path, FALSE) = Walking(path)
  BY ScanSame
<1> HIDE DEF root
<1>3. PICK f \in [0..MaxLinks -> Places(Name)] : Follows(f, fs, root, path, FALSE)
  BY <1>1, WalkRuns
<1>4. Walking(path).state = "walking" /\ Walking(path).at = path
  BY DEF Walking
<1> DEFINE S == {n \in Nat : f[n] = Walking(path)}
<1>5. 0 \in S
  BY <1>2, <1>3 DEF Follows
<1>6. MaxLinks \in Nat /\ MaxLinks \in 0..MaxLinks
  BY DEF MaxLinks
<1>7. ASSUME NEW n \in 1..MaxLinks, n - 1 \in S
      PROVE  n \in S
  <2>1. f[n] = Follow(fs, f[n - 1], FALSE)
    BY <1>3 DEF Follows
  <2>2. Follow(fs, Walking(path), FALSE) = Walking(path)
    <3> DEFINE w == Walking(path)
    <3> HIDE DEF w
    <3>1. w.state # "link"
      BY <1>4 DEF w
    <3>2. Follow(fs, w, FALSE) = w
      BY <3>1, Zenon DEF Follow
    <3> QED BY <3>2 DEF w
  <2> QED BY <1>7, <2>1, <2>2, <1>6
<1>8. f[MaxLinks] = Walking(path)
  <2>1. \A n \in 0..MaxLinks : n \in S
    <3> HIDE DEF S
    <3> QED BY <1>5, <1>6, <1>7, InductionTo
  <2> QED BY <1>6, <2>1
<1>9. ResolvePath(fs, path) = Arrived(f[MaxLinks])
  BY <1>3, Zenon DEF Follows, ResolvePath, root
<1> QED BY <1>4, <1>8, <1>9 DEF Arrived

(* Where a kernel finds a path from a canonical directory, resolvePath     *)
(* finds the path behind the directory.                                    *)
LEMMA WalkAgrees ==
    ASSUME NEW Name, NEW fs \in FileSystemsOver(Name), NEW at \in Seq(Name),
           NEW comps \in Seq(Name), Canonical(fs, at), KernelFrom(fs, at, comps).ok
    PROVE  ResolvePath(fs, Joined(at, comps)) = KernelFrom(fs, at, comps)
<1> DEFINE root == <<>>
           whole == Joined(at, comps)
<1>1. root \in Seq(Name) /\ whole \in Seq(Name)
  BY EmptySeq, ConcatProperties DEF Joined
<1>2. \A p \in Seq(Name) : Canonical(fs, p) => Scan(fs, Walking(root), p, FALSE) = Walking(p)
  BY ScanSame
<1>3. Walking(root) \in Places(Name) /\ \A p \in Seq(Name) : Walking(p) \in Places(Name)
  BY EmptySeq DEF Walking, Places
<1> HIDE DEF root, whole
<1>4. PICK k \in [0..MaxLinks -> Places(Name)] : Follows(k, fs, at, comps, TRUE)
  BY WalkRuns
<1>5. PICK r \in [0..MaxLinks -> Places(Name)] : Follows(r, fs, root, whole, FALSE)
  BY <1>1, WalkRuns
<1> DEFINE Same(n) == k[n].state # "failed" => k[n] = r[n] /\ Canonical(fs, r[n].at)
           S == {n \in Nat : Same(n)}
<1>6. ASSUME NEW p \in Seq(Name), NEW q \in Seq(Name), Canonical(fs, p),
             Scan(fs, Walking(p), q, TRUE).state # "failed"
      PROVE  /\ Scan(fs, Walking(p), q, TRUE) = Scan(fs, Walking(root), Joined(p, q), FALSE)
             /\ Canonical(fs, Scan(fs, Walking(root), Joined(p, q), FALSE).at)
  <2>1. Scan(fs, Walking(root), Joined(p, q), FALSE) = Scan(fs, Walking(p), q, FALSE)
    <3>1. Scan(fs, Walking(root), Joined(p, q), FALSE)
            = Scan(fs, Scan(fs, Walking(root), p, FALSE), q, FALSE)
      <4> DEFINE start == Walking(root)
                 kernel == FALSE
      <4> HIDE DEF start, kernel
      <4>1. start \in Places(Name)
        BY <1>3 DEF start
      <4>2. Scan(fs, start, Joined(p, q), kernel) = Scan(fs, Scan(fs, start, p, kernel), q, kernel)
        BY <4>1, ScanConcat
      <4> QED BY <4>2 DEF start, kernel
    <3>2. Scan(fs, Walking(root), p, FALSE) = Walking(p)
      BY <1>2, <1>6
    <3> QED BY <3>1, <3>2
  <2>2. Scan(fs, Walking(p), q, TRUE) = Scan(fs, Walking(p), q, FALSE)
    BY <1>3, <1>6, ScanAgrees
  <2>3. Walking(p).at = p
    BY DEF Walking
  <2>4. Canonical(fs, Scan(fs, Walking(p), q, FALSE).at)
    BY <1>3, <1>6, <2>3, ScanCanonical
  <2> QED BY <2>1, <2>2, <2>4
<1>7. 0 \in S
  <2>1. /\ k[0] = Scan(fs, Walking(at), comps, TRUE)
        /\ r[0] = Scan(fs, Walking(root), Joined(at, comps), FALSE)
    BY <1>4, <1>5 DEF Follows, whole
  <2> QED BY <1>6, <2>1
<1>8. MaxLinks \in Nat /\ MaxLinks \in 0..MaxLinks /\ \A n \in 1..MaxLinks : n - 1 \in 0..MaxLinks
  BY DEF MaxLinks
<1>9. ASSUME NEW n \in 1..MaxLinks, n - 1 \in S
      PROVE  n \in S
  <2> DEFINE a == k[n - 1]
             b == r[n - 1]
  <2>1. k[n] = Follow(fs, a, TRUE) /\ r[n] = Follow(fs, b, FALSE)
    BY <1>4, <1>5 DEF Follows
  <2>2. a \in Places(Name) /\ b \in Places(Name)
    BY <1>4, <1>5, <1>8
  <2>3. a.state # "failed" => a = b /\ Canonical(fs, b.at)
    BY <1>9
  <2>4. a.at \in Seq(Name) /\ a.rest \in Seq(Name)
    BY <2>2 DEF Places
  <2> HIDE DEF a, b
  <2>5. a.state # "link" => Follow(fs, a, TRUE) = a
    BY Zenon DEF Follow
  <2>6. a.state = "link" => Follow(fs, a, TRUE) = Scan(fs, Walking(a.at), a.rest, TRUE)
    BY Zenon DEF Follow
  <2>7. a.state # "link" => Follow(fs, a, FALSE) = a
    BY Zenon DEF Follow
  <2>8. a.state = "link" => Follow(fs, a, FALSE) = Scan(fs, Walking(root), Joined(a.at, a.rest), FALSE)
    BY Zenon DEF Follow, root, Joined
  <2>9. ASSUME k[n].state # "failed"
        PROVE  k[n] = r[n] /\ Canonical(fs, r[n].at)
    <3>1. a.state # "failed"
      <4>1. a.state = "failed" => a.state # "link"
        OBVIOUS
      <4> QED BY <2>1, <2>5, <2>9, <4>1
    <3>2. a = b /\ Canonical(fs, a.at)
      BY <2>3, <3>1
    <3>3. CASE a.state # "link"
      BY <2>1, <2>5, <2>7, <3>2, <3>3
    <3>4. CASE a.state = "link"
      <4>1. Scan(fs, Walking(a.at), a.rest, TRUE).state # "failed"
        BY <2>1, <2>6, <2>9, <3>4
      <4>2. /\ Scan(fs, Walking(a.at), a.rest, TRUE)
                    = Scan(fs, Walking(root), Joined(a.at, a.rest), FALSE)
            /\ Canonical(fs, Scan(fs, Walking(root), Joined(a.at, a.rest), FALSE).at)
        BY <1>6, <2>4, <3>2, <4>1
      <4> QED BY <2>1, <2>6, <2>8, <3>2, <3>4, <4>2
    <3> QED BY <3>3, <3>4
  <2> QED BY <2>9, <1>8
<1>10. k[MaxLinks].state # "failed" => k[MaxLinks] = r[MaxLinks]
  <2>1. \A n \in 0..MaxLinks : n \in S
    <3> HIDE DEF S
    <3> QED BY <1>7, <1>8, <1>9, InductionTo
  <2> QED BY <1>8, <2>1
<1>11. KernelFrom(fs, at, comps) = Arrived(k[MaxLinks])
  BY <1>4, Zenon DEF Follows, KernelFrom
<1>12. ResolvePath(fs, whole) = Arrived(r[MaxLinks])
  BY <1>5, Zenon DEF Follows, ResolvePath, root
<1>13. k[MaxLinks].state # "failed"
  BY <1>11 DEF Arrived, Failed
<1> QED BY <1>10, <1>11, <1>12, <1>13 DEF whole

(* The directories above a canonical path are directories or missing.      *)
LEMMA AncestorsChecked ==
    ASSUME NEW Name, NEW fs \in FileSystemsOver(Name), NEW path \in Seq(Name),
           Canonical(fs, path), NEW a \in Ancestors(path)
    PROVE  CheckDirectory(fs, a)
<1>1. PICK m \in 0..(Len(path) - 1) : a = SubSeq(path, 1, m)
  BY DEF Ancestors
<1>2. Len(path) \in Nat /\ m \in 0..Len(path) /\ m + 1 \in 1..Len(path) /\ m + 1 \in 0..Len(path)
  BY <1>1, LenProperties
<1>3. a \in Seq(Name) /\ Len(a) = m
  BY <1>1, <1>2, PrefixFacts
<1>4. CASE m = 0
  <2>1. a = <<>>
    BY <1>3, <1>4, EmptySeq
  <2>2. Ancestors(<<>>) = {}
    <3>1. 0..(Len(<<>>) - 1) = {}
      OBVIOUS
    <3> QED BY <3>1 DEF Ancestors
  <2>3. NodeAt(fs, <<>>) = Directory
    BY Zenon DEF NodeAt
  <2>4. Lstat(fs, <<>>) = Directory
    BY <2>2, <2>3, Zenon DEF Lstat
  <2> QED BY <2>1, <2>4, Zenon DEF CheckDirectory
<1>5. CASE m # 0
  <2> DEFINE next == SubSeq(path, 1, m + 1)
  <2>1. m \in 1..Len(path)
    BY <1>2, <1>5
  <2>2. Lstat(fs, a).kind \notin {"link", "error"} /\ Lstat(fs, next).kind \notin {"link", "error"}
    BY <1>1, <1>2, <2>1 DEF Canonical
  <2>3. a \in Ancestors(next)
    <3>1. /\ next \in Seq(Name) /\ Len(next) = m + 1
          /\ \A n \in 0..(m + 1) : SubSeq(next, 1, n) = SubSeq(path, 1, n)
      BY <1>2, PrefixFacts
    <3> HIDE DEF next
    <3>2. m \in 0..(m + 1) /\ m \in 0..(Len(next) - 1)
      BY <1>2, <3>1
    <3>3. a = SubSeq(next, 1, m)
      BY <1>1, <3>1, <3>2
    <3> QED BY <3>2, <3>3 DEF Ancestors
  <2>4. NodeAt(fs, a) # File
    <3> DEFINE e == [kind |-> "error"]
    <3> HIDE DEF next
    <3>1. NodeAt(fs, a) = File => Lstat(fs, next) = e
      BY <2>3, Zenon DEF Lstat
    <3>2. e.kind = "error"
      OBVIOUS
    <3> HIDE DEF e
    <3> QED BY <2>2, <3>1, <3>2
  <2>5. Lstat(fs, a) = File => NodeAt(fs, a) = File
    <3> DEFINE e == [kind |-> "error"]
    <3>1. e # File /\ Missing # File
      BY DEF Missing, File
    <3>2. Lstat(fs, a) = e \/ Lstat(fs, a) = NodeAt(fs, a) \/ Lstat(fs, a) = Missing
      BY Zenon DEF Lstat
    <3> HIDE DEF e
    <3> QED BY <3>1, <3>2
  <2>6. Lstat(fs, a).kind \in {"missing", "directory", "file"}
    BY <1>3, <2>2, LstatFacts
  <2>7. /\ Lstat(fs, a).kind = "missing" => Lstat(fs, a) = Missing
        /\ Lstat(fs, a).kind = "directory" => Lstat(fs, a) = Directory
        /\ Lstat(fs, a).kind = "file" => Lstat(fs, a) = File
    BY <1>3, LstatFacts
  <2> QED BY <2>4, <2>5, <2>6, <2>7 DEF CheckDirectory
<1> QED BY <1>4, <1>5

(* A path is resolved by resolving components from the root, behind the    *)
(* directory it starts in.                                                 *)
LEMMA ResolvedFrom ==
    ASSUME NEW Name, NEW fs, NEW path \in PathsOver(Name), Home \in Seq(Name), Cwd \in Seq(Name)
    PROVE  \/ Resolve(fs, path) = Failed /\ ~Kernel(fs, path).ok
           \/ \E comps \in Seq(Name) : /\ Resolve(fs, path) = ResolvePath(fs, Joined(<<>>, comps))
                                       /\ Kernel(fs, path) = KernelFrom(fs, <<>>, comps)
<1> DEFINE root == <<>>
<1>1. path.comps \in Seq(Name) /\ path.from \in {"root", "cwd", "home", "nobody"}
  BY DEF PathsOver
<1>2. \A comps \in Seq(Name) : Joined(root, comps) = comps
  BY ConcatEmptySeq DEF Joined
<1>3. /\ Joined(Home, path.comps) \in Seq(Name) /\ Joined(Cwd, path.comps) \in Seq(Name)
      /\ Joined(root, path.comps) \in Seq(Name)
  BY <1>1, <1>2, ConcatProperties DEF Joined
<1> HIDE DEF root
<1>4. CASE path.from = "root"
  <2>1. ExpandHome(path) = path
    BY <1>4 DEF ExpandHome
  <2>2. Resolve(fs, path) = ResolvePath(fs, path.comps)
    BY <1>4, <2>1 DEF Resolve
  <2>3. Kernel(fs, path) = KernelFrom(fs, root, Joined(root, path.comps))
    BY <1>4 DEF Kernel, Joined, root
  <2> QED BY <1>1, <1>2, <2>2, <2>3 DEF root
<1>5. CASE path.from = "cwd"
  <2>1. ExpandHome(path) = path
    BY <1>5 DEF ExpandHome
  <2>2. Resolve(fs, path) = ResolvePath(fs, Joined(Cwd, path.comps))
    BY <1>5, <2>1 DEF Resolve, Joined
  <2>3. Kernel(fs, path) = KernelFrom(fs, root, Joined(Cwd, path.comps))
    BY <1>5 DEF Kernel, Joined, root
  <2> QED BY <1>3, <1>2, <2>2, <2>3 DEF root
<1>6. CASE path.from = "home"
  <2> DEFINE all == Joined(Home, path.comps)
             e == [from |-> "root", comps |-> all]
  <2>1. ExpandHome(path) = e
    BY <1>6 DEF ExpandHome, Joined
  <2>2. Resolve(fs, path) = ResolvePath(fs, all)
    <3>1. e.from = "root" /\ e.comps = all
      OBVIOUS
    <3> HIDE DEF e, all
    <3> QED BY <2>1, <3>1 DEF Resolve
  <2>3. Kernel(fs, path) = KernelFrom(fs, root, all)
    BY <1>6 DEF Kernel, Joined, root
  <2> HIDE DEF all
  <2> QED BY <1>3, <1>2, <2>2, <2>3 DEF root, all
<1>7. CASE path.from = "nobody"
  <2> DEFINE e == [from |-> "error", comps |-> root]
  <2>1. ExpandHome(path) = e
    BY <1>7 DEF ExpandHome, root
  <2>2. Resolve(fs, path) = Failed
    <3>1. e.from = "error"
      OBVIOUS
    <3> HIDE DEF e
    <3> QED BY <2>1, <3>1 DEF Resolve
  <2>3. ~Kernel(fs, path).ok
    BY <1>7 DEF Kernel, Failed
  <2> QED BY <2>2, <2>3
<1> QED BY <1>1, <1>4, <1>5, <1>6, <1>7

(* Resolve agrees with the kernel wherever that finds the path, and what   *)
(* it returns is canonical.                                                *)
LEMMA ResolveFacts ==
    ASSUME NEW Name, NEW fs \in FileSystemsOver(Name), NEW path \in PathsOver(Name),
           Home \in Seq(Name), Cwd \in Seq(Name)
    PROVE  /\ Kernel(fs, path).ok => Resolve(fs, path) = Kernel(fs, path)
           /\ Resolve(fs, path).ok =>
                \E p \in Seq(Name) : Canonical(fs, p) /\ Resolve(fs, path) = Ok(p)
<1> DEFINE root == <<>>
<1>1. root \in Seq(Name) /\ Canonical(fs, root)
  BY EmptySeq, RootCanonical
<1>2. \/ Resolve(fs, path) = Failed /\ ~Kernel(fs, path).ok
      \/ \E comps \in Seq(Name) : /\ Resolve(fs, path) = ResolvePath(fs, Joined(root, comps))
                                  /\ Kernel(fs, path) = KernelFrom(fs, root, comps)
  BY ResolvedFrom
<1>3. CASE Resolve(fs, path) = Failed /\ ~Kernel(fs, path).ok
  BY <1>3 DEF Failed
<1>4. ASSUME NEW comps \in Seq(Name), Resolve(fs, path) = ResolvePath(fs, Joined(root, comps)),
             Kernel(fs, path) = KernelFrom(fs, root, comps)
      PROVE  /\ Kernel(fs, path).ok => Resolve(fs, path) = Kernel(fs, path)
             /\ Resolve(fs, path).ok =>
                  \E p \in Seq(Name) : Canonical(fs, p) /\ Resolve(fs, path) = Ok(p)
  <2>1. Joined(root, comps) \in Seq(Name)
    BY <1>1, ConcatProperties DEF Joined
  <2> HIDE DEF root
  <2>2. Kernel(fs, path).ok => Resolve(fs, path) = Kernel(fs, path)
    BY <1>1, <1>4, WalkAgrees
  <2>3. Resolve(fs, path).ok =>
            \E p \in Seq(Name) : Canonical(fs, p) /\ Resolve(fs, path) = Ok(p)
    BY <1>4, <2>1, ResolvedCanonical
  <2> QED BY <2>2, <2>3
<1> HIDE DEF root
<1> QED BY <1>2, <1>3, <1>4

(* In every file system, whatever links it holds, every host path has at   *)
(* most one resolved form: the one a kernel finds, if it finds the path    *)
(* with as many links as resolvePath follows. It resolves to itself, and   *)
(* the checks of what is made there accept it (filesystem/path.go).        *)
THEOREM HostPathsCanonical ==
    ASSUME NEW Name, NEW fs \in FileSystemsOver(Name), NEW path \in PathsOver(Name),
           Home \in Seq(Name), Cwd \in Seq(Name)
    PROVE  ResolvesCanonically(fs, path)
<1> DEFINE resolved == Resolve(fs, path)
<1>1. /\ Kernel(fs, path).ok => resolved = Kernel(fs, path)
      /\ resolved.ok => \E p \in Seq(Name) : Canonical(fs, p) /\ resolved = Ok(p)
  BY ResolveFacts
<1>2. ASSUME resolved.ok
      PROVE  /\ Resolve(fs, Absolute(resolved.path)) = resolved
             /\ \A a \in Ancestors(resolved.path) : CheckDirectory(fs, a)
             /\ RequireDirectory(fs, path).ok => CheckDirectory(fs, resolved.path)
  <2>1. PICK p \in Seq(Name) : Canonical(fs, p) /\ resolved = Ok(p)
    BY <1>1, <1>2
  <2> HIDE DEF resolved
  <2>2. resolved.path = p
    BY <2>1 DEF Ok
  <2>3. Resolve(fs, Absolute(p)) = Ok(p)
    <3> DEFINE q == Absolute(p)
    <3>1. q.from = "root" /\ q.comps = p
      BY DEF Absolute
    <3> HIDE DEF q
    <3>2. ExpandHome(q) = q
      BY <3>1 DEF ExpandHome
    <3>3. Resolve(fs, q) = ResolvePath(fs, p)
      BY <3>1, <3>2 DEF Resolve
    <3>4. ResolvePath(fs, p) = Ok(p)
      BY <2>1, CanonicalResolved
    <3> QED BY <3>3, <3>4 DEF q
  <2>4. \A a \in Ancestors(p) : CheckDirectory(fs, a)
    BY <2>1, AncestorsChecked
  <2>5. RequireDirectory(fs, path).ok => CheckDirectory(fs, resolved.path)
    BY DEF RequireDirectory, CheckDirectory, Failed, resolved
  <2> QED BY <2>1, <2>2, <2>3, <2>4, <2>5
<1> QED BY <1>1, <1>2 DEF ResolvesCanonically

(* The home root of a configuration file lies where the real location of   *)
(* the file puts it, under whatever name and through whatever links the    *)
(* file was found (config/load.go).                                        *)
THEOREM HomeRootsOne ==
    ASSUME NEW Name, NEW fs \in FileSystemsOver(Name), NEW filename \in PathsOver(Name),
           NEW value \in PathsOver(Name), Home \in Seq(Name), Cwd \in Seq(Name)
    PROVE  LoadsOneRoot(fs, filename, value)
<1> DEFINE file == Kernel(fs, filename)
           at == Parent(file.path)
           root == KernelFrom(fs, at, value.comps)
<1>1. SUFFICES ASSUME file.ok, Lstat(fs, file.path) = File, value.from = "cwd", root.ok
               PROVE  LoadedRoot(fs, filename, value) = IF root.path = <<>> THEN Failed ELSE root
  BY DEF LoadsOneRoot
<1>2. Resolve(fs, filename) = file /\ Resolve(fs, filename).ok
  BY <1>1, ResolveFacts
<1>3. PICK p \in Seq(Name) : Canonical(fs, p) /\ Resolve(fs, filename) = Ok(p)
  BY <1>2, ResolveFacts
<1> HIDE DEF file
<1>4. file.path = p
  BY <1>2, <1>3 DEF Ok
<1>5. at \in Seq(Name) /\ Canonical(fs, at)
  BY <1>3, <1>4, ParentIn, CanonicalParent
<1>6. value.comps \in Seq(Name)
  BY DEF PathsOver
<1>7. ResolvePath(fs, Joined(at, value.comps)) = root
  <2> DEFINE comps == value.comps
  <2> HIDE DEF at, comps
  <2>1. comps \in Seq(Name) /\ KernelFrom(fs, at, comps).ok
    BY <1>1, <1>6 DEF comps
  <2> QED BY <1>5, <2>1, WalkAgrees DEF comps
<1>8. CanonicalHostPath(fs, value, filename) = root
  <2> DEFINE q == Absolute(at \o value.comps)
  <2>1. q.from = "root" /\ q.comps = Joined(at, value.comps)
    BY DEF Absolute, Joined
  <2>2. CanonicalHostPath(fs, value, filename) = Resolve(fs, q)
    BY <1>1, <1>2 DEF CanonicalHostPath
  <2> HIDE DEF q
  <2>3. ExpandHome(q) = q
    BY <2>1 DEF ExpandHome
  <2>4. Resolve(fs, q) = ResolvePath(fs, Joined(at, value.comps))
    BY <2>1, <2>3 DEF Resolve
  <2> QED BY <1>7, <2>2, <2>4
<1> HIDE DEF root, at
<1>9. LoadedRoot(fs, filename, value) = IF root.path # <<>> THEN root ELSE Failed
  BY <1>1, <1>2, <1>8, Zenon DEF LoadedRoot
<1> QED BY <1>9, Zenon

(* PathsCanonical holds of every file system and every path.               *)
THEOREM PathsAlwaysCanonical ==
    ASSUME NEW Name, Home \in Seq(Name), Cwd \in Seq(Name),
           input \in PathsToResolve(Name) \cup FilesToLoad(Name)
    PROVE  PathsCanonical
<1>1. CASE input \in PathsToResolve(Name)
  <2>1. input.rule = "path" /\ input.fs \in FileSystemsOver(Name) /\ input.path \in PathsOver(Name)
    BY <1>1 DEF PathsToResolve
  <2>2. ResolvesCanonically(input.fs, input.path)
    BY <2>1, HostPathsCanonical
  <2> QED BY <2>1, <2>2 DEF PathsCanonical
<1>2. CASE input \in FilesToLoad(Name)
  <2>1. /\ input.rule = "load" /\ input.fs \in FileSystemsOver(Name)
        /\ input.filename \in PathsOver(Name) /\ input.value \in PathsOver(Name)
    BY <1>2 DEF FilesToLoad
  <2>2. LoadsOneRoot(input.fs, input.filename, input.value)
    BY <2>1, HomeRootsOne
  <2> QED BY <2>1, <2>2 DEF PathsCanonical
<1> QED BY <1>1, <1>2

-----------------------------------------------------------------------------
(* Configuration documents: the schema.                                    *)

HomeModel  == Struct([root |-> Field(TextOf("text"))])
NixOSModel == Struct([modules |-> Field(ListOf(TextOf("ModuleID")))])
EnvModel   == MapOf(TextOf("EnvValue"))

FlatFields   == {"user", "resources", "home", "nixos"}
ConfigFields == {"schema_version", "name", "network", "env", "mounts"} \cup FlatFields

TypeOf(f) == ConfigModel.fields[f].model

\* Values without parts, lists of them, and tables of both.
Leaf(m)   == m.kind \in {"string", "integer", "size", "bool"}
Simple(m) == Leaf(m) \/ (m.kind = "array" /\ m.elem.kind \in {"string", "integer"})
Flat(m) ==
    /\ m.kind = "table" /\ IsFiniteSet(DOMAIN m.fields)
    /\ \A f \in DOMAIN m.fields : Simple(m.fields[f].model)

Untagged(field) == field.choices = {} /\ field.default = "" /\ ~field.required
NoDefaults(m)   == \A f \in DOMAIN m.fields : m.fields[f].default = ""

(* What the schema says of its types, and of a field that is one of them.  *)
LEMMA Schema ==
    /\ Number.kind = "integer" /\ Size.kind = "size" /\ Bool.kind = "bool"
    /\ \A type : TextOf(type).kind = "string" /\ TextOf(type).type = type
    /\ \A m : ListOf(m).kind = "array" /\ ListOf(m).elem = m
    /\ \A m : MapOf(m).kind = "map" /\ MapOf(m).elem = m
    /\ \A x : Struct(x).kind = "table" /\ Struct(x).fields = x
    /\ \A m : Field(m).model = m /\ Untagged(Field(m))
BY DEF Number, Size, Bool, TextOf, ListOf, MapOf, Struct, Field, Untagged

(* Texts, numbers, sizes and switches have no parts, and lists of texts    *)
(* and of numbers are simple.                                              *)
LEMMA SimpleTypes ==
    /\ Leaf(Number) /\ Leaf(Size) /\ Leaf(Bool) /\ \A type : Leaf(TextOf(type))
    /\ Simple(Number) /\ Simple(Size) /\ Simple(Bool) /\ \A type : Simple(TextOf(type))
    /\ Simple(ListOf(Number)) /\ \A type : Simple(ListOf(TextOf(type)))
<1>1. Leaf(Number) /\ Leaf(Size) /\ Leaf(Bool) /\ \A type : Leaf(TextOf(type))
  BY Schema DEF Leaf
<1>2. Simple(ListOf(Number)) /\ \A type : Simple(ListOf(TextOf(type)))
  BY Schema DEF Simple
<1> QED BY <1>1, <1>2 DEF Simple

(* Two, three and four fields are finitely many.                           *)
LEMMA FewFields ==
    /\ \A a : IsFiniteSet({a})
    /\ \A a, b : IsFiniteSet({a, b})
    /\ \A a, b, c : IsFiniteSet({a, b, c})
    /\ \A a, b, c, d : IsFiniteSet({a, b, c, d})
<1>1. \A a : IsFiniteSet({a})
  BY FS_Singleton
<1>2. \A a, b : IsFiniteSet({a, b})
  <2> SUFFICES ASSUME NEW a, NEW b
               PROVE  IsFiniteSet({a, b})
    OBVIOUS
  <2> DEFINE A == {a}
  <2>1. IsFiniteSet(A) /\ A \cup {b} = {a, b}
    BY <1>1
  <2> HIDE DEF A
  <2>2. IsFiniteSet(A \cup {b})
    BY <2>1, FS_AddElement
  <2> QED BY <2>1, <2>2
<1>3. \A a, b, c : IsFiniteSet({a, b, c})
  <2> SUFFICES ASSUME NEW a, NEW b, NEW c
               PROVE  IsFiniteSet({a, b, c})
    OBVIOUS
  <2> DEFINE A == {a, b}
  <2>1. IsFiniteSet(A) /\ A \cup {c} = {a, b, c}
    BY <1>2
  <2> HIDE DEF A
  <2>2. IsFiniteSet(A \cup {c})
    BY <2>1, FS_AddElement
  <2> QED BY <2>1, <2>2
<1>4. \A a, b, c, d : IsFiniteSet({a, b, c, d})
  <2> SUFFICES ASSUME NEW a, NEW b, NEW c, NEW d
               PROVE  IsFiniteSet({a, b, c, d})
    OBVIOUS
  <2> DEFINE A == {a, b, c}
  <2>1. IsFiniteSet(A) /\ A \cup {d} = {a, b, c, d}
    BY <1>3
  <2> HIDE DEF A
  <2>2. IsFiniteSet(A \cup {d})
    BY <2>1, FS_AddElement
  <2> QED BY <2>1, <2>2
<1> QED BY <1>1, <1>2, <1>3, <1>4

(* What the schema says of the fields of a configuration.                  *)
LEMMA ConfigSchema ==
    /\ ConfigModel.kind = "table" /\ DOMAIN ConfigModel.fields = ConfigFields
    /\ \A f \in ConfigFields : Untagged(ConfigModel.fields[f])
    /\ TypeOf("schema_version") = Number /\ TypeOf("name") = TextOf("VMName")
    /\ TypeOf("user") = UserModel /\ TypeOf("resources") = ResourcesModel
    /\ TypeOf("home") = HomeModel /\ TypeOf("nixos") = NixOSModel
    /\ TypeOf("network") = NetworkModel /\ TypeOf("env") = EnvModel
    /\ TypeOf("mounts") = ListOf(MountModel)
<1> DEFINE F(a, b, c, d, e, f, g, h, i) ==
            [schema_version |-> a, name |-> b, user |-> c, resources |-> d, home |-> e,
             nixos |-> f, network |-> g, env |-> h, mounts |-> i]
<1>1. \A m : Field(m).model = m /\ Untagged(Field(m))
  BY Schema
<1>2. ConfigModel.kind = "table" /\ ConfigModel.fields =
        F(Field(Number), Field(TextOf("VMName")), Field(UserModel), Field(ResourcesModel),
          Field(HomeModel), Field(NixOSModel), Field(NetworkModel), Field(EnvModel),
          Field(ListOf(MountModel)))
  <2> HIDE DEF Field, UserModel, ResourcesModel, NetworkModel, MountModel, TextOf, Number, ListOf
  <2> QED BY Schema DEF ConfigModel, HomeModel, NixOSModel, EnvModel
<1>3. ASSUME NEW a, NEW b, NEW c, NEW d, NEW e, NEW f, NEW g, NEW h, NEW i
      PROVE  LET r == F(a, b, c, d, e, f, g, h, i)
             IN /\ DOMAIN r = ConfigFields
                /\ r["schema_version"] = a /\ r["name"] = b /\ r["user"] = c
                /\ r["resources"] = d /\ r["home"] = e /\ r["nixos"] = f
                /\ r["network"] = g /\ r["env"] = h /\ r["mounts"] = i
  BY DEF ConfigFields, FlatFields
<1> HIDE DEF F
<1>4. /\ DOMAIN ConfigModel.fields = ConfigFields
      /\ ConfigModel.fields["schema_version"] = Field(Number)
      /\ ConfigModel.fields["name"] = Field(TextOf("VMName"))
      /\ ConfigModel.fields["user"] = Field(UserModel)
      /\ ConfigModel.fields["resources"] = Field(ResourcesModel)
      /\ ConfigModel.fields["home"] = Field(HomeModel)
      /\ ConfigModel.fields["nixos"] = Field(NixOSModel)
      /\ ConfigModel.fields["network"] = Field(NetworkModel)
      /\ ConfigModel.fields["env"] = Field(EnvModel)
      /\ ConfigModel.fields["mounts"] = Field(ListOf(MountModel))
  BY <1>2, <1>3
<1>5. \A f \in ConfigFields : Untagged(ConfigModel.fields[f])
  BY <1>1, <1>4 DEF ConfigFields, FlatFields
<1> QED BY <1>1, <1>2, <1>4, <1>5 DEF TypeOf

(* What it says of the user,                                               *)
LEMMA UserSchema ==
    LET fields == UserModel.fields
    IN /\ UserModel.kind = "table" /\ DOMAIN fields = {"name", "home", "sudo"}
       /\ \A f \in {"name", "home", "sudo"} : Untagged(fields[f])
       /\ fields["name"].model = TextOf("Username")
       /\ fields["home"].model = TextOf("GuestPath") /\ fields["sudo"].model = Bool
<1> DEFINE F(a, b, c) == [name |-> a, home |-> b, sudo |-> c]
<1>1. UserModel.kind = "table" /\ UserModel.fields =
        F(Field(TextOf("Username")), Field(TextOf("GuestPath")), Field(Bool))
  BY Schema DEF UserModel
<1>2. ASSUME NEW a, NEW b, NEW c
      PROVE  LET r == F(a, b, c)
             IN /\ DOMAIN r = {"name", "home", "sudo"}
                /\ r["name"] = a /\ r["home"] = b /\ r["sudo"] = c
  OBVIOUS
<1> HIDE DEF F
<1>3. /\ DOMAIN UserModel.fields = {"name", "home", "sudo"}
      /\ UserModel.fields["name"] = Field(TextOf("Username"))
      /\ UserModel.fields["home"] = Field(TextOf("GuestPath"))
      /\ UserModel.fields["sudo"] = Field(Bool)
  BY <1>1, <1>2
<1>4. \A m : Field(m).model = m /\ Untagged(Field(m))
  BY Schema
<1> QED BY <1>1, <1>3, <1>4

(* of the resources,                                                       *)
LEMMA ResourcesSchema ==
    LET fields == ResourcesModel.fields
    IN /\ ResourcesModel.kind = "table" /\ DOMAIN fields = {"arch", "disk", "mem", "cpu"}
       /\ \A f \in {"arch", "disk", "mem", "cpu"} : Untagged(fields[f])
       /\ fields["arch"].model = TextOf("Architecture") /\ fields["disk"].model = Size
       /\ fields["mem"].model = Size /\ fields["cpu"].model = Number
<1> DEFINE F(a, b, c, d) == [arch |-> a, disk |-> b, mem |-> c, cpu |-> d]
<1>1. ResourcesModel.kind = "table" /\ ResourcesModel.fields =
        F(Field(TextOf("Architecture")), Field(Size), Field(Size), Field(Number))
  BY Schema DEF ResourcesModel
<1>2. ASSUME NEW a, NEW b, NEW c, NEW d
      PROVE  LET r == F(a, b, c, d)
             IN /\ DOMAIN r = {"arch", "disk", "mem", "cpu"}
                /\ r["arch"] = a /\ r["disk"] = b /\ r["mem"] = c /\ r["cpu"] = d
  OBVIOUS
<1> HIDE DEF F
<1>3. /\ DOMAIN ResourcesModel.fields = {"arch", "disk", "mem", "cpu"}
      /\ ResourcesModel.fields["arch"] = Field(TextOf("Architecture"))
      /\ ResourcesModel.fields["disk"] = Field(Size)
      /\ ResourcesModel.fields["mem"] = Field(Size)
      /\ ResourcesModel.fields["cpu"] = Field(Number)
  BY <1>1, <1>2
<1>4. \A m : Field(m).model = m /\ Untagged(Field(m))
  BY Schema
<1> QED BY <1>1, <1>3, <1>4

(* of the home and the modules,                                            *)
LEMMA HomeSchema ==
    /\ HomeModel.kind = "table" /\ DOMAIN HomeModel.fields = {"root"}
    /\ Untagged(HomeModel.fields["root"]) /\ HomeModel.fields["root"].model = TextOf("text")
    /\ NixOSModel.kind = "table" /\ DOMAIN NixOSModel.fields = {"modules"}
    /\ Untagged(NixOSModel.fields["modules"])
    /\ NixOSModel.fields["modules"].model = ListOf(TextOf("ModuleID"))
<1>1. \A m : Field(m).model = m /\ Untagged(Field(m))
  BY Schema
<1>2. /\ HomeModel.kind = "table" /\ HomeModel.fields = [root |-> Field(TextOf("text"))]
      /\ NixOSModel.kind = "table"
      /\ NixOSModel.fields = [modules |-> Field(ListOf(TextOf("ModuleID")))]
  BY Schema DEF HomeModel, NixOSModel
<1>3. ASSUME NEW a
      PROVE  /\ DOMAIN [root |-> a] = {"root"} /\ [root |-> a]["root"] = a
             /\ DOMAIN [modules |-> a] = {"modules"} /\ [modules |-> a]["modules"] = a
  OBVIOUS
<1> QED BY <1>1, <1>2, <1>3

(* of the network, a table with a table in it,                             *)
LEMMA NetworkSchema ==
    LET fields == NetworkModel.fields
    IN /\ NetworkModel.kind = "table" /\ DOMAIN fields = {"mode", "ports"}
       /\ Untagged(fields["ports"]) /\ fields["ports"].model = PortsModel
       /\ fields["mode"].model = TextOf("text") /\ ~fields["mode"].required
       /\ fields["mode"].choices = {"shared"} /\ fields["mode"].default = ""
<1> DEFINE c == Choice({"shared"}, "")
           p == Field(PortsModel)
<1>1. c.model = TextOf("text") /\ ~c.required /\ c.choices = {"shared"} /\ c.default = ""
  BY DEF Field, Choice
<1>2. p.model = PortsModel /\ Untagged(p)
  BY Schema
<1>3. NetworkModel.kind = "table" /\ NetworkModel.fields = [mode |-> c, ports |-> p]
  BY Schema DEF NetworkModel
<1> HIDE DEF c, p
<1>4. /\ DOMAIN NetworkModel.fields = {"mode", "ports"}
      /\ NetworkModel.fields["mode"] = c /\ NetworkModel.fields["ports"] = p
  BY <1>3
<1> QED BY <1>1, <1>2, <1>3, <1>4

(* of the ports,                                                           *)
LEMMA PortsSchema ==
    /\ PortsModel.kind = "table" /\ DOMAIN PortsModel.fields = {"tcp", "udp"}
    /\ \A f \in {"tcp", "udp"} :
        Untagged(PortsModel.fields[f]) /\ PortsModel.fields[f].model = ListOf(Number)
<1>1. \A m : Field(m).model = m /\ Untagged(Field(m))
  BY Schema
<1> DEFINE a == Field(ListOf(Number))
<1>2. PortsModel.kind = "table" /\ PortsModel.fields = [tcp |-> a, udp |-> a]
  BY Schema DEF PortsModel
<1>3. a.model = ListOf(Number) /\ Untagged(a)
  BY <1>1
<1> HIDE DEF a
<1> QED BY <1>2, <1>3

(* and of a mount, whose mode has a default and whose other fields are     *)
(* required.                                                               *)
LEMMA MountSchema ==
    LET fields == MountModel.fields
    IN /\ MountModel.kind = "table" /\ DOMAIN fields = {"mode", "source", "target"}
       /\ fields["mode"].model = TextOf("text") /\ ~fields["mode"].required
       /\ fields["mode"].choices = {"rw", "ro"} /\ fields["mode"].default = "rw"
       /\ fields["source"].model = TextOf("text") /\ fields["source"].required
       /\ fields["target"].model = TextOf("GuestPath") /\ fields["target"].required
       /\ \A f \in {"source", "target"} : fields[f].choices = {} /\ fields[f].default = ""
<1> DEFINE c == Choice({"rw", "ro"}, "rw")
           r == Required(TextOf("text"))
           q == Required(TextOf("GuestPath"))
<1>1. \A m : Required(m).model = m /\ Required(m).required
             /\ Required(m).choices = {} /\ Required(m).default = ""
  BY DEF Field, Required
<1>2. c.model = TextOf("text") /\ ~c.required /\ c.choices = {"rw", "ro"} /\ c.default = "rw"
  BY DEF Field, Choice
<1>3. /\ r.model = TextOf("text") /\ r.required /\ r.choices = {} /\ r.default = ""
      /\ q.model = TextOf("GuestPath") /\ q.required /\ q.choices = {} /\ q.default = ""
  BY <1>1
<1>4. MountModel.kind = "table" /\ MountModel.fields = [mode |-> c, source |-> r, target |-> q]
  BY Schema DEF MountModel
<1> HIDE DEF c, r, q
<1>5. /\ DOMAIN MountModel.fields = {"mode", "source", "target"}
      /\ MountModel.fields["mode"] = c /\ MountModel.fields["source"] = r
      /\ MountModel.fields["target"] = q
  BY <1>4
<1> QED BY <1>2, <1>3, <1>4, <1>5

(* Six of the tables have no tables in them, and only mounts have          *)
(* defaults.                                                               *)
LEMMA FlatTables ==
    /\ \A f \in FlatFields : Flat(TypeOf(f)) /\ NoDefaults(TypeOf(f))
    /\ Flat(PortsModel) /\ NoDefaults(PortsModel)
    /\ Flat(MountModel) /\ NoDefaults(NetworkModel)
<1>1. Flat(UserModel) /\ NoDefaults(UserModel)
  <2>1. \A f \in {"name", "home", "sudo"} : Simple(UserModel.fields[f].model)
    BY UserSchema, SimpleTypes
  <2>2. IsFiniteSet({"name", "home", "sudo"})
    BY FewFields
  <2> QED BY <2>1, <2>2, UserSchema DEF Flat, NoDefaults, Untagged
<1>2. Flat(ResourcesModel) /\ NoDefaults(ResourcesModel)
  <2>1. \A f \in {"arch", "disk", "mem", "cpu"} : Simple(ResourcesModel.fields[f].model)
    BY ResourcesSchema, SimpleTypes
  <2>2. IsFiniteSet({"arch", "disk", "mem", "cpu"})
    BY FewFields
  <2> QED BY <2>1, <2>2, ResourcesSchema DEF Flat, NoDefaults, Untagged
<1>3. Flat(HomeModel) /\ NoDefaults(HomeModel) /\ Flat(NixOSModel) /\ NoDefaults(NixOSModel)
  BY HomeSchema, SimpleTypes, FewFields DEF Flat, NoDefaults, Untagged
<1>4. Flat(PortsModel) /\ NoDefaults(PortsModel)
  <2>1. \A f \in {"tcp", "udp"} : Simple(PortsModel.fields[f].model)
    BY PortsSchema, SimpleTypes
  <2>2. IsFiniteSet({"tcp", "udp"})
    BY FewFields
  <2> QED BY <2>1, <2>2, PortsSchema DEF Flat, NoDefaults, Untagged
<1>5. Flat(MountModel)
  <2>1. \A f \in {"mode", "source", "target"} : Simple(MountModel.fields[f].model)
    <3>1. \A type : Simple(TextOf(type))
      BY SimpleTypes
    <3>2. /\ MountModel.fields["mode"].model = TextOf("text")
          /\ MountModel.fields["source"].model = TextOf("text")
          /\ MountModel.fields["target"].model = TextOf("GuestPath")
      BY MountSchema
    <3> QED BY <3>1, <3>2
  <2>2. /\ IsFiniteSet({"mode", "source", "target"})
        /\ MountModel.kind = "table" /\ DOMAIN MountModel.fields = {"mode", "source", "target"}
    BY FewFields, MountSchema
  <2> QED BY <2>1, <2>2 DEF Flat
<1>6. NoDefaults(NetworkModel)
  BY NetworkSchema DEF NoDefaults, Untagged
<1> QED BY <1>1, <1>2, <1>3, <1>4, <1>5, <1>6, ConfigSchema DEF FlatFields

-----------------------------------------------------------------------------
(* What checkShape accepts.                                                *)

FlatAccepted(v, m) ==
    /\ v.kind = "table" /\ Entries(v) \subseteq DOMAIN m.fields
    /\ \A f \in DOMAIN m.fields :
        IF f \in Entries(v) THEN CheckItem(v.entries[f], m.fields[f].model)
                            ELSE ~m.fields[f].required

NetworkAccepted(v) ==
    /\ v.kind = "table" /\ Entries(v) \subseteq {"mode", "ports"}
    /\ "mode" \in Entries(v) => CheckItem(v.entries["mode"], TextOf("text"))
    /\ "ports" \in Entries(v) => FlatAccepted(v.entries["ports"], PortsModel)

EnvAccepted(v) ==
    /\ v.kind = "table"
    /\ \A n \in Entries(v) : n # "bad" /\ CheckItem(v.entries[n], TextOf("EnvValue"))

MountsAccepted(v) ==
    v.kind = "array" /\ \A i \in DOMAIN v.items : FlatAccepted(v.items[i], MountModel)

Accepted(d) ==
    /\ d.kind = "table" /\ Entries(d) \subseteq ConfigFields
    /\ \A f \in Entries(d) : CheckField(d.entries[f], TypeOf(f))

(* A value or a table is checked the same way wherever it is deep enough.  *)
LEMMA CheckLevels ==
    /\ \A v, m : Leaf(m) => (CheckItem(v, m) <=> CheckLeaf(v, m))
    /\ \A v, m : Simple(m) => /\ CheckEntry(v, m) <=> CheckItem(v, m)
                              /\ CheckField(v, m) <=> CheckItem(v, m)
    /\ \A v, m : Flat(m) => /\ CheckEntry(v, m) <=> FlatAccepted(v, m)
                            /\ CheckField(v, m) <=> FlatAccepted(v, m)
<1>1. \A v, m : Leaf(m) => /\ CheckItem(v, m) <=> CheckLeaf(v, m)
                           /\ CheckEntry(v, m) <=> CheckLeaf(v, m)
                           /\ CheckField(v, m) <=> CheckLeaf(v, m)
  BY DEF CheckItem, CheckEntry, CheckField, CheckPart, Leaf
<1>2. ASSUME NEW v, NEW m, Simple(m)
      PROVE  /\ CheckEntry(v, m) <=> CheckItem(v, m)
             /\ CheckField(v, m) <=> CheckItem(v, m)
  <2>1. CASE Leaf(m)
    BY <1>1, <2>1
  <2>2. CASE m.kind = "array" /\ m.elem.kind \in {"string", "integer"}
    <3>1. /\ CheckItem(v, m) <=> CheckArray(v, m, CheckLeaf)
          /\ CheckEntry(v, m) <=> CheckArray(v, m, CheckItem)
          /\ CheckField(v, m) <=> CheckArray(v, m, CheckEntry)
      BY <2>2 DEF CheckItem, CheckEntry, CheckField, CheckPart
    <3>2. Leaf(m.elem)
      BY <2>2 DEF Leaf
    <3> QED BY <1>1, <3>1, <3>2 DEF CheckArray
  <2> QED BY <1>2, <2>1, <2>2 DEF Simple
<1>3. ASSUME NEW v, NEW m, Flat(m)
      PROVE  /\ CheckEntry(v, m) <=> FlatAccepted(v, m)
             /\ CheckField(v, m) <=> FlatAccepted(v, m)
  <2>1. /\ CheckEntry(v, m) <=> CheckTable(v, m, CheckItem)
        /\ CheckField(v, m) <=> CheckTable(v, m, CheckEntry)
    BY <1>3 DEF CheckEntry, CheckField, CheckPart, Flat
  <2>2. \A f \in DOMAIN m.fields : Simple(m.fields[f].model)
    BY <1>3 DEF Flat
  <2> QED BY <1>2, <2>1, <2>2 DEF CheckTable, FlatAccepted
<1> QED BY <1>1, <1>2, <1>3

(* checkShape of the network, the environment and the mounts,              *)
LEMMA CheckParts ==
    /\ \A v : CheckField(v, NetworkModel) <=> NetworkAccepted(v)
    /\ \A v : CheckField(v, EnvModel) <=> EnvAccepted(v)
    /\ \A v : CheckField(v, ListOf(MountModel)) <=> MountsAccepted(v)
<1>1. ASSUME NEW v
      PROVE  CheckField(v, NetworkModel) <=> NetworkAccepted(v)
  <2>1. CheckField(v, NetworkModel) <=> CheckTable(v, NetworkModel, CheckEntry)
    BY NetworkSchema DEF CheckField, CheckPart
  <2>2. CheckEntry(v.entries["mode"], NetworkModel.fields["mode"].model)
            <=> CheckItem(v.entries["mode"], TextOf("text"))
    <3>1. NetworkModel.fields["mode"].model = TextOf("text") /\ Simple(TextOf("text"))
      BY NetworkSchema, SimpleTypes
    <3> QED BY <3>1, CheckLevels
  <2>3. CheckEntry(v.entries["ports"], NetworkModel.fields["ports"].model)
            <=> FlatAccepted(v.entries["ports"], PortsModel)
    <3>1. NetworkModel.fields["ports"].model = PortsModel /\ Flat(PortsModel)
      BY NetworkSchema, FlatTables
    <3> QED BY <3>1, CheckLevels
  <2>4. /\ DOMAIN NetworkModel.fields = {"mode", "ports"}
        /\ ~NetworkModel.fields["mode"].required /\ ~NetworkModel.fields["ports"].required
    BY NetworkSchema DEF Untagged
  <2> QED BY <2>1, <2>2, <2>3, <2>4 DEF CheckTable, NetworkAccepted
<1>2. ASSUME NEW v
      PROVE  CheckField(v, EnvModel) <=> EnvAccepted(v)
  <2>1. EnvModel.kind = "map" /\ EnvModel.elem = TextOf("EnvValue") /\ Simple(TextOf("EnvValue"))
    BY Schema, SimpleTypes DEF EnvModel
  <2>2. CheckField(v, EnvModel) <=> CheckEnvironment(v, EnvModel, CheckEntry)
    BY <2>1 DEF CheckField, CheckPart
  <2>3. \A e : CheckEntry(e, EnvModel.elem) <=> CheckItem(e, TextOf("EnvValue"))
    BY <2>1, CheckLevels
  <2> QED BY <2>2, <2>3 DEF CheckEnvironment, EnvAccepted
<1>3. ASSUME NEW v
      PROVE  CheckField(v, ListOf(MountModel)) <=> MountsAccepted(v)
  <2>1. /\ ListOf(MountModel).kind = "array" /\ ListOf(MountModel).elem = MountModel
        /\ Flat(MountModel)
    BY Schema, FlatTables
  <2>2. CheckField(v, ListOf(MountModel)) <=> CheckArray(v, ListOf(MountModel), CheckEntry)
    BY <2>1 DEF CheckField, CheckPart
  <2>3. \A e : CheckEntry(e, MountModel) <=> FlatAccepted(e, MountModel)
    BY <2>1, CheckLevels
  <2> QED BY <2>1, <2>2, <2>3 DEF CheckArray, MountsAccepted
<1> QED BY <1>1, <1>2, <1>3

(* and of a document.                                                      *)
LEMMA CheckAccepts == \A d : CheckShape(d, ConfigModel) <=> Accepted(d)
<1> SUFFICES ASSUME NEW d
             PROVE  CheckShape(d, ConfigModel) <=> Accepted(d)
  OBVIOUS
<1>1. CheckShape(d, ConfigModel) <=> CheckTable(d, ConfigModel, CheckField)
  BY ConfigSchema DEF CheckShape, CheckPart
<1> QED BY <1>1, ConfigSchema DEF CheckTable, Accepted, TypeOf, Untagged

-----------------------------------------------------------------------------
(* What an accepted document is decoded to.                                *)

LeafValue(v, m) ==
    CASE m.kind = "size" -> ParseByteSize(v.text).size
      [] m.kind = "string" -> v.text
      [] m.kind = "bool" -> v.truth
      [] OTHER -> v.number

Value(v, m) ==
    IF m.kind = "array" THEN [i \in DOMAIN v.items |-> LeafValue(v.items[i], m.elem)]
                        ELSE LeafValue(v, m)

FlatOf(v, m, was) ==
    [f \in DOMAIN m.fields |->
        IF f \in Entries(v) THEN Value(v.entries[f], m.fields[f].model) ELSE was[f]]

NetworkOf(v) ==
    [f \in {"mode", "ports"} |->
        IF f \notin Entries(v) THEN Default.network[f]
        ELSE IF f = "mode" THEN Value(v.entries[f], TextOf("text"))
        ELSE FlatOf(v.entries[f], PortsModel, Default.network.ports)]

EnvOf(v) == [n \in Entries(v) |-> Value(v.entries[n], TextOf("EnvValue"))]

MountDefaults == [f \in {"mode", "source", "target"} |-> "rw"]

MountOf(v)  == FlatOf(v, MountModel, MountDefaults)
MountsOf(v) == [i \in DOMAIN v.items |-> MountOf(v.items[i])]

FieldOf(f, v) ==
    CASE f \in {"schema_version", "name"} -> Value(v, TypeOf(f))
      [] f \in FlatFields -> FlatOf(v, TypeOf(f), Default[f])
      [] f = "network" -> NetworkOf(v)
      [] f = "env" -> EnvOf(v)
      [] OTHER -> MountsOf(v)

ConfigOf(d) ==
    [f \in ConfigFields |-> IF f \in Entries(d) THEN FieldOf(f, d.entries[f]) ELSE Default[f]]

(* A value without parts is decoded to what the document says.             *)
LEMMA LeafValues ==
    /\ \A v, m : m.kind = "string" => Value(v, m) = v.text
    /\ \A v, m : m.kind = "size" => Value(v, m) = ParseByteSize(v.text).size
    /\ \A v, m : m.kind = "bool" => Value(v, m) = v.truth
    /\ \A v, m : m.kind = "integer" => Value(v, m) = v.number
    /\ \A v, m : Leaf(m) => Value(v, m) = LeafValue(v, m)
    /\ \A v, m, t, r : DecodeLeaf(m, t, v, r) = LeafValue(v, m)
<1>1. \A v, m, t, r : DecodeLeaf(m, t, v, r) = LeafValue(v, m)
  BY DEF DecodeLeaf, LeafValue
<1>2. \A v, m : Leaf(m) => Value(v, m) = LeafValue(v, m)
  BY DEF Value, Leaf
<1>3. \A v, m : m.kind = "string" => Value(v, m) = v.text
  BY DEF Value, LeafValue
<1>4. \A v, m : m.kind = "size" => Value(v, m) = ParseByteSize(v.text).size
  BY DEF Value, LeafValue
<1>5. \A v, m : m.kind = "bool" => Value(v, m) = v.truth
  BY DEF Value, LeafValue
<1>6. \A v, m : m.kind = "integer" => Value(v, m) = v.number
  BY DEF Value, LeafValue
<1> QED BY <1>1, <1>2, <1>3, <1>4, <1>5, <1>6

(* A value is decoded to the same wherever it is deep enough, whatever was *)
(* there before; a table over what was there before.                       *)
LEMMA DecodeLevels ==
    /\ \A v, m, t, r : Simple(m) => /\ DecodeItem(m, t, v, r) = Value(v, m)
                                    /\ DecodeEntry(m, t, v, r) = Value(v, m)
                                    /\ DecodeField(m, t, v, r) = Value(v, m)
    /\ \A v, m, t, r : Flat(m) => /\ DecodeEntry(m, t, v, r) = FlatOf(v, m, t)
                                  /\ DecodeField(m, t, v, r) = FlatOf(v, m, t)
<1>1. ASSUME NEW v, NEW m, NEW t, NEW r, Leaf(m)
      PROVE  /\ DecodeItem(m, t, v, r) = Value(v, m)
             /\ DecodeEntry(m, t, v, r) = Value(v, m)
             /\ DecodeField(m, t, v, r) = Value(v, m)
  <2>1. /\ DecodeItem(m, t, v, r) = DecodeLeaf(m, t, v, r)
        /\ DecodeEntry(m, t, v, r) = DecodeLeaf(m, t, v, r)
        /\ DecodeField(m, t, v, r) = DecodeLeaf(m, t, v, r)
    BY <1>1 DEF DecodeItem, DecodeEntry, DecodeField, DecodePart, Leaf
  <2> QED BY <1>1, <2>1, LeafValues
<1>2. ASSUME NEW v, NEW m, NEW t, NEW r, m.kind = "array", Leaf(m.elem)
      PROVE  /\ DecodeItem(m, t, v, r) = [i \in DOMAIN v.items |-> Value(v.items[i], m.elem)]
             /\ DecodeEntry(m, t, v, r) = [i \in DOMAIN v.items |-> Value(v.items[i], m.elem)]
             /\ DecodeField(m, t, v, r) = [i \in DOMAIN v.items |-> Value(v.items[i], m.elem)]
  <2> DEFINE o(i) == IF r /\ i \in DOMAIN t THEN t[i] ELSE Zero(m.elem)
  <2>1. /\ DecodeItem(m, t, v, r) =
              [i \in DOMAIN v.items |-> DecodeLeaf(m.elem, o(i), v.items[i], r)]
        /\ DecodeEntry(m, t, v, r) =
              [i \in DOMAIN v.items |-> DecodeItem(m.elem, o(i), v.items[i], r)]
        /\ DecodeField(m, t, v, r) =
              [i \in DOMAIN v.items |-> DecodeEntry(m.elem, o(i), v.items[i], r)]
    BY <1>2 DEF DecodeItem, DecodeEntry, DecodeField, DecodePart
  <2> HIDE DEF o
  <2>2. \A e, x : /\ DecodeLeaf(m.elem, x, e, r) = Value(e, m.elem)
                  /\ DecodeItem(m.elem, x, e, r) = Value(e, m.elem)
                  /\ DecodeEntry(m.elem, x, e, r) = Value(e, m.elem)
    BY <1>1, <1>2, LeafValues
  <2> QED BY <2>1, <2>2
<1>3. ASSUME NEW v, NEW m, NEW t, NEW r, Simple(m)
      PROVE  /\ DecodeItem(m, t, v, r) = Value(v, m)
             /\ DecodeEntry(m, t, v, r) = Value(v, m)
             /\ DecodeField(m, t, v, r) = Value(v, m)
  <2>1. CASE Leaf(m)
    BY <1>1, <2>1
  <2>2. CASE m.kind = "array" /\ Leaf(m.elem)
    <3>1. Value(v, m) = [i \in DOMAIN v.items |-> Value(v.items[i], m.elem)]
      BY <2>2, LeafValues DEF Value
    <3> QED BY <1>2, <2>2, <3>1
  <2> QED BY <1>3, <2>1, <2>2 DEF Simple, Leaf
<1>4. ASSUME NEW v, NEW m, NEW t, NEW r, Flat(m)
      PROVE  /\ DecodeEntry(m, t, v, r) = FlatOf(v, m, t)
             /\ DecodeField(m, t, v, r) = FlatOf(v, m, t)
  <2>1. /\ DecodeEntry(m, t, v, r) =
              [f \in DOMAIN m.fields |->
                  IF f \in Entries(v) THEN DecodeItem(m.fields[f].model, t[f], v.entries[f], r)
                                      ELSE t[f]]
        /\ DecodeField(m, t, v, r) =
              [f \in DOMAIN m.fields |->
                  IF f \in Entries(v) THEN DecodeEntry(m.fields[f].model, t[f], v.entries[f], r)
                                      ELSE t[f]]
    BY <1>4 DEF DecodeEntry, DecodeField, DecodePart, Flat
  <2>2. \A f \in DOMAIN m.fields : Simple(m.fields[f].model)
    BY <1>4 DEF Flat
  <2> QED BY <1>3, <2>1, <2>2 DEF FlatOf
<1> QED BY <1>3, <1>4

(* The network is decoded over its defaults, the ports in it too.          *)
LEMMA DecodeNetwork ==
    ASSUME NEW v, NEW reuse
    PROVE  DecodeField(NetworkModel, Default.network, v, reuse) = NetworkOf(v)
<1>1. DecodeField(NetworkModel, Default.network, v, reuse) =
          [f \in {"mode", "ports"} |->
              IF f \in Entries(v)
              THEN DecodeEntry(NetworkModel.fields[f].model, Default.network[f],
                               v.entries[f], reuse)
              ELSE Default.network[f]]
  BY NetworkSchema DEF DecodeField, DecodePart
<1>2. \A t : DecodeEntry(NetworkModel.fields["mode"].model, t, v.entries["mode"], reuse)
                = Value(v.entries["mode"], TextOf("text"))
  <2>1. NetworkModel.fields["mode"].model = TextOf("text") /\ Simple(TextOf("text"))
    BY NetworkSchema, SimpleTypes
  <2> QED BY <2>1, DecodeLevels
<1>3. \A t : DecodeEntry(NetworkModel.fields["ports"].model, t, v.entries["ports"], reuse)
                = FlatOf(v.entries["ports"], PortsModel, t)
  <2>1. NetworkModel.fields["ports"].model = PortsModel /\ Flat(PortsModel)
    BY NetworkSchema, FlatTables
  <2> QED BY <2>1, DecodeLevels
<1> QED BY <1>1, <1>2, <1>3 DEF NetworkOf

(* The environment is decoded over an empty one, so no default is left in  *)
(* it.                                                                     *)
LEMMA DecodeEnvironment ==
    ASSUME NEW v, NEW reuse
    PROVE  DecodeField(EnvModel, <<>>, v, reuse) = EnvOf(v)
<1>1. EnvModel.kind = "map" /\ EnvModel.elem = TextOf("EnvValue") /\ Simple(TextOf("EnvValue"))
  BY Schema, SimpleTypes DEF EnvModel
<1>2. DecodeField(EnvModel, <<>>, v, reuse) =
          [n \in Entries(v) |-> DecodeEntry(EnvModel.elem, "", v.entries[n], reuse)]
  <2>1. Entries(v) \cup DOMAIN <<>> = Entries(v)
    OBVIOUS
  <2> QED BY <1>1, <2>1 DEF DecodeField, DecodePart
<1>3. \A e : DecodeEntry(EnvModel.elem, "", e, reuse) = Value(e, TextOf("EnvValue"))
  BY <1>1, DecodeLevels
<1> QED BY <1>2, <1>3 DEF EnvOf

(* A mount is decoded over the defaults, an earlier entry or an empty one: *)
(* a field it leaves out may have any value.                               *)
LEMMA DecodeMounts ==
    ASSUME NEW v, NEW reuse, NEW target
    PROVE  LET D == DecodeField(ListOf(MountModel), target, v, reuse)
           IN /\ D = [i \in DOMAIN v.items |-> D[i]]
              /\ \A i \in DOMAIN v.items : \E t : D[i] = FlatOf(v.items[i], MountModel, t)
<1>1. \A t, w : DecodeEntry(MountModel, t, w, reuse) = FlatOf(w, MountModel, t)
  BY FlatTables, DecodeLevels
<1>2. DecodeField(ListOf(MountModel), target, v, reuse) =
          [i \in DOMAIN v.items |->
              DecodeEntry(MountModel,
                  IF reuse /\ i \in DOMAIN target THEN target[i] ELSE Zero(MountModel),
                  v.items[i], reuse)]
  BY Schema DEF DecodeField, DecodePart
<1> QED BY <1>1, <1>2

(* Entry defaults change nothing in tables whose fields have no default,   *)
LEMMA TagsKept ==
    /\ \A m, c, v : Flat(m) => ApplyTable(m, c, v) = ApplyTags(m, c, v)
    /\ \A m, w, t, v : NoDefaults(m) => ApplyTags(m, FlatOf(w, m, t), v) = FlatOf(w, m, t)
<1>1. ASSUME NEW m, NEW c, NEW v, Flat(m)
      PROVE  ApplyTable(m, c, v) = ApplyTags(m, c, v)
  <2>1. \A f \in DOMAIN m.fields :
          m.fields[f].model.kind # "table" /\ ~IsTableArray(m.fields[f].model)
    BY <1>1 DEF Flat, Simple, Leaf, IsTableArray
  <2>2. ApplyTable(m, c, v) =
            [f \in DOMAIN m.fields |->
                CASE f \notin Entries(v) -> TagDefault(m.fields[f], c[f])
                  [] f \in Entries(v) /\ m.fields[f].model.kind = "table" ->
                        ApplyTags(m.fields[f].model, c[f], v.entries[f])
                  [] f \in Entries(v) /\ IsTableArray(m.fields[f].model) ->
                        [i \in DOMAIN c[f] |->
                            ApplyTags(m.fields[f].model.elem, c[f][i], v.entries[f].items[i])]
                  [] OTHER -> c[f]]
    BY DEF ApplyTable, ApplyPart
  <2> QED BY <2>1, <2>2 DEF ApplyTags
<1>2. ASSUME NEW m, NEW w, NEW t, NEW v, NoDefaults(m)
      PROVE  ApplyTags(m, FlatOf(w, m, t), v) = FlatOf(w, m, t)
  <2> DEFINE c == FlatOf(w, m, t)
  <2>1. c = [f \in DOMAIN m.fields |-> c[f]]
    BY DEF FlatOf
  <2> HIDE DEF c
  <2>2. ApplyTags(m, c, v) = c
    BY <1>2, <2>1 DEF ApplyTags, TagDefault, NoDefaults
  <2> QED BY <2>2 DEF c
<1> QED BY <1>1, <1>2

(* nor in the network and the ports in it,                                 *)
LEMMA NetworkTagged ==
    ASSUME NEW v
    PROVE  ApplyTable(NetworkModel, NetworkOf(v), v) = NetworkOf(v)
<1> DEFINE N == NetworkOf(v)
           m == NetworkModel
<1>1. N = [f \in {"mode", "ports"} |-> N[f]]
  BY DEF NetworkOf
<1>2. "ports" \in Entries(v) => N["ports"] = FlatOf(v.entries["ports"], PortsModel, Default.network.ports)
  BY DEF NetworkOf
<1> HIDE DEF N
<1>3. ApplyTable(m, N, v) =
          [f \in {"mode", "ports"} |->
              CASE f \notin Entries(v) -> TagDefault(m.fields[f], N[f])
                [] f \in Entries(v) /\ m.fields[f].model.kind = "table" ->
                      ApplyTags(m.fields[f].model, N[f], v.entries[f])
                [] f \in Entries(v) /\ IsTableArray(m.fields[f].model) ->
                      [i \in DOMAIN N[f] |->
                          ApplyTags(m.fields[f].model.elem, N[f][i], v.entries[f].items[i])]
                [] OTHER -> N[f]]
  BY NetworkSchema DEF ApplyTable, ApplyPart
<1>4. /\ m.fields["mode"].model.kind = "string" /\ m.fields["ports"].model = PortsModel
      /\ PortsModel.kind = "table" /\ NoDefaults(PortsModel)
  <2>1. m.fields["mode"].model = TextOf("text") /\ m.fields["ports"].model = PortsModel
    BY NetworkSchema
  <2>2. TextOf("text").kind = "string"
    BY Schema
  <2> QED BY <2>1, <2>2, PortsSchema, FlatTables
<1>5. \A f \in {"mode", "ports"} : TagDefault(m.fields[f], N[f]) = N[f]
  BY NetworkSchema DEF TagDefault, Untagged
<1>6. "ports" \in Entries(v) => ApplyTags(PortsModel, N["ports"], v.entries["ports"]) = N["ports"]
  BY <1>2, <1>4, TagsKept
<1> HIDE DEF m
<1>7. ApplyTable(m, N, v) = [f \in {"mode", "ports"} |-> N[f]]
  BY <1>3, <1>4, <1>5, <1>6 DEF IsTableArray
<1> QED BY <1>1, <1>7 DEF N, m

(* and give a mount its own mode, whatever it was decoded over.            *)
LEMMA MountTagged ==
    ASSUME NEW v, NEW t, {"source", "target"} \subseteq Entries(v)
    PROVE  ApplyTable(MountModel, FlatOf(v, MountModel, t), v) = MountOf(v)
<1> DEFINE R == FlatOf(v, MountModel, t)
           A == ApplyTable(MountModel, R, v)
           m == MountModel
<1>1. A = ApplyTags(m, R, v)
  BY FlatTables, TagsKept
<1>2. \A f \in {"mode", "source", "target"} :
        R[f] = IF f \in Entries(v) THEN Value(v.entries[f], m.fields[f].model) ELSE t[f]
  BY MountSchema DEF FlatOf
<1>3. MountOf(v) =
        [f \in {"mode", "source", "target"} |->
            IF f \in Entries(v) THEN Value(v.entries[f], m.fields[f].model) ELSE "rw"]
  BY MountSchema DEF MountOf, FlatOf, MountDefaults
<1>4. m.fields["mode"].default = "rw" /\ DOMAIN m.fields = {"mode", "source", "target"}
  BY MountSchema
<1> HIDE DEF m, R, A
<1>5. A = [f \in {"mode", "source", "target"} |->
              IF f \in Entries(v) THEN R[f] ELSE TagDefault(m.fields[f], R[f])]
  BY <1>1, <1>4 DEF ApplyTags
<1>6. A = MountOf(v)
  BY <1>2, <1>3, <1>4, <1>5 DEF TagDefault
<1> QED BY <1>6 DEF A, R, m

Base(d) == IF "env" \in Entries(d) THEN [Default EXCEPT !.env = <<>>] ELSE Default

(* What a document is decoded over.                                        *)
LEMMA Bases ==
    ASSUME NEW d
    PROVE  /\ \A f \in ConfigFields \ {"env"} : Base(d)[f] = Default[f]
           /\ Base(d)["env"] = IF "env" \in Entries(d) THEN <<>> ELSE Default.env
<1>1. DOMAIN Default = ConfigFields
  BY DEF Default, ConfigFields, FlatFields
<1>2. "env" \in ConfigFields
  BY DEF ConfigFields
<1> QED BY <1>1, <1>2 DEF Base

(* An accepted document is decoded to the configuration ConfigOf reads off *)
(* it, whether or not the decoder reuses what an entry held before.        *)
LEMMA DecodedPlain ==
    ASSUME NEW d, Accepted(d), NEW reuse
    PROVE  ApplyEntryDefaults(ConfigModel, Decode(ConfigModel, Base(d), d, reuse), d) = ConfigOf(d)
<1> DEFINE D == Decode(ConfigModel, Base(d), d, reuse)
           A == ApplyEntryDefaults(ConfigModel, D, d)
<1>1. D = [f \in ConfigFields |->
              IF f \in Entries(d)
              THEN DecodeField(TypeOf(f), Base(d)[f], d.entries[f], reuse)
              ELSE Base(d)[f]]
  BY ConfigSchema DEF Decode, DecodePart, TypeOf
<1>2. \A f \in ConfigFields :
          D[f] = IF f \in Entries(d)
                 THEN DecodeField(TypeOf(f), Base(d)[f], d.entries[f], reuse)
                 ELSE Base(d)[f]
  <2> HIDE DEF D
  <2> QED BY <1>1
<1> HIDE DEF D
<1>3. A = [f \in ConfigFields |->
              CASE f \notin Entries(d) -> TagDefault(ConfigModel.fields[f], D[f])
                [] f \in Entries(d) /\ TypeOf(f).kind = "table" ->
                      ApplyTable(TypeOf(f), D[f], d.entries[f])
                [] f \in Entries(d) /\ IsTableArray(TypeOf(f)) ->
                      [i \in DOMAIN D[f] |->
                          ApplyTable(TypeOf(f).elem, D[f][i], d.entries[f].items[i])]
                [] OTHER -> D[f]]
  BY ConfigSchema DEF ApplyEntryDefaults, ApplyPart, TypeOf
<1>4. \A f \in ConfigFields : TagDefault(ConfigModel.fields[f], D[f]) = D[f]
  BY ConfigSchema DEF TagDefault, Untagged
<1>5. A = [f \in ConfigFields |-> A[f]]
  <2> HIDE DEF A
  <2> QED BY <1>3
<1>6. \A f \in ConfigFields : A[f] =
          CASE f \notin Entries(d) -> D[f]
            [] f \in Entries(d) /\ TypeOf(f).kind = "table" ->
                  ApplyTable(TypeOf(f), D[f], d.entries[f])
            [] f \in Entries(d) /\ IsTableArray(TypeOf(f)) ->
                  [i \in DOMAIN D[f] |->
                      ApplyTable(TypeOf(f).elem, D[f][i], d.entries[f].items[i])]
            [] OTHER -> D[f]
  <2> HIDE DEF A
  <2> QED BY <1>3, <1>4
<1> HIDE DEF A
<1>7. ASSUME NEW f \in ConfigFields, f \notin Entries(d)
      PROVE  A[f] = Default[f]
  <2>1. A[f] = Base(d)[f]
    BY <1>2, <1>6, <1>7
  <2> QED BY <1>7, <2>1, Bases
<1>8. ASSUME NEW f \in FlatFields, f \in Entries(d)
      PROVE  A[f] = FlatOf(d.entries[f], TypeOf(f), Default[f])
  <2> DEFINE v == d.entries[f]
             m == TypeOf(f)
  <2>1. f \in ConfigFields \ {"env"} /\ Flat(m) /\ NoDefaults(m)
    BY <1>8, FlatTables DEF ConfigFields, FlatFields
  <2>2. D[f] = FlatOf(v, m, Default[f])
    BY <1>2, <1>8, <2>1, Bases, DecodeLevels
  <2>3. A[f] = ApplyTable(m, D[f], v)
    <3>1. f \in ConfigFields /\ TypeOf(f).kind = "table"
      BY <2>1 DEF Flat
    <3> QED BY <1>6, <1>8, <3>1 DEF IsTableArray
  <2> HIDE DEF m, v
  <2> QED BY <2>1, <2>2, <2>3, TagsKept DEF m, v
<1>9. ASSUME NEW f \in {"schema_version", "name"}, f \in Entries(d)
      PROVE  A[f] = Value(d.entries[f], TypeOf(f))
  <2>1. f \in ConfigFields /\ Leaf(TypeOf(f)) /\ Simple(TypeOf(f))
    BY <1>9, ConfigSchema, SimpleTypes DEF ConfigFields
  <2>2. TypeOf(f).kind # "table" /\ ~IsTableArray(TypeOf(f))
    BY <2>1 DEF Leaf, IsTableArray
  <2>3. A[f] = D[f]
    BY <1>6, <1>9, <2>1, <2>2
  <2> QED BY <1>2, <1>9, <2>1, <2>3, DecodeLevels
<1>10. ASSUME "network" \in Entries(d)
       PROVE  A["network"] = NetworkOf(d.entries["network"])
  <2> DEFINE v == d.entries["network"]
  <2>1. /\ "network" \in ConfigFields \ {"env"} /\ TypeOf("network") = NetworkModel
        /\ NetworkModel.kind = "table"
    BY ConfigSchema, NetworkSchema DEF ConfigFields
  <2>2. D["network"] = NetworkOf(v)
    <3>1. Base(d)["network"] = Default.network
      BY <2>1, Bases
    <3> QED BY <1>2, <1>10, <2>1, <3>1, DecodeNetwork
  <2>3. A["network"] = ApplyTable(NetworkModel, D["network"], v)
    <3>1. /\ "network" \in ConfigFields /\ TypeOf("network").kind = "table"
          /\ TypeOf("network") = NetworkModel
      BY <2>1
    <3> HIDE DEF v
    <3>2. A["network"] = ApplyTable(TypeOf("network"), D["network"], d.entries["network"])
      BY <1>6, <1>10, <3>1 DEF IsTableArray
    <3> QED BY <3>1, <3>2 DEF v
  <2> QED BY <2>2, <2>3, NetworkTagged
<1>11. ASSUME "env" \in Entries(d)
       PROVE  A["env"] = EnvOf(d.entries["env"])
  <2>1. "env" \in ConfigFields /\ TypeOf("env") = EnvModel /\ EnvModel.kind = "map"
    BY ConfigSchema, Schema DEF ConfigFields, EnvModel
  <2>2. A["env"] = D["env"]
    BY <1>6, <1>11, <2>1 DEF IsTableArray
  <2> QED BY <1>2, <1>11, <2>1, <2>2, Bases, DecodeEnvironment
<1>12. ASSUME "mounts" \in Entries(d)
       PROVE  A["mounts"] = MountsOf(d.entries["mounts"])
  <2> DEFINE v == d.entries["mounts"]
             w == D["mounts"]
  <2>1. /\ "mounts" \in ConfigFields /\ TypeOf("mounts") = ListOf(MountModel)
        /\ ListOf(MountModel).kind = "array" /\ ListOf(MountModel).elem = MountModel
        /\ MountModel.kind = "table"
    BY ConfigSchema, Schema, MountSchema DEF ConfigFields
  <2>2. w = DecodeField(ListOf(MountModel), Base(d)["mounts"], v, reuse)
    BY <1>2, <1>12, <2>1
  <2>3. /\ w = [i \in DOMAIN v.items |-> w[i]]
        /\ \A i \in DOMAIN v.items : \E t : w[i] = FlatOf(v.items[i], MountModel, t)
    BY <2>2, DecodeMounts
  <2>4. A["mounts"] = [i \in DOMAIN w |-> ApplyTable(MountModel, w[i], v.items[i])]
    BY <1>6, <1>12, <2>1 DEF IsTableArray
  <2>5. \A i \in DOMAIN v.items : {"source", "target"} \subseteq Entries(v.items[i])
    <3>1. MountsAccepted(v)
      BY <1>12, <2>1, CheckParts DEF Accepted
    <3> QED BY <3>1, MountSchema DEF MountsAccepted, FlatAccepted
  <2>6. \A i \in DOMAIN v.items : ApplyTable(MountModel, w[i], v.items[i]) = MountOf(v.items[i])
    BY <2>3, <2>5, MountTagged
  <2>7. DOMAIN w = DOMAIN v.items
    BY <2>3
  <2> HIDE DEF v, w
  <2>8. A["mounts"] = [i \in DOMAIN v.items |-> MountOf(v.items[i])]
    BY <2>4, <2>6, <2>7
  <2> QED BY <2>8 DEF MountsOf, v
<1>13. \A f \in ConfigFields : A[f] = ConfigOf(d)[f]
  <2> SUFFICES ASSUME NEW f \in ConfigFields
               PROVE  A[f] = ConfigOf(d)[f]
    OBVIOUS
  <2>1. ConfigOf(d)[f] = IF f \in Entries(d) THEN FieldOf(f, d.entries[f]) ELSE Default[f]
    BY DEF ConfigOf
  <2>2. CASE f \notin Entries(d)
    BY <1>7, <2>1, <2>2
  <2>3. CASE f \in Entries(d)
    <3>1. f \in FlatFields \/ f \in {"schema_version", "name"} \/ f = "network" \/ f = "env"
          \/ f = "mounts"
      BY DEF ConfigFields
    <3>2. A[f] = FieldOf(f, d.entries[f])
      <4>1. CASE f \in FlatFields
        <5>1. f \notin {"schema_version", "name"}
          BY <4>1 DEF FlatFields
        <5>2. FieldOf(f, d.entries[f]) = FlatOf(d.entries[f], TypeOf(f), Default[f])
          BY <4>1, <5>1 DEF FieldOf, FlatFields
        <5> QED BY <1>8, <2>3, <4>1, <5>2
      <4>2. CASE f \in {"schema_version", "name"}
        <5>1. f \notin FlatFields /\ f # "network" /\ f # "env"
          BY <4>2 DEF FlatFields
        <5> QED BY <1>9, <2>3, <4>2, <5>1 DEF FieldOf
      <4>3. CASE f = "network"
        <5>1. f \notin FlatFields /\ f \notin {"schema_version", "name"}
          BY <4>3 DEF FlatFields
        <5> QED BY <1>10, <2>3, <4>3, <5>1 DEF FieldOf
      <4>4. CASE f = "env"
        <5>1. f \notin FlatFields /\ f \notin {"schema_version", "name"}
          BY <4>4 DEF FlatFields
        <5> QED BY <1>11, <2>3, <4>4, <5>1 DEF FieldOf
      <4>5. CASE f = "mounts"
        <5>1. f \notin FlatFields /\ f \notin {"schema_version", "name"}
          BY <4>5 DEF FlatFields
        <5> QED BY <1>12, <2>3, <4>5, <5>1 DEF FieldOf
      <4> QED BY <3>1, <4>1, <4>2, <4>3, <4>4, <4>5
    <3> QED BY <2>1, <2>3, <3>2
  <2> QED BY <2>2, <2>3
<1>14. A = ConfigOf(d)
  <2>1. ConfigOf(d) = [f \in ConfigFields |-> ConfigOf(d)[f]]
    BY DEF ConfigOf
  <2> QED BY <1>5, <1>13, <2>1
<1> QED BY <1>14 DEF A, D

-----------------------------------------------------------------------------
(* Clean paths.                                                            *)

Unclean == {"", "."}
CleanOf(c) == IF c \in Unclean THEN <<>> ELSE <<c>>

(* Cleaning goes through a path component by component.                    *)
LEMMA CleanedSteps ==
    ASSUME NEW C
    PROVE  /\ Cleaned(<<>>) = <<>>
           /\ \A p \in Seq(C), c \in C : Cleaned(Append(p, c)) = Cleaned(p) \o CleanOf(c)
<1> DEFINE m == [c \in C |-> CleanOf(c)]
           D == Seq(C)
<1>1. ASSUME NEW c \in C
      PROVE  CleanOf(c) \in D
  <2>1. <<c>> \in Seq(C) /\ <<>> \in Seq(C)
    OBVIOUS
  <2> QED BY <2>1 DEF CleanOf
<1>2. m \in [C -> D]
  <2> HIDE DEF D
  <2> QED BY <1>1
<1>3. ASSUME NEW v \in Seq(C)
      PROVE  Cleaned(v) = FlattenSeq(Mapped(m, v))
  <2>1. \A i \in DOMAIN v : v[i] \in C
    OBVIOUS
  <2>2. Mapped(m, v) = [i \in DOMAIN v |-> IF v[i] \in {"", "."} THEN <<>> ELSE <<v[i]>>]
    BY <2>1 DEF Mapped, CleanOf, Unclean
  <2> QED BY <2>2, Zenon DEF Cleaned
<1>4. Cleaned(<<>>) = <<>>
  <2>1. Mapped(m, <<>>) = <<>>
    BY DEF Mapped
  <2>2. <<>> \in Seq(C)
    OBVIOUS
  <2>3. Cleaned(<<>>) = FlattenSeq(Mapped(m, <<>>))
    BY <1>3, <2>2, Zenon
  <2> QED BY <2>1, <2>3, FlattenAppend, Zenon
<1>5. ASSUME NEW v \in Seq(C)
      PROVE  Mapped(m, v) \in Seq(Seq(C))
  <2>1. Mapped(m, v) \in Seq(D)
    <3> HIDE DEF m, D
    <3> QED BY <1>2, MappedFacts
  <2> QED BY <2>1
<1>6. ASSUME NEW v \in Seq(C), NEW c \in C
      PROVE  Cleaned(Append(v, c)) = Cleaned(v) \o CleanOf(c)
  <2> DEFINE mv == Mapped(m, v)
  <2>1. Append(v, c) \in Seq(C)
    BY AppendProperties
  <2>2. Mapped(m, Append(v, c)) = Append(mv, m[c])
    <3> HIDE DEF m, D
    <3> QED BY <1>2, MappedAppend
  <2>3. m[c] = CleanOf(c) /\ m[c] \in Seq(C)
    BY <1>1
  <2>4. FlattenSeq(Append(mv, m[c])) = FlattenSeq(mv) \o m[c]
    <3>1. mv \in Seq(Seq(C))
      BY <1>5
    <3> HIDE DEF m, mv
    <3> QED BY <2>3, <3>1, FlattenAppend
  <2>5. Cleaned(Append(v, c)) = FlattenSeq(Mapped(m, Append(v, c)))
    BY <1>3, <2>1, Zenon
  <2>6. Cleaned(v) = FlattenSeq(mv)
    BY <1>3
  <2> HIDE DEF m, mv
  <2> QED BY <2>2, <2>3, <2>4, <2>5, <2>6, Zenon
<1> QED BY <1>4, <1>6

(* Cleaning leaves clean components, and leaves a clean path alone.        *)
LEMMA CleanedFacts ==
    ASSUME NEW C
    PROVE  /\ \A p \in Seq(C) : Cleaned(p) \in Seq(C \ Unclean)
           /\ \A p \in Seq(C \ Unclean) : Cleaned(p) = p
<1> DEFINE D == C \ Unclean
           S == {p \in Seq(C) : Cleaned(p) \in Seq(D)}
           T == {p \in Seq(D) : Cleaned(p) = p}
<1>1. <<>> \in S /\ <<>> \in T
  BY CleanedSteps, EmptySeq
<1>2. ASSUME NEW p \in Seq(C), NEW c \in C, p \in S
      PROVE  Append(p, c) \in S
  <2>1. Append(p, c) \in Seq(C)
    BY AppendProperties
  <2>2. CleanOf(c) \in Seq(D)
    <3>1. <<>> \in Seq(D) /\ (c \in D => <<c>> \in Seq(D))
      <4> HIDE DEF D
      <4> QED OBVIOUS
    <3> QED BY <3>1 DEF CleanOf
  <2>3. Cleaned(p) \o CleanOf(c) \in Seq(D)
    <3> HIDE DEF D
    <3> QED BY <1>2, <2>2, ConcatProperties
  <2> HIDE DEF D
  <2> QED BY <2>1, <2>3, CleanedSteps
<1>3. ASSUME NEW p \in Seq(D), NEW c \in D, p \in T
      PROVE  Append(p, c) \in T
  <2>1. Append(p, c) \in Seq(D) /\ Append(p, c) = p \o <<c>>
    <3> HIDE DEF D
    <3> QED BY AppendProperties, AppendIsConcat
  <2>2. CleanOf(c) = <<c>>
    BY DEF CleanOf
  <2>3. Cleaned(Append(p, c)) = Cleaned(p) \o CleanOf(c)
    <3> HIDE DEF D
    <3> QED BY CleanedSteps
  <2> QED BY <1>3, <2>1, <2>2, <2>3
<1>4. \A p \in Seq(C) : p \in S
  <2> HIDE DEF S
  <2> QED BY <1>1, <1>2, SequenceInduction
<1>5. \A p \in Seq(D) : p \in T
  <2> HIDE DEF T, D
  <2> QED BY <1>1, <1>3, SequenceInduction
<1> QED BY <1>4, <1>5

(* A path that is accepted is accepted when it is clean.                   *)
LEMMA CleanedAccepted ==
    ASSUME NEW C, NEW p \in Seq(C)
    PROVE  /\ Cleaned(p) \in Seq(C) /\ Cleaned(Cleaned(p)) = Cleaned(p)
           /\ NewGuestPath(p) => NewGuestPath(Cleaned(p))
           /\ CheckedGuestTarget(p) => CheckedGuestTarget(Cleaned(p))
<1> DEFINE q == Cleaned(p)
           D == C \ {".."}
<1>1. q \in Seq(C \ Unclean)
  BY CleanedFacts
<1>2. q \in Seq(C) /\ Cleaned(q) = q
  <2>1. \A s \in Seq(C \ Unclean) : s \in Seq(C)
    BY SeqMonotonic
  <2> HIDE DEF q
  <2> QED BY <1>1, <2>1, CleanedFacts
<1>3. ASSUME NewGuestPath(p)
      PROVE  NewGuestPath(q)
  <2>1. \A i \in DOMAIN p : p[i] \in D
    <3>1. \A i \in DOMAIN p : p[i] \in C
      OBVIOUS
    <3>2. \A i \in DOMAIN p : p[i] # ".."
      BY <1>3, Zenon DEF NewGuestPath
    <3> QED BY <3>1, <3>2
  <2>2. p \in Seq(D)
    <3> HIDE DEF D
    <3> QED BY <2>1
  <2>3. q \in Seq(D \ Unclean)
    <3> HIDE DEF D
    <3> QED BY <2>2, CleanedFacts
  <2>4. q # <<>>
    BY <1>3 DEF NewGuestPath
  <2>5. \A i \in DOMAIN q : q[i] # ".." /\ q[i] # ""
    <3>1. \A i \in DOMAIN q : q[i] \in D \ Unclean
      <4> HIDE DEF D, q
      <4> QED BY <2>3
    <3> HIDE DEF q
    <3> QED BY <3>1 DEF Unclean
  <2>6. Len(q) > 1 => 1 \in DOMAIN q
    <3> HIDE DEF q
    <3> QED BY <1>2
  <2> HIDE DEF q
  <2> QED BY <1>2, <2>4, <2>5, <2>6 DEF NewGuestPath
<1>4. CheckedGuestTarget(p) => CheckedGuestTarget(q)
  <2> HIDE DEF q
  <2> QED BY <1>2, <1>3 DEF CheckedGuestTarget, q
<1> QED BY <1>2, <1>3, <1>4

-----------------------------------------------------------------------------
(* What an accepted document stands for.                                   *)

LeafMeant(v, m) ==
    CASE m.kind = "size" -> v.text * GiB
      [] m.kind = "string" -> IF m.type = "GuestPath" THEN Cleaned(v.text) ELSE v.text
      [] m.kind = "bool" -> v.truth
      [] OTHER -> v.number

Meant(v, m) ==
    IF m.kind = "array" THEN [i \in DOMAIN v.items |-> LeafMeant(v.items[i], m.elem)]
                        ELSE LeafMeant(v, m)

FlatMeant(v, m, was) ==
    [f \in DOMAIN m.fields |->
        IF f \in Entries(v) THEN Meant(v.entries[f], m.fields[f].model) ELSE was[f]]

\* The value that is decoded is the one that is meant.
Exact(v, m) == Meant(v, m) = Value(v, m)
FlatExact(v, m) ==
    \A f \in DOMAIN m.fields : f \in Entries(v) => Exact(v.entries[f], m.fields[f].model)

(* A value means the same wherever it is deep enough, and whatever the     *)
(* defaults are; a table what it supplies, over what was there.            *)
LEMMA MeaningLevels ==
    /\ \A v, m, t : Simple(m) => /\ MeaningItem(m, t, v) = Meant(v, m)
                                 /\ MeaningEntry(m, t, v) = Meant(v, m)
                                 /\ MeaningField(m, t, v) = Meant(v, m)
    /\ \A v, m, t : Flat(m) /\ NoDefaults(m) =>
            /\ MeaningEntry(m, t, v) = FlatMeant(v, m, t)
            /\ MeaningField(m, t, v) = FlatMeant(v, m, t)
<1>1. \A v, m, t : MeaningLeaf(m, t, v) = LeafMeant(v, m)
  BY DEF MeaningLeaf, LeafMeant
<1>2. ASSUME NEW v, NEW m, NEW t, Leaf(m)
      PROVE  /\ MeaningItem(m, t, v) = LeafMeant(v, m)
             /\ MeaningEntry(m, t, v) = LeafMeant(v, m)
             /\ MeaningField(m, t, v) = LeafMeant(v, m) /\ Meant(v, m) = LeafMeant(v, m)
  <2>1. m.kind # "table" /\ m.kind # "map" /\ m.kind # "array"
    BY <1>2 DEF Leaf
  <2>2. /\ MeaningItem(m, t, v) = MeaningLeaf(m, t, v)
        /\ MeaningEntry(m, t, v) = MeaningLeaf(m, t, v)
        /\ MeaningField(m, t, v) = MeaningLeaf(m, t, v)
    BY <2>1 DEF MeaningItem, MeaningEntry, MeaningField, MeaningPart
  <2> QED BY <1>1, <2>1, <2>2 DEF Meant
<1>3. ASSUME NEW v, NEW m, NEW t, m.kind = "array", Leaf(m.elem)
      PROVE  /\ MeaningItem(m, t, v) = Meant(v, m)
             /\ MeaningEntry(m, t, v) = Meant(v, m)
             /\ MeaningField(m, t, v) = Meant(v, m)
  <2> DEFINE z == Zero(m.elem)
  <2>1. /\ MeaningItem(m, t, v) = [i \in DOMAIN v.items |-> MeaningLeaf(m.elem, z, v.items[i])]
        /\ MeaningEntry(m, t, v) = [i \in DOMAIN v.items |-> MeaningItem(m.elem, z, v.items[i])]
        /\ MeaningField(m, t, v) = [i \in DOMAIN v.items |-> MeaningEntry(m.elem, z, v.items[i])]
    BY <1>3 DEF MeaningItem, MeaningEntry, MeaningField, MeaningPart
  <2> HIDE DEF z
  <2>2. Meant(v, m) = [i \in DOMAIN v.items |-> LeafMeant(v.items[i], m.elem)]
    BY <1>3 DEF Meant
  <2>3. \A e : /\ MeaningLeaf(m.elem, z, e) = LeafMeant(e, m.elem)
               /\ MeaningItem(m.elem, z, e) = LeafMeant(e, m.elem)
               /\ MeaningEntry(m.elem, z, e) = LeafMeant(e, m.elem)
    BY <1>1, <1>2, <1>3
  <2> QED BY <2>1, <2>2, <2>3
<1>4. ASSUME NEW v, NEW m, NEW t, Simple(m)
      PROVE  /\ MeaningItem(m, t, v) = Meant(v, m)
             /\ MeaningEntry(m, t, v) = Meant(v, m)
             /\ MeaningField(m, t, v) = Meant(v, m)
  <2>1. CASE Leaf(m)
    BY <1>2, <2>1
  <2>2. CASE m.kind = "array" /\ Leaf(m.elem)
    BY <1>3, <2>2
  <2> QED BY <1>4, <2>1, <2>2 DEF Simple, Leaf
<1>5. ASSUME NEW v, NEW m, NEW t, Flat(m), NoDefaults(m)
      PROVE  /\ MeaningEntry(m, t, v) = FlatMeant(v, m, t)
             /\ MeaningField(m, t, v) = FlatMeant(v, m, t)
  <2>1. /\ MeaningEntry(m, t, v) =
              [f \in DOMAIN m.fields |->
                  IF f \in Entries(v) THEN MeaningItem(m.fields[f].model, t[f], v.entries[f])
                                      ELSE t[f]]
        /\ MeaningField(m, t, v) =
              [f \in DOMAIN m.fields |->
                  IF f \in Entries(v) THEN MeaningEntry(m.fields[f].model, t[f], v.entries[f])
                                      ELSE t[f]]
    BY <1>5 DEF MeaningEntry, MeaningField, MeaningPart, Flat, NoDefaults
  <2>2. \A f \in DOMAIN m.fields : Simple(m.fields[f].model)
    BY <1>5 DEF Flat
  <2> QED BY <1>4, <2>1, <2>2 DEF FlatMeant
<1> QED BY <1>4, <1>5

(* Numbers, switches and texts are decoded to what they mean, and so are   *)
(* lists of them; the size that is accepted; a guest path means the clean  *)
(* one.                                                                    *)
LEMMA ExactValues ==
    /\ \A v : Exact(v, Number) /\ Exact(v, Bool) /\ Exact(v, ListOf(Number))
    /\ \A v, type : type # "GuestPath" =>
            Exact(v, TextOf(type)) /\ Exact(v, ListOf(TextOf(type)))
    /\ \A v : CheckItem(v, Size) /\ v.text \in Nat => Exact(v, Size)
    /\ \A v : Meant(v, TextOf("GuestPath")) = Cleaned(Value(v, TextOf("GuestPath")))
<1>1. \A v : /\ LeafMeant(v, Number) = LeafValue(v, Number)
             /\ LeafMeant(v, Bool) = LeafValue(v, Bool)
  BY Schema DEF LeafMeant, LeafValue
<1>2. ASSUME NEW v, NEW type
      PROVE  /\ type # "GuestPath" => LeafMeant(v, TextOf(type)) = LeafValue(v, TextOf(type))
             /\ type = "GuestPath" => LeafMeant(v, TextOf(type)) = Cleaned(LeafValue(v, TextOf(type)))
  <2>1. TextOf(type).kind = "string" /\ TextOf(type).type = type
    BY Schema
  <2> QED BY <2>1 DEF LeafMeant, LeafValue
<1>3. \A m : Leaf(m) => \A v : Meant(v, m) = LeafMeant(v, m) /\ Value(v, m) = LeafValue(v, m)
  BY DEF Leaf, Meant, Value
<1>4. ASSUME NEW m, \A v : LeafMeant(v, m) = LeafValue(v, m)
      PROVE  \A v : Exact(v, ListOf(m))
  <2>1. ListOf(m).kind = "array" /\ ListOf(m).elem = m
    BY Schema
  <2> QED BY <1>4, <2>1 DEF Exact, Meant, Value
<1>5. ASSUME NEW v, CheckItem(v, Size), v.text \in Nat
      PROVE  Exact(v, Size)
  <2>1. ParseByteSize(v.text).ok
    <3>1. CheckLeaf(v, Size)
      BY <1>5, SimpleTypes, CheckLevels
    <3> QED BY <3>1, Schema DEF CheckLeaf
  <2>2. ParseByteSize(v.text).size = v.text * GiB
    <3> DEFINE a == v.text
    <3>1. ParseByteSize(a) = IF a > 0 /\ a * GiB <= MaxInt
              THEN [ok |-> TRUE, size |-> a * GiB] ELSE [ok |-> FALSE, size |-> 0]
      BY <1>5, SizeParsed
    <3> HIDE DEF a
    <3> QED BY <2>1, <3>1 DEF a
  <2>3. LeafMeant(v, Size) = LeafValue(v, Size)
    BY <2>2, Schema DEF LeafMeant, LeafValue
  <2> QED BY <1>3, <2>3, SimpleTypes DEF Exact
<1>6. \A v : Exact(v, Number) /\ Exact(v, Bool) /\ Exact(v, ListOf(Number))
  BY <1>1, <1>3, <1>4, SimpleTypes DEF Exact
<1>7. ASSUME NEW type, type # "GuestPath"
      PROVE  \A v : Exact(v, TextOf(type)) /\ Exact(v, ListOf(TextOf(type)))
  <2>1. \A v : LeafMeant(v, TextOf(type)) = LeafValue(v, TextOf(type))
    BY <1>2, <1>7
  <2>2. Leaf(TextOf(type))
    BY SimpleTypes
  <2> QED BY <1>3, <1>4, <2>1, <2>2 DEF Exact
<1>8. \A v : Meant(v, TextOf("GuestPath")) = Cleaned(Value(v, TextOf("GuestPath")))
  <2>1. Leaf(TextOf("GuestPath"))
    BY SimpleTypes
  <2> QED BY <1>2, <1>3, <2>1
<1> QED BY <1>5, <1>6, <1>7, <1>8

(* What an exact table means is what it is decoded to.                     *)
LEMMA FlatMeans ==
    ASSUME NEW v, NEW m, NEW t, FlatExact(v, m)
    PROVE  FlatMeant(v, m, t) = FlatOf(v, m, t)
BY DEF FlatExact, Exact, FlatMeant, FlatOf

\* A table with these fields.
Fielded(r, S) == r = [f \in S |-> r[f]]

(* The defaults have the fields the schema has.                            *)
LEMMA DefaultShape ==
    /\ Fielded(Default, ConfigFields)
    /\ \A f \in FlatFields : Fielded(Default[f], DOMAIN TypeOf(f).fields)
    /\ Fielded(Default.network, {"mode", "ports"})
    /\ Fielded(Default.network.ports, {"tcp", "udp"})
<1>1. Fielded(Default, ConfigFields)
  BY DEF Fielded, Default, ConfigFields, FlatFields
<1>2. /\ Fielded(Default["user"], {"name", "home", "sudo"})
      /\ Fielded(Default["resources"], {"arch", "disk", "mem", "cpu"})
      /\ Fielded(Default["home"], {"root"}) /\ Fielded(Default["nixos"], {"modules"})
  BY DEF Fielded, Default
<1>3. \A f \in FlatFields : Fielded(Default[f], DOMAIN TypeOf(f).fields)
  <2>1. /\ DOMAIN TypeOf("user").fields = {"name", "home", "sudo"}
        /\ DOMAIN TypeOf("resources").fields = {"arch", "disk", "mem", "cpu"}
        /\ DOMAIN TypeOf("home").fields = {"root"}
        /\ DOMAIN TypeOf("nixos").fields = {"modules"}
    BY ConfigSchema, UserSchema, ResourcesSchema, HomeSchema
  <2> QED BY <1>2, <2>1 DEF FlatFields
<1>4. Fielded(Default.network, {"mode", "ports"}) /\ Fielded(Default.network.ports, {"tcp", "udp"})
  BY DEF Fielded, Default
<1> QED BY <1>1, <1>3, <1>4

CleanUser(user)     == [user EXCEPT !.home = Cleaned(@)]
CleanMount(mount)   == [mount EXCEPT !.target = Cleaned(@)]
CleanMounts(mounts) == [i \in DOMAIN mounts |-> CleanMount(mounts[i])]

(* Cleaning changes one field of a user and of a mount.                    *)
LEMMA CleanFields ==
    /\ \A u, S : Fielded(u, S) /\ "home" \in S =>
        CleanUser(u) = [f \in S |-> IF f = "home" THEN Cleaned(u[f]) ELSE u[f]]
    /\ \A u, S : Fielded(u, S) /\ "target" \in S =>
        CleanMount(u) = [f \in S |-> IF f = "target" THEN Cleaned(u[f]) ELSE u[f]]
<1>1. \A u, S : Fielded(u, S) => DOMAIN u = S
  BY DEF Fielded
<1>2. ASSUME NEW u, NEW S, Fielded(u, S), "home" \in S
      PROVE  CleanUser(u) = [f \in S |-> IF f = "home" THEN Cleaned(u[f]) ELSE u[f]]
  BY <1>1, <1>2 DEF CleanUser
<1>3. ASSUME NEW u, NEW S, Fielded(u, S), "target" \in S
      PROVE  CleanMount(u) = [f \in S |-> IF f = "target" THEN Cleaned(u[f]) ELSE u[f]]
  BY <1>1, <1>3 DEF CleanMount
<1> QED BY <1>2, <1>3

(* The tables of an accepted document are exact but for the user's home.   *)
LEMMA ExactTables ==
    /\ \A v : /\ FlatExact(v, HomeModel) /\ FlatExact(v, NixOSModel)
              /\ FlatExact(v, PortsModel)
    /\ \A v, t : FlatMeant(v, UserModel, t) =
          [f \in {"name", "home", "sudo"} |->
              IF f = "home" /\ f \in Entries(v) THEN Cleaned(FlatOf(v, UserModel, t)[f])
                                                ELSE FlatOf(v, UserModel, t)[f]]
<1>1. \A v : FlatExact(v, HomeModel)
  <2>1. \A v : Exact(v, TextOf("text"))
    BY ExactValues
  <2> QED BY <2>1, HomeSchema DEF FlatExact
<1>2. \A v : FlatExact(v, NixOSModel)
  <2>1. \A v : Exact(v, ListOf(TextOf("ModuleID")))
    BY ExactValues
  <2> QED BY <2>1, HomeSchema DEF FlatExact
<1>3. \A v : FlatExact(v, PortsModel)
  <2>1. \A v : Exact(v, ListOf(Number))
    BY ExactValues
  <2> QED BY <2>1, PortsSchema DEF FlatExact
<1>4. ASSUME NEW v, NEW t
      PROVE  FlatMeant(v, UserModel, t) =
               [f \in {"name", "home", "sudo"} |->
                   IF f = "home" /\ f \in Entries(v) THEN Cleaned(FlatOf(v, UserModel, t)[f])
                                                     ELSE FlatOf(v, UserModel, t)[f]]
  <2> DEFINE m == UserModel
             R == FlatOf(v, m, t)
  <2>1. /\ DOMAIN m.fields = {"name", "home", "sudo"}
        /\ m.fields["name"].model = TextOf("Username")
        /\ m.fields["home"].model = TextOf("GuestPath") /\ m.fields["sudo"].model = Bool
    BY UserSchema
  <2>2. \A w : /\ Meant(w, TextOf("Username")) = Value(w, TextOf("Username"))
               /\ Meant(w, TextOf("GuestPath")) = Cleaned(Value(w, TextOf("GuestPath")))
               /\ Meant(w, Bool) = Value(w, Bool)
    BY ExactValues DEF Exact
  <2>3. \A f \in {"name", "home", "sudo"} :
            R[f] = IF f \in Entries(v) THEN Value(v.entries[f], m.fields[f].model) ELSE t[f]
    <3> HIDE DEF m
    <3> QED BY <2>1 DEF FlatOf
  <2>4. FlatMeant(v, m, t) = [f \in {"name", "home", "sudo"} |->
            IF f \in Entries(v) THEN Meant(v.entries[f], m.fields[f].model) ELSE t[f]]
    <3> HIDE DEF m, R
    <3> QED BY <2>1 DEF FlatMeant
  <2> HIDE DEF m, R
  <2>5. \A f \in {"name", "home", "sudo"} :
            (IF f \in Entries(v) THEN Meant(v.entries[f], m.fields[f].model) ELSE t[f])
            = IF f = "home" /\ f \in Entries(v) THEN Cleaned(R[f]) ELSE R[f]
    BY <2>1, <2>2, <2>3
  <2>6. FlatMeant(v, m, t) = [f \in {"name", "home", "sudo"} |->
            IF f = "home" /\ f \in Entries(v) THEN Cleaned(R[f]) ELSE R[f]]
    BY <2>4, <2>5
  <2> QED BY <2>6 DEF m, R
<1> QED BY <1>1, <1>2, <1>3, <1>4

(* So is the table of the resources, whose sizes are numbers.              *)
LEMMA ExactResources ==
    ASSUME NEW d, NEW Component, Accepted(d), Written(d, Component), "resources" \in Entries(d)
    PROVE  FlatExact(d.entries["resources"], ResourcesModel)
<1> DEFINE v == d.entries["resources"]
           m == ResourcesModel
<1>1. d.kind = "table" /\ FlatAccepted(v, m)
  <2>1. CheckField(v, TypeOf("resources")) /\ TypeOf("resources") = m
    BY ConfigSchema DEF Accepted
  <2>2. Flat(m)
    BY FlatTables, ConfigSchema DEF FlatFields
  <2> HIDE DEF v, m
  <2> QED BY <2>1, <2>2, CheckLevels DEF Accepted
<1>2. ASSUME NEW g \in {"disk", "mem"}, g \in Entries(v)
      PROVE  Exact(v.entries[g], Size)
  <2>1. CheckItem(v.entries[g], Size)
    BY <1>1, <1>2, ResourcesSchema DEF FlatAccepted
  <2>2. v.entries[g].kind = "string"
    <3>1. CheckLeaf(v.entries[g], Size)
      BY <2>1, SimpleTypes, CheckLevels
    <3> QED BY <3>1, Schema DEF CheckLeaf
  <2>3. v.entries[g].text \in Nat
    BY <1>1, <1>2, <2>2 DEF Written, Supplies, SizeWritten, FlatAccepted
  <2> QED BY <2>1, <2>3, ExactValues
<1>3. Exact(v.entries["arch"], TextOf("Architecture")) /\ Exact(v.entries["cpu"], Number)
  BY ExactValues
<1>4. /\ DOMAIN m.fields = {"arch", "disk", "mem", "cpu"}
      /\ m.fields["arch"].model = TextOf("Architecture") /\ m.fields["disk"].model = Size
      /\ m.fields["mem"].model = Size /\ m.fields["cpu"].model = Number
  BY ResourcesSchema
<1> HIDE DEF v, m
<1>5. FlatExact(v, m)
  BY <1>2, <1>3, <1>4 DEF FlatExact
<1> QED BY <1>5 DEF v, m

(* What the network means, and the environment                             *)
LEMMA MeaningParts ==
    /\ \A v : MeaningField(NetworkModel, Default.network, v) = NetworkOf(v)
    /\ \A v, was : MeaningField(EnvModel, was, v) = EnvOf(v)
<1>1. ASSUME NEW v
      PROVE  MeaningField(NetworkModel, Default.network, v) = NetworkOf(v)
  <2>1. MeaningField(NetworkModel, Default.network, v) =
            [f \in {"mode", "ports"} |->
                IF f \in Entries(v)
                THEN MeaningEntry(NetworkModel.fields[f].model, Default.network[f], v.entries[f])
                ELSE Default.network[f]]
    BY NetworkSchema DEF MeaningField, MeaningPart, Untagged
  <2>2. MeaningEntry(NetworkModel.fields["mode"].model, Default.network["mode"], v.entries["mode"])
            = Value(v.entries["mode"], TextOf("text"))
    <3>1. NetworkModel.fields["mode"].model = TextOf("text") /\ Simple(TextOf("text"))
      BY NetworkSchema, SimpleTypes
    <3>2. \A w : Meant(w, TextOf("text")) = Value(w, TextOf("text"))
      BY ExactValues DEF Exact
    <3> QED BY <3>1, <3>2, MeaningLevels
  <2>3. MeaningEntry(NetworkModel.fields["ports"].model, Default.network["ports"], v.entries["ports"])
            = FlatOf(v.entries["ports"], PortsModel, Default.network.ports)
    <3>1. NetworkModel.fields["ports"].model = PortsModel
          /\ Flat(PortsModel) /\ NoDefaults(PortsModel)
      BY NetworkSchema, FlatTables
    <3>2. FlatExact(v.entries["ports"], PortsModel)
      BY ExactTables
    <3>3. MeaningEntry(PortsModel, Default.network["ports"], v.entries["ports"])
              = FlatMeant(v.entries["ports"], PortsModel, Default.network["ports"])
      BY <3>1, MeaningLevels
    <3> QED BY <3>1, <3>2, <3>3, FlatMeans
  <2> QED BY <2>1, <2>2, <2>3 DEF NetworkOf
<1>2. ASSUME NEW v, NEW was
      PROVE  MeaningField(EnvModel, was, v) = EnvOf(v)
  <2>1. EnvModel.kind = "map" /\ EnvModel.elem = TextOf("EnvValue") /\ Simple(TextOf("EnvValue"))
    BY Schema, SimpleTypes DEF EnvModel
  <2>2. MeaningField(EnvModel, was, v) =
            [n \in Entries(v) |-> MeaningEntry(EnvModel.elem, "", v.entries[n])]
    BY <2>1 DEF MeaningField, MeaningPart
  <2>3. \A w : MeaningEntry(TextOf("EnvValue"), "", w) = Value(w, TextOf("EnvValue"))
    <3>1. \A w : Meant(w, TextOf("EnvValue")) = Value(w, TextOf("EnvValue"))
      BY ExactValues DEF Exact
    <3> QED BY <2>1, <3>1, MeaningLevels
  <2> QED BY <2>1, <2>2, <2>3 DEF EnvOf
<1> QED BY <1>1, <1>2

(* and the mounts.                                                         *)
LEMMA MeaningMounts ==
    ASSUME NEW v, NEW was, MountsAccepted(v)
    PROVE  MeaningField(ListOf(MountModel), was, v) = CleanMounts(MountsOf(v))
<1>1. MeaningField(ListOf(MountModel), was, v) =
          [i \in DOMAIN v.items |-> MeaningEntry(MountModel, Zero(MountModel), v.items[i])]
  BY Schema DEF MeaningField, MeaningPart
<1>2. ASSUME NEW w, NEW zero, FlatAccepted(w, MountModel)
      PROVE  MeaningEntry(MountModel, zero, w) = CleanMount(MountOf(w))
  <2> DEFINE M == MeaningEntry(MountModel, zero, w)
             m == MountModel
             R == MountOf(w)
             S == {"mode", "source", "target"}
  <2>1. M = [f \in S |->
                IF f \in Entries(w) THEN MeaningItem(m.fields[f].model, zero[f], w.entries[f])
                ELSE IF m.fields[f].default # "" THEN m.fields[f].default
                ELSE zero[f]]
    BY MountSchema DEF MeaningEntry, MeaningPart
  <2>2. /\ m.fields["mode"].model = TextOf("text") /\ m.fields["mode"].default = "rw"
        /\ m.fields["source"].model = TextOf("text")
        /\ m.fields["target"].model = TextOf("GuestPath")
        /\ Simple(TextOf("text")) /\ Simple(TextOf("GuestPath"))
    BY MountSchema, SimpleTypes
  <2>3. {"source", "target"} \subseteq Entries(w)
    BY <1>2, MountSchema DEF FlatAccepted
  <2>4. \A e, t : /\ MeaningItem(TextOf("text"), t, e) = Value(e, TextOf("text"))
                  /\ MeaningItem(TextOf("GuestPath"), t, e) = Cleaned(Value(e, TextOf("GuestPath")))
    <3>1. \A e : /\ Meant(e, TextOf("text")) = Value(e, TextOf("text"))
                 /\ Meant(e, TextOf("GuestPath")) = Cleaned(Value(e, TextOf("GuestPath")))
      BY ExactValues DEF Exact
    <3> QED BY <2>2, <3>1, MeaningLevels
  <2>5. R = [f \in S |->
                IF f \in Entries(w) THEN Value(w.entries[f], m.fields[f].model) ELSE "rw"]
    BY MountSchema DEF MountOf, FlatOf, MountDefaults
  <2> HIDE DEF M, m, R
  <2>6. CleanMount(R) = [f \in S |-> IF f = "target" THEN Cleaned(R[f]) ELSE R[f]]
    <3>1. Fielded(R, S) /\ "target" \in S
      BY <2>5 DEF Fielded
    <3> HIDE DEF S
    <3> QED BY <3>1, CleanFields
  <2>7. \A f \in S : M[f] = IF f = "target" THEN Cleaned(R[f]) ELSE R[f]
    <3>1. \A f \in S : R[f] = IF f \in Entries(w) THEN Value(w.entries[f], m.fields[f].model) ELSE "rw"
      BY <2>5
    <3>2. \A f \in S : M[f] =
              IF f \in Entries(w) THEN MeaningItem(m.fields[f].model, zero[f], w.entries[f])
              ELSE IF m.fields[f].default # "" THEN m.fields[f].default
              ELSE zero[f]
      BY <2>1
    <3>3. M["mode"] = R["mode"]
      <4>1. M["mode"] = IF "mode" \in Entries(w)
                        THEN MeaningItem(m.fields["mode"].model, zero["mode"], w.entries["mode"])
                        ELSE "rw"
        BY <2>2, <3>2
      <4>2. R["mode"] = IF "mode" \in Entries(w)
                        THEN Value(w.entries["mode"], m.fields["mode"].model) ELSE "rw"
        BY <3>1
      <4> QED BY <2>2, <2>4, <4>1, <4>2
    <3>4. M["source"] = R["source"] /\ M["target"] = Cleaned(R["target"])
      BY <2>2, <2>3, <2>4, <3>1, <3>2
    <3> QED BY <3>3, <3>4
  <2>8. M = [f \in S |-> M[f]]
    BY <2>1
  <2>9. M = CleanMount(R)
    BY <2>6, <2>7, <2>8
  <2> QED BY <2>9 DEF M, R
<1>3. \A i \in DOMAIN v.items : FlatAccepted(v.items[i], MountModel)
  BY DEF MountsAccepted
<1>4. CleanMounts(MountsOf(v)) = [i \in DOMAIN v.items |-> CleanMount(MountOf(v.items[i]))]
  BY DEF CleanMounts, MountsOf
<1> QED BY <1>1, <1>2, <1>3, <1>4

UserFields  == {"name", "home", "sudo"}
MountFields == {"mode", "source", "target"}

\* A configuration as it is saved.
Norm(P) ==
    [f \in ConfigFields |-> CASE f = "user" -> CleanUser(P["user"])
                              [] f = "mounts" -> CleanMounts(P["mounts"])
                              [] OTHER -> P[f]]

IsConfig(P) == Fielded(P, ConfigFields) /\ Fielded(P["user"], UserFields)

(* Normalized cleans the guest paths and nothing else.                     *)
LEMMA NormalizedExplicit ==
    ASSUME NEW P, IsConfig(P)
    PROVE  Normalized(P) = Norm(P)
<1> DEFINE c == CleanMounts(P["mounts"])
           w == CleanUser(P["user"])
<1>1. Normalized(P) = [P EXCEPT !.user.home = Cleaned(@), !.mounts = c]
  BY DEF Normalized, CleanMounts, CleanMount
<1>2. DOMAIN P = ConfigFields /\ "user" \in ConfigFields /\ "mounts" \in ConfigFields
  BY DEF IsConfig, Fielded, ConfigFields, FlatFields
<1> HIDE DEF c
<1>3. [P EXCEPT !.user.home = Cleaned(@), !.mounts = c] = [P EXCEPT !.user = w, !.mounts = c]
  BY <1>2 DEF CleanUser
<1> HIDE DEF w
<1>4. [P EXCEPT !.user = w, !.mounts = c] =
        [f \in ConfigFields |-> CASE f = "user" -> w [] f = "mounts" -> c [] OTHER -> P[f]]
  BY <1>2
<1> QED BY <1>1, <1>3, <1>4 DEF Norm, c, w

(* The defaults are clean.                                                 *)
LEMMA DefaultClean ==
    /\ Cleaned(Default.user.home) = Default.user.home
    /\ CleanMounts(Default.mounts) = Default.mounts
<1> DEFINE C == {"home", "dev", "workspace", "mnt", "git-keys"}
<1>1. C \ Unclean = C
  BY DEF Unclean
<1>2. \A p \in Seq(C) : Cleaned(p) = p
  <2> HIDE DEF C
  <2> QED BY <1>1, CleanedFacts
<1>3. Default.user.home \in Seq(C)
  <2>1. <<"home", "dev">> \in Seq(C)
    OBVIOUS
  <2>2. Default.user.home = <<"home", "dev">>
    BY DEF Default
  <2> QED BY <2>1, <2>2
<1>4. <<"workspace">> \in Seq(C) /\ <<"mnt", "git-keys">> \in Seq(C)
  OBVIOUS
<1>5. ASSUME NEW mode, NEW source, NEW p \in Seq(C)
      PROVE  CleanMount([mode |-> mode, source |-> source, target |-> p]) =
                [mode |-> mode, source |-> source, target |-> p]
  <2>1. Cleaned(p) = p
    BY <1>2
  <2> HIDE DEF C
  <2> QED BY <2>1 DEF CleanMount
<1> HIDE DEF C
<1> DEFINE a == [mode |-> "rw", source |-> "project", target |-> <<"workspace">>]
           b == [mode |-> "ro", source |-> "keys", target |-> <<"mnt", "git-keys">>]
           t == <<a, b>>
<1>6. CleanMount(a) = a /\ CleanMount(b) = b
  BY <1>4, <1>5
<1>7. Default.mounts = t
  BY DEF Default
<1> HIDE DEF a, b
<1>8. DOMAIN t = {1, 2} /\ t[1] = a /\ t[2] = b /\ t = [i \in {1, 2} |-> t[i]]
  OBVIOUS
<1> HIDE DEF t
<1>9. CleanMounts(t) = [i \in {1, 2} |-> CleanMount(t[i])]
  BY <1>8 DEF CleanMounts
<1>10. CleanMounts(t) = t
  BY <1>6, <1>8, <1>9
<1> QED BY <1>2, <1>3, <1>7, <1>10

(* What is read off a document is a configuration.                         *)
LEMMA PlainConfig == \A d : IsConfig(ConfigOf(d))
<1> SUFFICES ASSUME NEW d
             PROVE  IsConfig(ConfigOf(d))
  OBVIOUS
<1>1. Fielded(ConfigOf(d), ConfigFields)
  BY DEF Fielded, ConfigOf
<1>2. Fielded(ConfigOf(d)["user"], UserFields)
  <2>1. "user" \in FlatFields /\ "user" \in ConfigFields /\ TypeOf("user") = UserModel
        /\ DOMAIN UserModel.fields = UserFields
    BY ConfigSchema, UserSchema DEF FlatFields, ConfigFields, UserFields
  <2>2. ConfigOf(d)["user"] = IF "user" \in Entries(d)
                              THEN FieldOf("user", d.entries["user"]) ELSE Default["user"]
    BY <2>1 DEF ConfigOf
  <2>3. FieldOf("user", d.entries["user"]) = FlatOf(d.entries["user"], UserModel, Default["user"])
    BY <2>1 DEF FieldOf, FlatFields
  <2>4. Fielded(FlatOf(d.entries["user"], UserModel, Default["user"]), UserFields)
    BY <2>1 DEF Fielded, FlatOf
  <2>5. Fielded(Default["user"], UserFields)
    BY <2>1, DefaultShape
  <2> QED BY <2>2, <2>3, <2>4, <2>5
<1> QED BY <1>1, <1>2 DEF IsConfig

(* What is read off a document for one of its fields.                      *)
LEMMA FieldsOf ==
    ASSUME NEW v
    PROVE  /\ \A f \in FlatFields : FieldOf(f, v) = FlatOf(v, TypeOf(f), Default[f])
           /\ \A f \in {"schema_version", "name"} : FieldOf(f, v) = Value(v, TypeOf(f))
           /\ FieldOf("network", v) = NetworkOf(v) /\ FieldOf("env", v) = EnvOf(v)
           /\ FieldOf("mounts", v) = MountsOf(v)
<1>1. ASSUME NEW f \in FlatFields
      PROVE  FieldOf(f, v) = FlatOf(v, TypeOf(f), Default[f])
  BY DEF FieldOf, FlatFields
<1>2. ASSUME NEW f \in {"schema_version", "name"}
      PROVE  FieldOf(f, v) = Value(v, TypeOf(f))
  BY DEF FieldOf, FlatFields
<1>3. /\ FieldOf("network", v) = NetworkOf(v) /\ FieldOf("env", v) = EnvOf(v)
      /\ FieldOf("mounts", v) = MountsOf(v)
  BY DEF FieldOf, FlatFields
<1> QED BY <1>1, <1>2, <1>3

(* What is read off an accepted document is, once normalized, what the     *)
(* document means.                                                         *)
LEMMA MeaningPlain ==
    ASSUME NEW d, NEW Component, Accepted(d), Written(d, Component)
    PROVE  Meaning(ConfigModel, Default, d) = Normalized(ConfigOf(d))
<1> DEFINE M == Meaning(ConfigModel, Default, d)
           c == ConfigOf(d)
           N == Norm(c)
<1>1. /\ M = [f \in ConfigFields |-> M[f]]
      /\ \A f \in ConfigFields :
            M[f] = IF f \in Entries(d) THEN MeaningField(TypeOf(f), Default[f], d.entries[f])
                                       ELSE Default[f]
  <2>1. M = [f \in ConfigFields |->
                IF f \in Entries(d) THEN MeaningField(TypeOf(f), Default[f], d.entries[f])
                                    ELSE Default[f]]
    BY ConfigSchema DEF Meaning, MeaningPart, Untagged, TypeOf
  <2> HIDE DEF M
  <2> QED BY <2>1
<1>2. /\ N = [f \in ConfigFields |-> N[f]]
      /\ N["user"] = CleanUser(c["user"]) /\ N["mounts"] = CleanMounts(c["mounts"])
      /\ \A f \in ConfigFields \ {"user", "mounts"} : N[f] = c[f]
  <2> HIDE DEF c
  <2> QED BY DEF Norm, ConfigFields, FlatFields
<1>3. \A f \in ConfigFields :
        c[f] = IF f \in Entries(d) THEN FieldOf(f, d.entries[f]) ELSE Default[f]
  BY DEF ConfigOf
<1> HIDE DEF M, N, c
<1>4. ASSUME NEW f \in {"schema_version", "name"}
      PROVE  M[f] = N[f]
  <2>1. f \in ConfigFields \ {"user", "mounts"}
    BY DEF ConfigFields
  <2>2. \A v : MeaningField(TypeOf(f), Default[f], v) = Value(v, TypeOf(f))
    <3>1. TypeOf(f) = Number \/ TypeOf(f) = TextOf("VMName")
      BY ConfigSchema
    <3>2. Simple(TypeOf(f)) /\ \A v : Meant(v, TypeOf(f)) = Value(v, TypeOf(f))
      BY <3>1, SimpleTypes, ExactValues DEF Exact
    <3> QED BY <3>2, MeaningLevels
  <2>3. FieldOf(f, d.entries[f]) = Value(d.entries[f], TypeOf(f))
    BY FieldsOf
  <2> QED BY <1>1, <1>2, <1>3, <2>1, <2>2, <2>3
<1>5. ASSUME NEW f \in {"resources", "home", "nixos"}
      PROVE  M[f] = N[f]
  <2>1. f \in ConfigFields \ {"user", "mounts"} /\ f \in FlatFields
    BY DEF ConfigFields, FlatFields
  <2>2. Flat(TypeOf(f)) /\ NoDefaults(TypeOf(f))
    BY <2>1, FlatTables
  <2>3. f \in Entries(d) => FlatExact(d.entries[f], TypeOf(f))
    BY ExactTables, ExactResources, ConfigSchema
  <2>4. FieldOf(f, d.entries[f]) = FlatOf(d.entries[f], TypeOf(f), Default[f])
    BY <2>1, FieldsOf
  <2>5. MeaningField(TypeOf(f), Default[f], d.entries[f])
          = FlatMeant(d.entries[f], TypeOf(f), Default[f])
    BY <2>2, MeaningLevels
  <2>6. f \in Entries(d) => MeaningField(TypeOf(f), Default[f], d.entries[f])
                              = FieldOf(f, d.entries[f])
    BY <2>3, <2>4, <2>5, FlatMeans
  <2> QED BY <1>1, <1>2, <1>3, <2>1, <2>6
<1>6. M["user"] = N["user"]
  <2> DEFINE v == d.entries["user"]
             m == UserModel
             R == FlatOf(v, m, Default["user"])
  <2>1. "user" \in FlatFields /\ "user" \in ConfigFields /\ TypeOf("user") = m
    BY ConfigSchema DEF FlatFields, ConfigFields
  <2>2. Flat(m) /\ NoDefaults(m) /\ DOMAIN m.fields = UserFields
    BY <2>1, FlatTables, UserSchema DEF UserFields
  <2>3. MeaningField(m, Default["user"], v) = FlatMeant(v, m, Default["user"])
    <3> HIDE DEF m
    <3> QED BY <2>2, MeaningLevels
  <2>4. FieldOf("user", v) = R
    BY <2>1, FieldsOf
  <2>5. Fielded(R, UserFields)
    BY <2>2 DEF FlatOf, Fielded
  <2>6. Fielded(Default["user"], UserFields) /\ "home" \in UserFields
    BY <2>1, <2>2, DefaultShape DEF UserFields
  <2>7. "home" \notin Entries(v) => R["home"] = Default.user.home
    <3> HIDE DEF m
    <3> QED BY <2>2, <2>6 DEF FlatOf
  <2>8. FlatMeant(v, m, Default["user"]) =
            [f \in UserFields |-> IF f = "home" /\ f \in Entries(v) THEN Cleaned(R[f]) ELSE R[f]]
    BY ExactTables DEF UserFields
  <2> HIDE DEF R, v, m
  <2>9. CleanUser(R) = [f \in UserFields |-> IF f = "home" THEN Cleaned(R[f]) ELSE R[f]]
    BY <2>5, <2>6, CleanFields
  <2>10. \A f \in UserFields :
            (IF f = "home" /\ f \in Entries(v) THEN Cleaned(R[f]) ELSE R[f])
            = IF f = "home" THEN Cleaned(R[f]) ELSE R[f]
    BY <2>7, DefaultClean
  <2>11. FlatMeant(v, m, Default["user"]) = CleanUser(R)
    BY <2>8, <2>9, <2>10
  <2>12. CleanUser(Default["user"]) = Default["user"]
    <3> DEFINE u == Default["user"]
    <3>1. Fielded(u, UserFields) /\ Cleaned(u["home"]) = u["home"]
      BY <2>6, DefaultClean
    <3> HIDE DEF u
    <3>2. CleanUser(u) = [f \in UserFields |-> IF f = "home" THEN Cleaned(u[f]) ELSE u[f]]
      BY <2>6, <3>1, CleanFields
    <3>3. CleanUser(u) = [f \in UserFields |-> u[f]]
      BY <3>1, <3>2
    <3> QED BY <3>1, <3>3 DEF Fielded, u
  <2>13. c["user"] = IF "user" \in Entries(d) THEN R ELSE Default["user"]
    BY <1>3, <2>1, <2>4 DEF v
  <2>14. M["user"] = IF "user" \in Entries(d) THEN CleanUser(R) ELSE Default["user"]
    BY <1>1, <2>1, <2>3, <2>11 DEF v
  <2> QED BY <1>2, <2>12, <2>13, <2>14
<1>7. M["network"] = N["network"]
  <2>1. "network" \in ConfigFields \ {"user", "mounts"} /\ TypeOf("network") = NetworkModel
    BY ConfigSchema DEF ConfigFields
  <2>2. MeaningField(NetworkModel, Default["network"], d.entries["network"])
          = FieldOf("network", d.entries["network"])
    BY MeaningParts, FieldsOf
  <2> QED BY <1>1, <1>2, <1>3, <2>1, <2>2
<1>8. M["env"] = N["env"]
  <2>1. "env" \in ConfigFields \ {"user", "mounts"} /\ TypeOf("env") = EnvModel
    BY ConfigSchema DEF ConfigFields
  <2>2. MeaningField(EnvModel, Default["env"], d.entries["env"]) = FieldOf("env", d.entries["env"])
    BY MeaningParts, FieldsOf
  <2> QED BY <1>1, <1>2, <1>3, <2>1, <2>2
<1>9. M["mounts"] = N["mounts"]
  <2> DEFINE v == d.entries["mounts"]
  <2>1. "mounts" \in ConfigFields /\ TypeOf("mounts") = ListOf(MountModel)
    BY ConfigSchema DEF ConfigFields
  <2>2. "mounts" \in Entries(d) => MountsAccepted(v)
    BY <2>1, CheckParts DEF Accepted
  <2>3. "mounts" \in Entries(d) =>
          MeaningField(ListOf(MountModel), Default["mounts"], v) = CleanMounts(MountsOf(v))
    BY <2>2, MeaningMounts
  <2>4. FieldOf("mounts", v) = MountsOf(v)
    BY FieldsOf
  <2> HIDE DEF v
  <2>5. c["mounts"] = IF "mounts" \in Entries(d) THEN MountsOf(v) ELSE Default["mounts"]
    BY <1>3, <2>1, <2>4 DEF v
  <2>6. M["mounts"] = IF "mounts" \in Entries(d) THEN CleanMounts(MountsOf(v)) ELSE Default["mounts"]
    BY <1>1, <2>1, <2>3 DEF v
  <2> QED BY <1>2, <2>5, <2>6, DefaultClean
<1>10. \A f \in ConfigFields : M[f] = N[f]
  BY <1>4, <1>5, <1>6, <1>7, <1>8, <1>9 DEF ConfigFields, FlatFields
<1>11. M = N
  BY <1>1, <1>2, <1>10
<1> QED BY <1>11, PlainConfig, NormalizedExplicit DEF M, N, c

-----------------------------------------------------------------------------
(* What validateValue accepts.                                             *)

FlatValid(v, m) ==
    \A f \in DOMAIN m.fields :
        /\ m.fields[f].choices # {} => v[f] \in m.fields[f].choices
        /\ ValidItem(v[f], m.fields[f].model)

(* A value or a table is validated the same way wherever it is deep enough.*)
LEMMA ValidLevels ==
    /\ \A v, m : Leaf(m) => (ValidItem(v, m) <=> ValidLeaf(v, m))
    /\ \A v, m : Simple(m) => /\ ValidEntry(v, m) <=> ValidItem(v, m)
                              /\ ValidField(v, m) <=> ValidItem(v, m)
    /\ \A v, m : Flat(m) => /\ ValidEntry(v, m) <=> FlatValid(v, m)
                            /\ ValidField(v, m) <=> FlatValid(v, m)
<1>1. ASSUME NEW v, NEW m, Leaf(m)
      PROVE  /\ ValidItem(v, m) <=> ValidLeaf(v, m)
             /\ ValidEntry(v, m) <=> ValidLeaf(v, m)
             /\ ValidField(v, m) <=> ValidLeaf(v, m)
  <2>1. m.kind # "table" /\ m.kind # "map" /\ m.kind # "array"
    BY <1>1 DEF Leaf
  <2> QED BY <2>1 DEF ValidItem, ValidEntry, ValidField, ValidPart
<1>2. ASSUME NEW v, NEW m, Simple(m)
      PROVE  /\ ValidEntry(v, m) <=> ValidItem(v, m)
             /\ ValidField(v, m) <=> ValidItem(v, m)
  <2>1. CASE Leaf(m)
    BY <1>1, <2>1
  <2>2. CASE m.kind = "array" /\ Leaf(m.elem)
    <3>1. /\ ValidItem(v, m) <=> \A i \in DOMAIN v : ValidLeaf(v[i], m.elem)
          /\ ValidEntry(v, m) <=> \A i \in DOMAIN v : ValidItem(v[i], m.elem)
          /\ ValidField(v, m) <=> \A i \in DOMAIN v : ValidEntry(v[i], m.elem)
      BY <2>2 DEF ValidItem, ValidEntry, ValidField, ValidPart
    <3> QED BY <1>1, <2>2, <3>1
  <2> QED BY <1>2, <2>1, <2>2 DEF Simple, Leaf
<1>3. ASSUME NEW v, NEW m, Flat(m)
      PROVE  /\ ValidEntry(v, m) <=> FlatValid(v, m)
             /\ ValidField(v, m) <=> FlatValid(v, m)
  <2>1. /\ ValidEntry(v, m) <=>
              \A f \in DOMAIN m.fields :
                  /\ m.fields[f].choices # {} => v[f] \in m.fields[f].choices
                  /\ ValidItem(v[f], m.fields[f].model)
        /\ ValidField(v, m) <=>
              \A f \in DOMAIN m.fields :
                  /\ m.fields[f].choices # {} => v[f] \in m.fields[f].choices
                  /\ ValidEntry(v[f], m.fields[f].model)
    BY <1>3 DEF ValidEntry, ValidField, ValidPart, Flat
  <2>2. \A f \in DOMAIN m.fields : Simple(m.fields[f].model)
    BY <1>3 DEF Flat
  <2> QED BY <1>2, <2>1, <2>2 DEF FlatValid
<1> QED BY <1>1, <1>2, <1>3

(* A configuration is validated field by field, and its mounts mount by    *)
(* mount.                                                                  *)
LEMMA ValidFields ==
    /\ \A c : ValidateValue(c, ConfigModel) <=> \A f \in ConfigFields : ValidField(c[f], TypeOf(f))
    /\ \A v : ValidField(v, ListOf(MountModel)) <=> \A i \in DOMAIN v : FlatValid(v[i], MountModel)
    /\ \A v : ValidItem(v, TextOf("GuestPath")) <=> NewGuestPath(v)
<1>1. ASSUME NEW c
      PROVE  ValidateValue(c, ConfigModel) <=> \A f \in ConfigFields : ValidField(c[f], TypeOf(f))
  BY ConfigSchema DEF ValidateValue, ValidPart, Untagged, TypeOf
<1>2. ASSUME NEW v
      PROVE  ValidField(v, ListOf(MountModel)) <=> \A i \in DOMAIN v : FlatValid(v[i], MountModel)
  <2>1. ValidField(v, ListOf(MountModel)) <=> \A i \in DOMAIN v : ValidEntry(v[i], MountModel)
    BY Schema DEF ValidField, ValidPart
  <2> QED BY <2>1, FlatTables, ValidLevels
<1>3. ASSUME NEW v
      PROVE  ValidItem(v, TextOf("GuestPath")) <=> NewGuestPath(v)
  <2>1. ValidItem(v, TextOf("GuestPath")) <=> ValidLeaf(v, TextOf("GuestPath"))
    BY SimpleTypes, ValidLevels
  <2>2. TextOf("GuestPath").kind = "string" /\ TextOf("GuestPath").type = "GuestPath"
    BY Schema
  <2> QED BY <2>1, <2>2 DEF ValidLeaf, ValidString
<1> QED BY <1>1, <1>2, <1>3

-----------------------------------------------------------------------------
(* What is valid is valid as it is saved.                                  *)

PathParts(Component) == Component \cup {"home", "dev", "workspace", "mnt", "git-keys"}

IsMount(mount, C) == Fielded(mount, MountFields) /\ mount.target \in Seq(C)

HasPaths(c, C) ==
    /\ c.user.home \in Seq(C)
    /\ \E n \in Nat : DOMAIN c.mounts = 1..n
    /\ \A i \in DOMAIN c.mounts : IsMount(c.mounts[i], C)

(* The paths that an accepted document supplies are the ones written in    *)
(* it.                                                                     *)
LEMMA PathsWritten ==
    ASSUME NEW d, NEW Component, Accepted(d), Written(d, Component)
    PROVE  /\ "user" \in Entries(d) /\ "home" \in Entries(d.entries["user"]) =>
                Value(d.entries["user"].entries["home"], TextOf("GuestPath")) \in Seq(Component)
           /\ "mounts" \in Entries(d) =>
                LET items == d.entries["mounts"].items
                IN /\ items \in Seq(Range(items))
                   /\ \A i \in DOMAIN items :
                        Value(items[i].entries["target"], TextOf("GuestPath")) \in Seq(Component)
<1>1. ASSUME NEW v, CheckItem(v, TextOf("GuestPath"))
      PROVE  v.kind = "string" /\ Value(v, TextOf("GuestPath")) = v.text
  <2>1. CheckLeaf(v, TextOf("GuestPath"))
    BY <1>1, SimpleTypes, CheckLevels
  <2>2. TextOf("GuestPath").kind = "string"
    BY Schema
  <2> QED BY <2>1, <2>2, LeafValues DEF CheckLeaf
<1>2. ASSUME "user" \in Entries(d), "home" \in Entries(d.entries["user"])
      PROVE  Value(d.entries["user"].entries["home"], TextOf("GuestPath")) \in Seq(Component)
  <2> DEFINE v == d.entries["user"]
  <2>1. TypeOf("user") = UserModel /\ Flat(UserModel)
    BY ConfigSchema, FlatTables DEF FlatFields
  <2>2. FlatAccepted(v, UserModel)
    <3>1. CheckField(v, TypeOf("user"))
      BY <1>2 DEF Accepted
    <3> HIDE DEF v
    <3> QED BY <2>1, <3>1, CheckLevels
  <2>3. d.kind = "table" /\ v.kind = "table"
    BY <2>2 DEF Accepted, FlatAccepted
  <2>4. CheckItem(v.entries["home"], TextOf("GuestPath"))
    BY <1>2, <2>2, UserSchema DEF FlatAccepted
  <2>5. /\ v.entries["home"].kind = "string"
        /\ Value(v.entries["home"], TextOf("GuestPath")) = v.entries["home"].text
    BY <1>1, <2>4
  <2> QED BY <1>2, <2>3, <2>5 DEF Written, Supplies, PathWritten
<1>3. ASSUME "mounts" \in Entries(d)
      PROVE  LET items == d.entries["mounts"].items
             IN /\ items \in Seq(Range(items))
                /\ \A i \in DOMAIN items :
                     Value(items[i].entries["target"], TextOf("GuestPath")) \in Seq(Component)
  <2> DEFINE v == d.entries["mounts"]
  <2>1. d.kind = "table" /\ MountsAccepted(v)
    <3>1. CheckField(v, TypeOf("mounts")) /\ TypeOf("mounts") = ListOf(MountModel)
      BY <1>3, ConfigSchema DEF Accepted
    <3> HIDE DEF v
    <3> QED BY <3>1, CheckParts DEF Accepted
  <2>2. v.items \in Seq(Range(v.items))
    BY <1>3, <2>1 DEF Written, Supplies, IsSequence, MountsAccepted
  <2>3. ASSUME NEW i \in DOMAIN v.items
        PROVE  Value(v.items[i].entries["target"], TextOf("GuestPath")) \in Seq(Component)
    <3> DEFINE w == v.items[i]
    <3>1. FlatAccepted(w, MountModel)
      BY <2>1, <2>3 DEF MountsAccepted
    <3>2. /\ "target" \in DOMAIN MountModel.fields /\ MountModel.fields["target"].required
          /\ MountModel.fields["target"].model = TextOf("GuestPath")
      BY MountSchema
    <3>3. "target" \in Entries(w) /\ CheckItem(w.entries["target"], TextOf("GuestPath"))
          /\ w.kind = "table"
      BY <3>1, <3>2 DEF FlatAccepted
    <3>4. /\ w.entries["target"].kind = "string"
          /\ Value(w.entries["target"], TextOf("GuestPath")) = w.entries["target"].text
      BY <1>1, <3>3
    <3> QED BY <1>3, <2>1, <2>3, <3>3, <3>4 DEF Written, Supplies, PathWritten, MountsAccepted
  <2> QED BY <2>2, <2>3
<1> QED BY <1>2, <1>3

(* The guest paths of an accepted document's configuration are sequences.  *)
LEMMA ConfigPaths ==
    ASSUME NEW d, NEW Component, Accepted(d), Written(d, Component)
    PROVE  HasPaths(ConfigOf(d), PathParts(Component))
<1> DEFINE P == PathParts(Component)
           c == ConfigOf(d)
<1>1. Seq(Component) \subseteq Seq(P)
  <2>1. Component \subseteq P
    BY DEF PathParts
  <2> HIDE DEF P
  <2> QED BY <2>1, SeqMonotonic
<1>2. <<"home", "dev">> \in Seq(P) /\ <<"workspace">> \in Seq(P) /\ <<"mnt", "git-keys">> \in Seq(P)
  BY DEF PathParts
<1> HIDE DEF P
<1>3. Default.user.home = <<"home", "dev">>
  BY DEF Default
<1>4. c["user"]["home"] \in Seq(P)
  <2> DEFINE v == d.entries["user"]
  <2>1. "user" \in FlatFields /\ "user" \in ConfigFields /\ TypeOf("user") = UserModel
    BY ConfigSchema DEF FlatFields, ConfigFields
  <2>2. c["user"] = IF "user" \in Entries(d) THEN FlatOf(v, UserModel, Default["user"])
                                             ELSE Default["user"]
    BY <2>1, FieldsOf DEF ConfigOf
  <2>3. FlatOf(v, UserModel, Default["user"])["home"] =
            IF "home" \in Entries(v) THEN Value(v.entries["home"], TextOf("GuestPath"))
                                     ELSE Default["user"]["home"]
    BY UserSchema DEF FlatOf
  <2>4. "user" \in Entries(d) /\ "home" \in Entries(v) =>
            Value(v.entries["home"], TextOf("GuestPath")) \in Seq(Component)
    BY PathsWritten
  <2> HIDE DEF c, v
  <2> QED BY <1>1, <1>2, <1>3, <2>2, <2>3, <2>4
<1>5. c["mounts"] = IF "mounts" \in Entries(d) THEN MountsOf(d.entries["mounts"])
                                               ELSE Default["mounts"]
  <2>1. "mounts" \in ConfigFields
    BY DEF ConfigFields
  <2> QED BY <2>1, FieldsOf DEF ConfigOf
<1> HIDE DEF c
<1>6. ASSUME NEW i \in DOMAIN c["mounts"]
      PROVE  IsMount(c["mounts"][i], P)
  <2>1. CASE "mounts" \in Entries(d)
    <3> DEFINE v == d.entries["mounts"]
               w == v.items[i]
               R == MountOf(w)
    <3>1. i \in DOMAIN v.items /\ c["mounts"][i] = R
      BY <1>5, <1>6, <2>1 DEF MountsOf
    <3>2. FlatAccepted(w, MountModel)
      <4>1. CheckField(v, TypeOf("mounts")) /\ TypeOf("mounts") = ListOf(MountModel)
        BY <2>1, ConfigSchema DEF Accepted
      <4>2. MountsAccepted(v)
        BY <4>1, CheckParts
      <4> QED BY <3>1, <4>2 DEF MountsAccepted
    <3>3. /\ DOMAIN MountModel.fields = MountFields /\ "target" \in MountFields
          /\ MountModel.fields["target"].required
          /\ MountModel.fields["target"].model = TextOf("GuestPath")
      BY MountSchema DEF MountFields
    <3>4. Value(w.entries["target"], TextOf("GuestPath")) \in Seq(Component)
      BY <2>1, <3>1, PathsWritten
    <3> HIDE DEF w
    <3>5. "target" \in Entries(w)
      BY <3>2, <3>3 DEF FlatAccepted
    <3>6. Fielded(R, MountFields) /\ R["target"] = Value(w.entries["target"], TextOf("GuestPath"))
      BY <3>3, <3>5 DEF MountOf, FlatOf, Fielded
    <3> HIDE DEF R
    <3> QED BY <1>1, <3>1, <3>4, <3>6 DEF IsMount
  <2>2. CASE "mounts" \notin Entries(d)
    <3> DEFINE t == Default["mounts"]
               a == [mode |-> "rw", source |-> "project", target |-> <<"workspace">>]
               b == [mode |-> "ro", source |-> "keys", target |-> <<"mnt", "git-keys">>]
    <3>1. c["mounts"] = t
      BY <1>5, <2>2
    <3>2. t = <<a, b>>
      BY DEF Default
    <3>3. IsMount(a, P) /\ IsMount(b, P)
      BY <1>2 DEF IsMount, Fielded, MountFields
    <3> HIDE DEF a, b, t
    <3>4. i = 1 \/ i = 2
      BY <1>6, <3>1, <3>2
    <3>5. c["mounts"][i] = a \/ c["mounts"][i] = b
      BY <3>1, <3>2, <3>4
    <3> QED BY <3>3, <3>5
  <2> QED BY <2>1, <2>2
<1>7. \E n \in Nat : DOMAIN c["mounts"] = 1..n
  <2>1. CASE "mounts" \in Entries(d)
    <3> DEFINE items == d.entries["mounts"].items
    <3>1. items \in Seq(Range(items))
      BY <2>1, PathsWritten
    <3>2. DOMAIN c["mounts"] = DOMAIN items
      BY <1>5, <2>1 DEF MountsOf
    <3> HIDE DEF items
    <3>3. DOMAIN items = 1..Len(items) /\ Len(items) \in Nat
      BY <3>1
    <3> QED BY <3>2, <3>3
  <2>2. CASE "mounts" \notin Entries(d)
    <3>1. DOMAIN Default["mounts"] = 1..2
      BY DEF Default
    <3> QED BY <1>5, <2>2, <3>1
  <2> QED BY <2>1, <2>2
<1>8. HasPaths(c, P)
  BY <1>4, <1>6, <1>7 DEF HasPaths
<1> QED BY <1>8 DEF P, c

(* What normalizing leaves alone, and what it cleans.                      *)
LEMMA NormFacts ==
    ASSUME NEW C, NEW c, IsConfig(c), HasPaths(c, C)
    PROVE  LET n == Norm(c)
           IN /\ Fielded(n, ConfigFields)
              /\ \A f \in ConfigFields \ {"user", "mounts"} : n[f] = c[f]
              /\ n["user"] = [f \in UserFields |->
                    IF f = "home" THEN Cleaned(c["user"][f]) ELSE c["user"][f]]
              /\ DOMAIN n["mounts"] = DOMAIN c["mounts"]
              /\ \A i \in DOMAIN c["mounts"] : n["mounts"][i] = [f \in MountFields |->
                    IF f = "target" THEN Cleaned(c["mounts"][i][f]) ELSE c["mounts"][i][f]]
<1> DEFINE n == Norm(c)
<1>1. /\ Fielded(n, ConfigFields)
      /\ n["user"] = CleanUser(c["user"]) /\ n["mounts"] = CleanMounts(c["mounts"])
      /\ \A f \in ConfigFields \ {"user", "mounts"} : n[f] = c[f]
  BY DEF Norm, ConfigFields, FlatFields, Fielded
<1> HIDE DEF n
<1>2. n["user"] = [f \in UserFields |->
          IF f = "home" THEN Cleaned(c["user"][f]) ELSE c["user"][f]]
  <2>1. Fielded(c["user"], UserFields) /\ "home" \in UserFields
    BY DEF IsConfig, UserFields
  <2> QED BY <1>1, <2>1, CleanFields
<1>3. ASSUME NEW i \in DOMAIN c["mounts"]
      PROVE  n["mounts"][i] = [f \in MountFields |->
                IF f = "target" THEN Cleaned(c["mounts"][i][f]) ELSE c["mounts"][i][f]]
  <2> DEFINE m == c["mounts"][i]
  <2>1. n["mounts"][i] = CleanMount(m)
    BY <1>1 DEF CleanMounts
  <2>2. Fielded(m, MountFields) /\ "target" \in MountFields
    BY DEF HasPaths, IsMount, MountFields
  <2> HIDE DEF m
  <2>3. CleanMount(m) = [f \in MountFields |-> IF f = "target" THEN Cleaned(m[f]) ELSE m[f]]
    BY <2>2, CleanFields
  <2> QED BY <2>1, <2>3 DEF m
<1>4. DOMAIN n["mounts"] = DOMAIN c["mounts"]
  BY <1>1 DEF CleanMounts
<1> QED BY <1>1, <1>2, <1>3, <1>4 DEF n

(* Normalizing once is enough, and leaves a valid configuration valid.     *)
LEMMA NormValid ==
    ASSUME NEW C, NEW c, IsConfig(c), HasPaths(c, C)
    PROVE  /\ IsConfig(Norm(c)) /\ HasPaths(Norm(c), C) /\ Norm(Norm(c)) = Norm(c)
           /\ Validate(c) => Validate(Norm(c))
<1> DEFINE n == Norm(c)
           H == "home"
           T == "target"
<1>0. /\ c["user"][H] \in Seq(C) /\ Fielded(c["user"], UserFields)
      /\ \A i \in DOMAIN c["mounts"] : IsMount(c["mounts"][i], C)
  BY DEF HasPaths, IsConfig
<1>1. /\ Fielded(n, ConfigFields)
      /\ \A f \in ConfigFields \ {"user", "mounts"} : n[f] = c[f]
      /\ n["user"] = [f \in UserFields |->
            IF f = "home" THEN Cleaned(c["user"][f]) ELSE c["user"][f]]
      /\ DOMAIN n["mounts"] = DOMAIN c["mounts"]
      /\ \A i \in DOMAIN c["mounts"] : n["mounts"][i] = [f \in MountFields |->
            IF f = "target" THEN Cleaned(c["mounts"][i][f]) ELSE c["mounts"][i][f]]
  BY NormFacts
<1> HIDE DEF n
<1>2. \A p \in Seq(C) : /\ Cleaned(p) \in Seq(C) /\ Cleaned(Cleaned(p)) = Cleaned(p)
                        /\ NewGuestPath(p) => NewGuestPath(Cleaned(p))
                        /\ CheckedGuestTarget(p) => CheckedGuestTarget(Cleaned(p))
  BY CleanedAccepted
<1>3. /\ n["user"][H] = Cleaned(c["user"][H]) /\ Fielded(n["user"], UserFields)
      /\ \A f \in UserFields : f # H => n["user"][f] = c["user"][f]
  BY <1>1 DEF UserFields, Fielded
<1>4. ASSUME NEW i \in DOMAIN c["mounts"]
      PROVE  /\ n["mounts"][i][T] = Cleaned(c["mounts"][i][T])
             /\ Fielded(n["mounts"][i], MountFields) /\ c["mounts"][i][T] \in Seq(C)
             /\ \A f \in MountFields : f # T => n["mounts"][i][f] = c["mounts"][i][f]
  <2> DEFINE u == c["mounts"][i]
             w == n["mounts"][i]
  <2>1. u[T] \in Seq(C)
    BY <1>0 DEF IsMount
  <2>2. w = [f \in MountFields |-> IF f = T THEN Cleaned(u[f]) ELSE u[f]]
    BY <1>1
  <2> HIDE DEF u, w
  <2>3. /\ w[T] = Cleaned(u[T]) /\ Fielded(w, MountFields)
        /\ \A f \in MountFields : f # T => w[f] = u[f]
    BY <2>2 DEF Fielded, MountFields
  <2> QED BY <2>1, <2>3 DEF u, w
<1> HIDE DEF H, T
<1>5. /\ n["user"][H] \in Seq(C) /\ Cleaned(n["user"][H]) = n["user"][H]
      /\ \A i \in DOMAIN n["mounts"] :
            /\ IsMount(n["mounts"][i], C) /\ Cleaned(n["mounts"][i][T]) = n["mounts"][i][T]
  BY <1>0, <1>1, <1>2, <1>3, <1>4 DEF IsMount, T
<1>6. IsConfig(n) /\ HasPaths(n, C)
  <2>1. \E k \in Nat : DOMAIN n["mounts"] = 1..k
    BY <1>1 DEF HasPaths
  <2> QED BY <1>1, <1>3, <1>5, <2>1 DEF IsConfig, HasPaths, H
<1>7. Norm(n) = n
  <2> DEFINE k == Norm(n)
  <2>1. /\ Fielded(k, ConfigFields)
        /\ \A f \in ConfigFields \ {"user", "mounts"} : k[f] = n[f]
        /\ k["user"] = CleanUser(n["user"]) /\ k["mounts"] = CleanMounts(n["mounts"])
    BY DEF Norm, ConfigFields, FlatFields, Fielded
  <2> HIDE DEF k
  <2>2. CleanUser(n["user"]) = n["user"]
    <3> DEFINE u == n["user"]
    <3>1. Fielded(u, UserFields) /\ Cleaned(u["home"]) = u["home"] /\ "home" \in UserFields
      BY <1>3, <1>5 DEF H, UserFields
    <3> HIDE DEF u
    <3>2. CleanUser(u) = [f \in UserFields |-> u[f]]
      BY <3>1, CleanFields
    <3> QED BY <3>1, <3>2 DEF Fielded, u
  <2>3. CleanMounts(n["mounts"]) = n["mounts"]
    <3>1. ASSUME NEW i \in DOMAIN n["mounts"]
          PROVE  CleanMount(n["mounts"][i]) = n["mounts"][i]
      <4> DEFINE u == n["mounts"][i]
      <4>1. Fielded(u, MountFields) /\ Cleaned(u["target"]) = u["target"] /\ "target" \in MountFields
        BY <1>5, <3>1 DEF T, MountFields, IsMount
      <4> HIDE DEF u
      <4>2. CleanMount(u) = [f \in MountFields |-> u[f]]
        BY <4>1, CleanFields
      <4> QED BY <4>1, <4>2 DEF Fielded, u
    <3>2. n["mounts"] = CleanMounts(c["mounts"])
      BY DEF n, Norm, ConfigFields
    <3>3. n["mounts"] = [i \in DOMAIN n["mounts"] |-> n["mounts"][i]]
      BY <3>2 DEF CleanMounts
    <3> QED BY <3>1, <3>3 DEF CleanMounts
  <2>4. \A f \in ConfigFields : k[f] = n[f]
    BY <2>1, <2>2, <2>3
  <2> QED BY <1>1, <2>1, <2>4 DEF Fielded, k
<1>8. ASSUME Validate(c)
      PROVE  Validate(n)
  <2>1. /\ ValidateValue(c, ConfigModel) /\ ValidateMounts(c["user"][H], c["mounts"])
        /\ c["schema_version"] = 1 /\ c["resources"].cpu > 0 /\ c["home"].root # "/"
        /\ ValidatePorts(c["network"].ports.tcp) /\ ValidatePorts(c["network"].ports.udp)
    BY <1>8 DEF Validate, H
  <2>2. \A f \in ConfigFields : ValidField(c[f], TypeOf(f))
    BY <2>1, ValidFields
  <2>3. ValidField(n["user"], UserModel)
    <3>1. FlatValid(c["user"], UserModel) /\ Flat(UserModel)
      <4>1. "user" \in ConfigFields /\ "user" \in FlatFields /\ TypeOf("user") = UserModel
        BY ConfigSchema DEF ConfigFields, FlatFields
      <4>2. ValidField(c["user"], UserModel) /\ Flat(UserModel)
        BY <2>2, <4>1, FlatTables
      <4> QED BY <4>2, ValidLevels
    <3>2. /\ DOMAIN UserModel.fields = UserFields /\ H \in UserFields
          /\ \A f \in UserFields : UserModel.fields[f].choices = {}
          /\ UserModel.fields[H].model = TextOf("GuestPath")
      BY UserSchema DEF UserFields, H, Untagged
    <3>3. ValidItem(n["user"][H], TextOf("GuestPath"))
      <4>1. ValidItem(c["user"][H], TextOf("GuestPath"))
        BY <3>1, <3>2 DEF FlatValid
      <4> QED BY <1>0, <1>2, <1>3, <4>1, ValidFields
    <3>4. \A f \in UserFields : ValidItem(n["user"][f], UserModel.fields[f].model)
      BY <1>3, <3>1, <3>2, <3>3 DEF FlatValid
    <3>5. FlatValid(n["user"], UserModel)
      BY <3>2, <3>4 DEF FlatValid
    <3> QED BY <3>1, <3>5, ValidLevels
  <2>4. ValidField(n["mounts"], ListOf(MountModel))
    <3>1. \A i \in DOMAIN c["mounts"] : FlatValid(c["mounts"][i], MountModel)
      <4>1. "mounts" \in ConfigFields /\ TypeOf("mounts") = ListOf(MountModel)
        BY ConfigSchema DEF ConfigFields
      <4>2. ValidField(c["mounts"], ListOf(MountModel))
        BY <2>2, <4>1
      <4> QED BY <4>2, ValidFields
    <3>2. /\ DOMAIN MountModel.fields = MountFields /\ T \in MountFields
          /\ MountModel.fields[T].choices = {}
          /\ MountModel.fields[T].model = TextOf("GuestPath")
      BY MountSchema DEF MountFields, T
    <3>3. ASSUME NEW i \in DOMAIN n["mounts"]
          PROVE  FlatValid(n["mounts"][i], MountModel)
      <4> DEFINE u == c["mounts"][i]
                 w == n["mounts"][i]
      <4>1. /\ w[T] = Cleaned(u[T]) /\ u[T] \in Seq(C)
            /\ \A f \in MountFields : f # T => w[f] = u[f]
        BY <1>1, <1>4, <3>3
      <4>2. FlatValid(u, MountModel)
        BY <1>1, <3>1, <3>3
      <4> HIDE DEF u, w
      <4>3. ValidItem(w[T], TextOf("GuestPath"))
        <5>1. ValidItem(u[T], TextOf("GuestPath"))
          BY <3>2, <4>2 DEF FlatValid
        <5> QED BY <1>2, <4>1, <5>1, ValidFields
      <4>4. FlatValid(w, MountModel)
        BY <3>2, <4>1, <4>2, <4>3 DEF FlatValid
      <4> QED BY <4>4 DEF w
    <3> QED BY <3>3, ValidFields
  <2>5. ValidateValue(n, ConfigModel)
    <3>1. TypeOf("user") = UserModel /\ TypeOf("mounts") = ListOf(MountModel)
      BY ConfigSchema
    <3>2. \A f \in ConfigFields : ValidField(n[f], TypeOf(f))
      BY <1>1, <2>2, <2>3, <2>4, <3>1
    <3> QED BY <3>2, ValidFields
  <2>6. ValidateMounts(n["user"][H], n["mounts"])
    <3>1. PICK len \in Nat : DOMAIN c["mounts"] = 1..len
      BY DEF HasPaths
    <3>2. ASSUME NEW i \in DOMAIN n["mounts"]
          PROVE  /\ CheckedGuestTarget(n["mounts"][i].target)
                 /\ ~Within(Cleaned(n["user"][H]), Cleaned(n["mounts"][i].target))
                 /\ \A k \in 1..(i - 1) :
                     /\ ~Within(Cleaned(n["mounts"][i].target), Cleaned(n["mounts"][k].target))
                     /\ ~Within(Cleaned(n["mounts"][k].target), Cleaned(n["mounts"][i].target))
      <4> DEFINE R(k) == Cleaned(c["mounts"][k][T])
      <4>1. /\ CheckedGuestTarget(c["mounts"][i][T])
            /\ ~Within(Cleaned(c["user"][H]), R(i))
            /\ \A k \in 1..(i - 1) : ~Within(R(i), R(k)) /\ ~Within(R(k), R(i))
        BY <1>1, <2>1, <3>2 DEF ValidateMounts, T
      <4>2. Cleaned(n["mounts"][i][T]) = R(i) /\ n["mounts"][i][T] = R(i)
        BY <1>1, <1>4, <1>5, <3>2
      <4>3. ASSUME NEW k \in 1..(i - 1)
            PROVE  Cleaned(n["mounts"][k][T]) = R(k)
        <5>1. k \in DOMAIN c["mounts"]
          BY <1>1, <3>1, <3>2
        <5> QED BY <1>1, <1>4, <1>5, <5>1
      <4>4. CheckedGuestTarget(c["mounts"][i][T]) => CheckedGuestTarget(R(i))
        BY <1>1, <1>2, <1>4, <3>2
      <4>5. Cleaned(n["user"][H]) = Cleaned(c["user"][H])
        BY <1>3, <1>5
      <4> HIDE DEF R
      <4> QED BY <4>1, <4>2, <4>3, <4>4, <4>5 DEF T
    <3>3. CheckedGuestTarget(n["user"][H])
      BY <1>0, <1>2, <1>3, <2>1 DEF ValidateMounts
    <3> QED BY <3>2, <3>3 DEF ValidateMounts
  <2>7. /\ n["schema_version"] = c["schema_version"] /\ n["resources"] = c["resources"]
        /\ n["home"] = c["home"] /\ n["network"] = c["network"]
    BY <1>1 DEF ConfigFields, FlatFields
  <2> QED BY <2>1, <2>5, <2>6, <2>7 DEF Validate, H
<1> QED BY <1>6, <1>7, <1>8 DEF n

(* Parse, without its walks.                                               *)
LEMMA ParsedPlain ==
    ASSUME NEW d, NEW reuse
    PROVE  Parse(d, reuse) = IF Accepted(d) /\ Validate(ConfigOf(d))
                             THEN [ok |-> TRUE, config |-> Norm(ConfigOf(d))] ELSE Refused
<1> DEFINE D == ApplyEntryDefaults(ConfigModel, Decode(ConfigModel, Base(d), d, reuse), d)
<1>1. Parse(d, reuse) = IF CheckShape(d, ConfigModel) /\ Validate(D)
                        THEN [ok |-> TRUE, config |-> Normalized(D)] ELSE Refused
  BY DEF Parse, Base
<1>2. CheckShape(d, ConfigModel) <=> Accepted(d)
  BY CheckAccepts
<1>3. Accepted(d) => D = ConfigOf(d)
  BY DecodedPlain
<1>4. Normalized(ConfigOf(d)) = Norm(ConfigOf(d))
  BY PlainConfig, NormalizedExplicit
<1> HIDE DEF D
<1> QED BY <1>1, <1>2, <1>3, <1>4

(* A document that is accepted means what it says, and is valid as it is   *)
(* saved.                                                                  *)
LEMMA ParsedMeans ==
    ASSUME NEW d, NEW Component, NEW reuse, Written(d, Component), Parse(d, reuse).ok
    PROVE  LET parsed == Parse(d, reuse)
           IN /\ Accepted(d) /\ Validate(ConfigOf(d))
              /\ parsed.config = Norm(ConfigOf(d))
              /\ parsed.config = Meaning(ConfigModel, Default, d)
              /\ Validate(parsed.config)
<1> DEFINE c == ConfigOf(d)
<1>1. Accepted(d) /\ Validate(c) /\ Parse(d, reuse) = [ok |-> TRUE, config |-> Norm(c)]
  BY ParsedPlain DEF Refused
<1>2. IsConfig(c) /\ HasPaths(c, PathParts(Component)) /\ Normalized(c) = Norm(c)
  BY <1>1, PlainConfig, ConfigPaths, NormalizedExplicit
<1>3. Meaning(ConfigModel, Default, d) = Norm(c)
  BY <1>1, <1>2, MeaningPlain
<1> HIDE DEF c
<1>4. Validate(Norm(c))
  BY <1>1, <1>2, NormValid
<1> QED BY <1>1, <1>3, <1>4 DEF c

(* Reading lines.                                                          *)

Through(f, s, lines) ==
    /\ DOMAIN f = 0..Len(lines) /\ f[0] = s
    /\ \A n \in 1..Len(lines) : f[n] = ReadLine(f[n - 1], lines[n])

ReadsTo(s, lines, t) == \E f : Through(f, s, lines) /\ f[Len(lines)] = t

(* The state that reading line by line reaches is the one ReadLines        *)
(* computes.                                                               *)
LEMMA ReadsEnd ==
    ASSUME NEW s, NEW L, NEW lines \in Seq(L), NEW t, ReadsTo(s, lines, t)
    PROVE  ReadLines(s, lines) = t
<1> DEFINE l == Len(lines)
           P(f) == f = [n \in 0..l |-> IF n = 0 THEN s ELSE ReadLine(f[n - 1], lines[n])]
           a == CHOOSE f : P(f)
<1>0. l \in Nat
  BY LenProperties
<1>1. ReadLines(s, lines) = a[l]
  BY Zenon DEF ReadLines
<1>2. PICK f : Through(f, s, lines) /\ f[l] = t
  BY DEF ReadsTo
<1> HIDE DEF l
<1>3. \A n \in 0..l : n # 0 => n \in 1..l /\ n - 1 \in 0..l
  BY <1>0
<1>4. \E h : P(h)
  <2> DEFINE h == [n \in 0..l |-> f[n]]
  <2>1. \A n \in 0..l : f[n] = IF n = 0 THEN s ELSE ReadLine(f[n - 1], lines[n])
    BY <1>2, <1>3 DEF Through, l
  <2>2. \A n \in 0..l : n # 0 => h[n - 1] = f[n - 1]
    BY <1>3
  <2>3. \A n \in 0..l : h[n] = f[n]
    OBVIOUS
  <2>5. [n \in 0..l |-> h[n]] = h
    OBVIOUS
  <2> HIDE DEF h
  <2>4. \A n \in 0..l : h[n] = IF n = 0 THEN s ELSE ReadLine(h[n - 1], lines[n])
    BY <2>1, <2>2, <2>3
  <2>6. [n \in 0..l |-> h[n]] =
            [n \in 0..l |-> IF n = 0 THEN s ELSE ReadLine(h[n - 1], lines[n])]
    BY <2>4
  <2>7. P(h)
    BY <2>5, <2>6
  <2> QED BY <2>7
<1>5. P(a)
  BY <1>4, Zenon
<1> HIDE DEF a
<1>6. \A n \in 0..l : a[n] = f[n]
  <2> DEFINE S == {n \in Nat : a[n] = f[n]}
  <2>1. 0 \in S
    <3>1. a[0] = s
      BY <1>0, <1>5
    <3> QED BY <1>2, <3>1 DEF Through
  <2>2. ASSUME NEW n \in 1..l, n - 1 \in S
        PROVE  n \in S
    <3>1. n \in 0..l /\ n # 0 /\ n \in Nat
      BY <1>0
    <3>2. a[n] = ReadLine(a[n - 1], lines[n])
      BY <1>5, <3>1
    <3>3. f[n] = ReadLine(f[n - 1], lines[n])
      BY <1>2 DEF Through, l
    <3> QED BY <2>2, <3>1, <3>2, <3>3
  <2>3. \A n \in 0..l : n \in S
    <3> HIDE DEF S
    <3> QED BY <1>0, <2>1, <2>2, InductionTo
  <2> QED BY <2>3
<1>7. l \in 0..l
  BY <1>0
<1> QED BY <1>1, <1>2, <1>6, <1>7

(* Nothing to read changes nothing.                                        *)
LEMMA ReadsNothing == \A s : ReadsTo(s, <<>>, s)
<1> SUFFICES ASSUME NEW s
             PROVE  ReadsTo(s, <<>>, s)
  OBVIOUS
<1>1. Len(<<>>) = 0
  OBVIOUS
<1>2. LET f == [n \in 0..0 |-> s] IN Through(f, s, <<>>) /\ f[0] = s
  BY <1>1 DEF Through
<1> QED BY <1>1, <1>2 DEF ReadsTo

(* One more line is one more step.                                         *)
LEMMA ReadsMore ==
    ASSUME NEW s, NEW t, NEW L, NEW lines \in Seq(L), NEW line \in L, ReadsTo(s, lines, t)
    PROVE  ReadsTo(s, Append(lines, line), ReadLine(t, line))
<1> DEFINE l == Len(lines)
           m == Append(lines, line)
<1>1. /\ l \in Nat /\ Len(m) = l + 1 /\ m[l + 1] = line
      /\ \A n \in 1..l : m[n] = lines[n]
  BY LenProperties, AppendProperties
<1>2. PICK f : Through(f, s, lines) /\ f[l] = t
  BY DEF ReadsTo
<1> DEFINE g == [n \in 0..(l + 1) |-> IF n = l + 1 THEN ReadLine(t, line) ELSE f[n]]
<1>3. /\ f[0] = s /\ \A n \in 1..l : f[n] = ReadLine(f[n - 1], lines[n])
  BY <1>2 DEF Through
<1> HIDE DEF m, l
<1>4. g[0] = s /\ g[l + 1] = ReadLine(t, line) /\ DOMAIN g = 0..(l + 1)
  BY <1>1, <1>3
<1>5. ASSUME NEW n \in 1..(l + 1)
      PROVE  g[n] = ReadLine(g[n - 1], m[n])
  <2>1. n - 1 \in 0..(l + 1) /\ n - 1 # l + 1 /\ n \in 0..(l + 1)
    BY <1>1
  <2>2. g[n - 1] = f[n - 1]
    BY <2>1
  <2>3. CASE n = l + 1
    BY <1>1, <1>2, <1>4, <2>2, <2>3
  <2>4. CASE n # l + 1
    <3>1. n \in 1..l /\ g[n] = f[n]
      BY <1>1, <2>1, <2>4
    <3>2. f[n] = ReadLine(f[n - 1], lines[n]) /\ m[n] = lines[n]
      BY <1>1, <1>3, <3>1
    <3> QED BY <2>2, <3>1, <3>2
  <2> QED BY <2>3, <2>4
<1> HIDE DEF g
<1>6. Through(g, s, m)
  BY <1>1, <1>4, <1>5 DEF Through
<1>7. ReadsTo(s, m, ReadLine(t, line))
  BY <1>1, <1>4, <1>6 DEF ReadsTo
<1> QED BY <1>7 DEF m

(* Lines are read after lines.                                             *)
LEMMA ReadsConcat ==
    ASSUME NEW s, NEW t, NEW u, NEW L, NEW lines \in Seq(L), NEW more \in Seq(L),
           ReadsTo(s, lines, t), ReadsTo(t, more, u)
    PROVE  ReadsTo(s, lines \o more, u)
<1> DEFINE l == Len(lines)
           k == Len(more)
           m == lines \o more
<1>1. /\ l \in Nat /\ k \in Nat /\ Len(m) = l + k
      /\ \A n \in 1..l : m[n] = lines[n]
      /\ \A n \in 1..k : m[l + n] = more[n]
  BY LenProperties, ConcatProperties
<1>2. PICK f : Through(f, s, lines) /\ f[l] = t
  BY DEF ReadsTo
<1>3. PICK g : Through(g, t, more) /\ g[k] = u
  BY DEF ReadsTo
<1> DEFINE h == [n \in 0..(l + k) |-> IF n <= l THEN f[n] ELSE g[n - l]]
<1>4. /\ f[0] = s /\ \A n \in 1..l : f[n] = ReadLine(f[n - 1], lines[n])
  BY <1>2 DEF Through
<1>5. /\ g[0] = t /\ \A n \in 1..k : g[n] = ReadLine(g[n - 1], more[n])
  BY <1>3 DEF Through
<1> HIDE DEF m, l, k
<1>6. h[0] = s /\ DOMAIN h = 0..(l + k)
  BY <1>1, <1>4
<1>7. \A n \in 0..k : h[l + n] = g[n]
  <2> SUFFICES ASSUME NEW n \in 0..k
               PROVE  h[l + n] = g[n]
    OBVIOUS
  <2>1. l + n \in 0..(l + k) /\ (l + n) - l = n /\ (l + n <= l <=> n = 0)
    BY <1>1
  <2>2. h[l + n] = IF l + n <= l THEN f[l + n] ELSE g[(l + n) - l]
    BY <2>1
  <2>3. n = 0 => l + n = l
    BY <1>1
  <2> HIDE DEF h
  <2> QED BY <1>2, <1>5, <2>1, <2>2, <2>3
<1>8. ASSUME NEW n \in 1..(l + k)
      PROVE  h[n] = ReadLine(h[n - 1], m[n])
  <2>1. CASE n <= l
    <3>1. n \in 1..l /\ n \in 0..(l + k) /\ n - 1 \in 0..(l + k) /\ n - 1 <= l
      BY <1>1, <2>1
    <3>2. h[n] = f[n] /\ h[n - 1] = f[n - 1]
      BY <2>1, <3>1
    <3> HIDE DEF h
    <3> QED BY <1>1, <1>4, <3>1, <3>2
  <2>2. CASE n > l
    <3> DEFINE j == n - l
    <3>1. j \in 1..k /\ j - 1 \in 0..k /\ j \in 0..k /\ n = l + j /\ n - 1 = l + (j - 1)
      BY <1>1, <2>2
    <3> HIDE DEF h, j
    <3>2. h[n] = g[j] /\ h[n - 1] = g[j - 1] /\ m[n] = more[j]
      BY <1>1, <1>7, <3>1
    <3> QED BY <1>5, <3>1, <3>2
  <2> QED BY <1>1, <2>1, <2>2
<1> HIDE DEF h
<1>9. h[l + k] = u
  BY <1>1, <1>3, <1>7
<1>10. Through(h, s, m)
  BY <1>1, <1>6, <1>8 DEF Through
<1>11. ReadsTo(s, m, u)
  BY <1>1, <1>9, <1>10 DEF ReadsTo
<1> QED BY <1>11 DEF m

IsSeq(s) == s \in Seq(Range(s))

(* A sequence over any set is one over its own elements.                   *)
LEMMA IsSeqs ==
    ASSUME NEW L, NEW s \in Seq(L)
    PROVE  IsSeq(s)
<1>1. DOMAIN s = 1..Len(s) /\ Len(s) \in Nat
  BY LenProperties
<1>2. s \in [1..Len(s) -> Range(s)]
  <2>1. s = [i \in 1..Len(s) |-> s[i]]
    BY <1>1
  <2> QED BY <1>1, <2>1 DEF Range
<1> DEFINE R == Range(s)
           l == Len(s)
<1>3. s \in [1..l -> R] /\ l \in Nat
  BY <1>1, <1>2
<1> HIDE DEF R, l
<1>4. s \in Seq(R)
  BY <1>3, FunctionIsSeq
<1> QED BY <1>4 DEF R, IsSeq

(* Block after block.                                                      *)
LEMMA ReadsBlocks ==
    ASSUME NEW L, NEW B \in Seq(Seq(L)), NEW g,
           \A i \in 1..Len(B) : ReadsTo(g[i - 1], B[i], g[i])
    PROVE  ReadsTo(g[0], FlattenSeq(B), g[Len(B)])
<1> DEFINE D == Seq(L)
           Good(b) == \A i \in 1..Len(b) : ReadsTo(g[i - 1], b[i], g[i])
           S == {b \in Seq(D) : Good(b) => ReadsTo(g[0], FlattenSeq(b), g[Len(b)])}
<1>1. <<>> \in S
  <2>1. <<>> \in Seq(D) /\ Len(<<>>) = 0 /\ FlattenSeq(<<>>) = <<>>
    BY FlattenAppend
  <2>2. ReadsTo(g[0], FlattenSeq(<<>>), g[Len(<<>>)])
    BY <2>1, ReadsNothing
  <2> HIDE DEF Good
  <2> QED BY <2>1, <2>2
<1>2. ASSUME NEW b \in Seq(D), NEW c \in D, b \in S
      PROVE  Append(b, c) \in S
  <2> DEFINE a == Append(b, c)
             l == Len(b)
  <2>1. /\ a \in Seq(D) /\ l \in Nat /\ Len(a) = l + 1 /\ a[l + 1] = c
        /\ \A i \in 1..l : a[i] = b[i]
    BY LenProperties, AppendProperties
  <2>2. FlattenSeq(a) = FlattenSeq(b) \o c /\ FlattenSeq(b) \in Seq(L)
    BY FlattenAppend
  <2> HIDE DEF a
  <2>3. ASSUME Good(a)
        PROVE  ReadsTo(g[0], FlattenSeq(a), g[Len(a)])
    <3>1. Good(b)
      BY <2>1, <2>3
    <3>2. ReadsTo(g[0], FlattenSeq(b), g[l])
      BY <1>2, <3>1
    <3>3. ReadsTo(g[l], c, g[l + 1])
      <4>1. l + 1 \in 1..Len(a) /\ (l + 1) - 1 = l
        BY <2>1
      <4>2. ReadsTo(g[(l + 1) - 1], a[l + 1], g[l + 1])
        BY <2>3, <4>1
      <4> QED BY <2>1, <4>1, <4>2
    <3> QED BY <2>1, <2>2, <3>2, <3>3, ReadsConcat
  <2> HIDE DEF Good
  <2>4. a \in S
    BY <2>1, <2>3
  <2> QED BY <2>4 DEF a
<1>3. \A b \in Seq(D) : b \in S
  <2> HIDE DEF S, D
  <2> QED BY <1>1, <1>2, SequenceInduction
<1> QED BY <1>3

(* A list of blocks is a sequence of sequences over one set of lines.      *)
LEMMA BlockLists ==
    ASSUME NEW n \in Nat, NEW B, B = [i \in 1..n |-> B[i]], \A i \in 1..n : IsSeq(B[i])
    PROVE  \E L : B \in Seq(Seq(L)) /\ Len(B) = n
<1> DEFINE L == UNION {Range(B[i]) : i \in 1..n}
<1>1. ASSUME NEW i \in 1..n
      PROVE  B[i] \in Seq(L)
  <2> DEFINE R == Range(B[i])
  <2>1. R \subseteq L /\ B[i] \in Seq(R)
    BY DEF IsSeq
  <2> HIDE DEF R, L
  <2> QED BY <2>1, SeqMonotonic
<1> DEFINE D == Seq(L)
<1> HIDE DEF D, L
<1>2. B \in [1..n -> D]
  BY <1>1 DEF D
<1>3. B \in Seq(D)
  BY <1>2, FunctionIsSeq
<1>4. Len(B) = n
  BY <1>2
<1> QED BY <1>3, <1>4 DEF D

-----------------------------------------------------------------------------
(* Places. A name is short: a table of the document or a list, or a table  *)
(* in a table.                                                             *)

(* The places on the way to a name are a child of a child.                 *)
LEMMA PlacesAre ==
    ASSUME NEW t, NEW name, NEW n \in 0..2, Len(name) = n
    PROVE  LET place == PlacesTo(t, name)
           IN /\ place[0] = t
              /\ n >= 1 => place[1] = Child(t, name[1])
              /\ n = 2 => place[2] = Child(Child(t, name[1]), name[2])
<1> DEFINE P(f) == f = [i \in 0..Len(name) |-> IF i = 0 THEN t ELSE Child(f[i - 1], name[i])]
           Q(f) == f = [i \in 0..n |-> IF i = 0 THEN t ELSE Child(f[i - 1], name[i])]
           a == CHOOSE f : P(f)
           x == Child(t, name[1])
           y == Child(x, name[2])
           h == [i \in 0..n |-> IF i = 0 THEN t ELSE IF i = 1 THEN x ELSE y]
<1>1. PlacesTo(t, name) = a
  BY Zenon DEF PlacesTo
<1>2. \A i \in 0..n : i # 0 => i - 1 \in 0..n /\ i \in {1, 2}
  OBVIOUS
<1>3. Q(h)
  <2>1. \A i \in 0..n : h[i] = IF i = 0 THEN t ELSE Child(h[i - 1], name[i])
    <3> HIDE DEF x, y
    <3>0. y = Child(x, name[2]) /\ x = Child(t, name[1])
      BY DEF x, y
    <3>1. \A i \in 0..n : h[i] = IF i = 0 THEN t ELSE IF i = 1 THEN x ELSE y
      OBVIOUS
    <3> HIDE DEF h
    <3> SUFFICES ASSUME NEW i \in 0..n
                 PROVE  h[i] = IF i = 0 THEN t ELSE Child(h[i - 1], name[i])
      OBVIOUS
    <3>2. CASE i = 0
      BY <3>1, <3>2
    <3>3. CASE i = 1
      BY <3>0, <3>1, <3>3
    <3>4. CASE i = 2
      BY <3>0, <3>1, <3>4
    <3> QED BY <1>2, <3>2, <3>3, <3>4
  <2>2. h = [i \in 0..n |-> h[i]]
    OBVIOUS
  <2> HIDE DEF h
  <2> QED BY <2>1, <2>2
<1> HIDE DEF h
<1>4. P(h)
  BY <1>3
<1> HIDE DEF P
<1>5. P(a)
  BY <1>4, Zenon
<1> HIDE DEF a
<1>6. Q(a)
  BY <1>5 DEF P
<1> HIDE DEF x, y
<1>7. a[0] = t /\ (n >= 1 => a[1] = Child(a[0], name[1])) /\ (n = 2 => a[2] = Child(a[1], name[2]))
  BY <1>6
<1> QED BY <1>1, <1>7

(* A key is put into the place that its name leads to, which is put into   *)
(* the one before.                                                         *)
LEMMA PutsAre ==
    ASSUME NEW t, NEW name, NEW n \in 0..2, Len(name) = n, NEW k, NEW v
    PROVE  LET place == PlacesTo(t, name)
               put == PutInto(place[n], k, v)
           IN PutAt(t, name, k, v) =
                IF n = 0 THEN put
                ELSE IF n = 1 THEN PutInto(place[0], name[1], put)
                ELSE PutInto(place[0], name[1], PutInto(place[1], name[2], put))
<1> DEFINE p == PlacesTo(t, name)
           P(f) == f = [i \in 0..Len(name) |->
                            IF i = 0 THEN PutInto(p[Len(name)], k, v)
                            ELSE PutInto(p[Len(name) - i], name[Len(name) - i + 1], f[i - 1])]
           a == CHOOSE f : P(f)
           x == PutInto(p[n], k, v)
           y == PutInto(p[n - 1], name[n], x)
           z == PutInto(p[n - 2], name[n - 1], y)
           h == [i \in 0..n |-> IF i = 0 THEN x ELSE IF i = 1 THEN y ELSE z]
           Q(f) == f = [i \in 0..n |->
                            IF i = 0 THEN x ELSE PutInto(p[n - i], name[n - i + 1], f[i - 1])]
<1>1. PutAt(t, name, k, v) = a[n]
  <2>1. PutAt(t, name, k, v) = a[Len(name)]
    BY Zenon DEF PutAt
  <2> HIDE DEF a
  <2> QED BY <2>1
<1>2. \A i \in 0..n : i # 0 => i - 1 \in 0..n /\ i \in {1, 2}
  OBVIOUS
<1>3. /\ n >= 1 => (n - 1) + 1 = n
      /\ n = 2 => (n - 2) + 1 = n - 1
      /\ y = PutInto(p[n - 1], name[n], x) /\ z = PutInto(p[n - 2], name[n - 1], y)
  OBVIOUS
<1> HIDE DEF p, x, y, z
<1>4. Q(h)
  <2>1. \A i \in 0..n : h[i] = IF i = 0 THEN x ELSE IF i = 1 THEN y ELSE z
    OBVIOUS
  <2>2. h = [i \in 0..n |-> h[i]]
    OBVIOUS
  <2> HIDE DEF h
  <2>3. \A i \in 0..n : h[i] = IF i = 0 THEN x ELSE PutInto(p[n - i], name[n - i + 1], h[i - 1])
    <3> SUFFICES ASSUME NEW i \in 0..n
                 PROVE  h[i] = IF i = 0 THEN x
                               ELSE PutInto(p[n - i], name[n - i + 1], h[i - 1])
      OBVIOUS
    <3>1. CASE i = 0
      BY <2>1, <3>1
    <3>2. CASE i = 1
      <4>1. h[1] = y /\ h[0] = x /\ (n - 1) + 1 = n
        BY <2>1, <3>2
      <4> QED BY <1>3, <3>2, <4>1
    <3>3. CASE i = 2
      <4>1. h[2] = z /\ h[1] = y /\ (n - 2) + 1 = n - 1
        BY <2>1, <3>3
      <4> QED BY <1>3, <3>3, <4>1
    <3> QED BY <1>2, <3>1, <3>2, <3>3
  <2> QED BY <2>2, <2>3
<1> HIDE DEF h
<1>5. P(h)
  BY <1>4 DEF x
<1> HIDE DEF P
<1>6. P(a)
  BY <1>5, Zenon
<1> HIDE DEF a
<1>7. Q(a)
  BY <1>6 DEF P, x
<1>8. /\ a[0] = x
      /\ n >= 1 => a[1] = PutInto(p[n - 1], name[(n - 1) + 1], a[0])
      /\ n = 2 => a[2] = PutInto(p[n - 2], name[(n - 2) + 1], a[1])
  BY <1>7
<1>9. a[n] = IF n = 0 THEN x
             ELSE IF n = 1 THEN PutInto(p[0], name[1], x)
             ELSE PutInto(p[0], name[1], PutInto(p[1], name[2], x))
  <2>1. CASE n = 0
    BY <1>8, <2>1
  <2>2. CASE n = 1
    BY <1>8, <2>2
  <2>3. CASE n = 2
    BY <1>8, <2>3
  <2> QED BY <2>1, <2>2, <2>3
<1> QED BY <1>1, <1>9 DEF p, x

\* The names of a table, or a list, and of a table in a table.
One(f)    == <<f>>
Two(f, g) == <<f, g>>

(* What a name of one or two parts leads to, and what opening it changes.  *)
LEMMA NamesLead ==
    ASSUME NEW t, NEW f, NEW g, NEW k, NEW v
    PROVE  /\ PutAt(t, <<>>, k, v) = PutInto(t, k, v)
           /\ PutAt(t, One(f), k, v) = PutInto(t, f, PutInto(Child(t, f), k, v))
           /\ PutAt(t, Two(f, g), k, v)
                = PutInto(t, f, PutInto(Child(t, f), g, PutInto(Child(Child(t, f), g), k, v)))
           /\ Len(One(f)) = 1 /\ PlacesTo(t, One(f))[1] = Child(t, f)
           /\ Len(Two(f, g)) = 2 /\ PlacesTo(t, Two(f, g))[2] = Child(Child(t, f), g)
           /\ Opened(t, One(f), v) = PutInto(t, f, v)
           /\ Opened(t, Two(f, g), v) = PutInto(t, f, PutInto(Child(t, f), g, v))
<1>1. /\ Len(<<>>) = 0 /\ Len(<<f>>) = 1 /\ Len(<<f, g>>) = 2
      /\ <<f>>[1] = f /\ <<f, g>>[1] = f /\ <<f, g>>[2] = g
  OBVIOUS
<1>2. 0 \in 0..2 /\ 1 \in 0..2 /\ 2 \in 0..2 /\ 1 >= 1 /\ 2 >= 1 /\ 1 # 0 /\ 2 # 0 /\ 2 # 1
  OBVIOUS
<1> DEFINE A == <<f>>
           B == <<f, g>>
           O == <<>>
           c == Child(t, f)
           d == Child(c, g)
<1>3. PlacesTo(t, O)[0] = t
  BY <1>1, <1>2, PlacesAre
<1>4. PlacesTo(t, A)[0] = t /\ PlacesTo(t, A)[1] = c
  <2> HIDE DEF A
  <2>1. Len(A) = 1 /\ A[1] = f
    BY <1>1 DEF A
  <2> QED BY <1>2, <2>1, PlacesAre
<1>5. PlacesTo(t, B)[0] = t /\ PlacesTo(t, B)[1] = c /\ PlacesTo(t, B)[2] = d
  <2> HIDE DEF B
  <2>1. Len(B) = 2 /\ B[1] = f /\ B[2] = g
    BY <1>1 DEF B
  <2> QED BY <1>2, <2>1, PlacesAre
<1> HIDE DEF c, d
<1>6. \A key, value : PutAt(t, O, key, value) = PutInto(t, key, value)
  <2> SUFFICES ASSUME NEW key, NEW value
               PROVE  PutAt(t, O, key, value) = PutInto(t, key, value)
    OBVIOUS
  <2>1. Len(O) = 0
    BY <1>1
  <2> HIDE DEF O
  <2> QED BY <1>2, <1>3, <2>1, PutsAre
<1>7. \A key, value : PutAt(t, A, key, value) = PutInto(t, f, PutInto(c, key, value))
  <2> SUFFICES ASSUME NEW key, NEW value
               PROVE  PutAt(t, A, key, value) = PutInto(t, f, PutInto(c, key, value))
    OBVIOUS
  <2>1. Len(A) = 1 /\ A[1] = f
    BY <1>1
  <2> HIDE DEF A
  <2> QED BY <1>2, <1>4, <2>1, PutsAre
<1>8. PutAt(t, B, k, v) = PutInto(t, f, PutInto(c, g, PutInto(d, k, v)))
  <2>1. Len(B) = 2 /\ B[1] = f /\ B[2] = g
    BY <1>1
  <2> HIDE DEF B
  <2> QED BY <1>2, <1>5, <2>1, PutsAre
<1>9. Front(A) = O /\ Last(A) = f /\ Front(B) = A /\ Last(B) = g
  <2>1. Last(A) = f /\ Last(B) = g
    BY <1>1 DEF Last
  <2> DEFINE S == {f, g}
  <2>2. A \in Seq(S) /\ B \in Seq(S) /\ Len(A) - 1 = 0 /\ Len(B) - 1 = 1
    BY <1>1
  <2> HIDE DEF S
  <2>3. Front(A) = O
    <3>1. SubSeq(A, 1, 0) = <<>>
      BY <2>2, SubSeqProperties
    <3> QED BY <2>2, <3>1 DEF Front
  <2>4. Front(B) = A
    <3> DEFINE q == SubSeq(B, 1, 1)
    <3>0. 1 \in 1..Len(B) /\ B[1] \in S
      BY <2>2
    <3>1. q \in Seq(S) /\ Len(q) = 1 /\ q[1] = B[1]
      <4>1. \A i \in 1..1 : B[i] \in S
        BY <3>0
      <4> HIDE DEF B
      <4> QED BY <4>1, SubSeqProperties
    <3>2. A \in Seq(S) /\ Len(A) = 1 /\ A[1] = B[1]
      BY <1>1, <2>2
    <3> HIDE DEF A, B, q
    <3>3. q = A
      BY <3>1, <3>2, SeqEqual
    <3>4. Front(B) = q
      BY <2>2 DEF Front, q
    <3> QED BY <3>3, <3>4
  <2> QED BY <2>1, <2>3, <2>4
<1> HIDE DEF O, A, B
<1>10. Opened(t, A, v) = PutInto(t, f, v)
  BY <1>6, <1>9 DEF Opened
<1>11. Opened(t, B, v) = PutInto(t, f, PutInto(c, g, v))
  BY <1>7, <1>9 DEF Opened
<1>12. PutAt(t, O, k, v) = PutInto(t, k, v) /\ PutAt(t, A, k, v) = PutInto(t, f, PutInto(c, k, v))
  BY <1>6, <1>7
<1>13. O = <<>> /\ A = One(f) /\ B = Two(f, g) /\ c = Child(t, f) /\ d = Child(c, g)
  BY DEF O, A, B, c, d, One, Two
<1>14. Len(A) = 1 /\ Len(B) = 2
  BY <1>1 DEF A, B
<1> QED BY <1>4, <1>5, <1>8, <1>10, <1>11, <1>12, <1>13, <1>14

(* The same for every table and name.                                      *)
LEMMA Names ==
    /\ \A t, k, v : PutAt(t, <<>>, k, v) = PutInto(t, k, v)
    /\ \A t, f, k, v : PutAt(t, One(f), k, v) = PutInto(t, f, PutInto(Child(t, f), k, v))
    /\ \A t, f, g, k, v :
            PutAt(t, Two(f, g), k, v)
                = PutInto(t, f, PutInto(Child(t, f), g, PutInto(Child(Child(t, f), g), k, v)))
    /\ \A t, f : PlacesTo(t, One(f))[Len(One(f))] = Child(t, f)
    /\ \A t, f, g : PlacesTo(t, Two(f, g))[Len(Two(f, g))] = Child(Child(t, f), g)
    /\ \A t, f, v : Opened(t, One(f), v) = PutInto(t, f, v)
    /\ \A t, f, g, v : Opened(t, Two(f, g), v) = PutInto(t, f, PutInto(Child(t, f), g, v))
<1>1. \A t, k, v : PutAt(t, <<>>, k, v) = PutInto(t, k, v)
  BY NamesLead
<1>2. \A t, f, k, v : PutAt(t, One(f), k, v) = PutInto(t, f, PutInto(Child(t, f), k, v))
  BY NamesLead
<1>3. \A t, f, g, k, v :
        PutAt(t, Two(f, g), k, v)
            = PutInto(t, f, PutInto(Child(t, f), g, PutInto(Child(Child(t, f), g), k, v)))
  BY NamesLead
<1>4. \A t, f : PlacesTo(t, One(f))[Len(One(f))] = Child(t, f)
  BY NamesLead
<1>5. ASSUME NEW t, NEW f, NEW g
      PROVE  PlacesTo(t, Two(f, g))[Len(Two(f, g))] = Child(Child(t, f), g)
  <2>1. Len(Two(f, g)) = 2 /\ PlacesTo(t, Two(f, g))[2] = Child(Child(t, f), g)
    BY NamesLead
  <2> QED BY <2>1
<1>6. \A t, f, v : Opened(t, One(f), v) = PutInto(t, f, v)
  BY NamesLead
<1>7. \A t, f, g, v : Opened(t, Two(f, g), v) = PutInto(t, f, PutInto(Child(t, f), g, v))
  BY NamesLead
<1> QED BY <1>1, <1>2, <1>3, <1>4, <1>5, <1>6, <1>7

(* Keys are read into the table of the last header: the document, a table  *)
(* of it, the last entry of a list, or a table in a table.                 *)

TableAt(w, x) ==
    CASE w.kind = "top" -> x
      [] w.kind = "table" -> Assign(w.entries, w.field, Table(x))
      [] w.kind = "inner" ->
            Assign(w.entries, w.field, Table(Assign(w.outer, w.part, Table(x))))
      [] OTHER -> Assign(w.entries, w.field, Array(Append(w.items, Table(x))))

NameAt(w) ==
    CASE w.kind = "top" -> <<>>
      [] w.kind = "inner" -> Two(w.field, w.part)
      [] OTHER -> One(w.field)

Spot(w, x, at) == [table |-> Table(TableAt(w, x)), at |-> at]
StateAt(w, x)  == Spot(w, x, NameAt(w))

IsPlace(w) ==
    /\ w.kind \in {"top", "table", "inner", "entry"}
    /\ w.kind = "entry" => IsSeq(w.items)

(* A later assignment to a key replaces an earlier one.                    *)
LEMMA AssignAgain ==
    ASSUME NEW e, NEW f, NEW x, NEW y
    PROVE  /\ Assign(Assign(e, f, x), f, y) = Assign(e, f, y)
           /\ Assign(e, f, x)[f] = x /\ f \in DOMAIN Assign(e, f, x)
BY DEF Assign

(* The last entry of a list is the one just appended.                      *)
LEMMA LastReplaced ==
    ASSUME NEW s, IsSeq(s), NEW x, NEW y
    PROVE  LET a == Append(s, x)
           IN [a EXCEPT ![Len(a)] = y] = Append(s, y) /\ a[Len(a)] = x
<1> DEFINE R == Range(s) \cup {x, y}
<1>1. s \in Seq(R)
  <2> DEFINE Q == Range(s)
  <2>1. Q \subseteq R /\ s \in Seq(Q)
    BY DEF IsSeq
  <2> HIDE DEF Q, R
  <2> QED BY <2>1, SeqMonotonic
<1>2. x \in R /\ y \in R
  OBVIOUS
<1> HIDE DEF R
<1>3. \A z \in R : /\ Len(Append(s, z)) = Len(s) + 1 /\ Len(s) \in Nat
                   /\ Append(s, z) = [i \in 1..(Len(s) + 1) |-> IF i = Len(s) + 1 THEN z ELSE s[i]]
  <2> SUFFICES ASSUME NEW z \in R
               PROVE  /\ Len(Append(s, z)) = Len(s) + 1 /\ Len(s) \in Nat
                      /\ Append(s, z) = [i \in 1..(Len(s) + 1) |->
                                            IF i = Len(s) + 1 THEN z ELSE s[i]]
    OBVIOUS
  <2>1. Len(s) \in Nat /\ Append(s, z) \in Seq(R) /\ Len(Append(s, z)) = Len(s) + 1
    BY <1>1
  <2>2. \A i \in 1..(Len(s) + 1) : Append(s, z)[i] = IF i = Len(s) + 1 THEN z ELSE s[i]
    BY <1>1
  <2>3. Append(s, z) = [i \in 1..(Len(s) + 1) |-> Append(s, z)[i]]
    <3> DEFINE a == Append(s, z)
    <3>1. a \in Seq(R) /\ Len(a) = Len(s) + 1
      BY <2>1
    <3> HIDE DEF a
    <3>2. a = [i \in 1..Len(a) |-> a[i]]
      BY <3>1
    <3>3. a = [i \in 1..(Len(s) + 1) |-> a[i]]
      BY <3>1, <3>2
    <3> QED BY <3>3 DEF a
  <2> QED BY <2>1, <2>2, <2>3
<1> DEFINE a == Append(s, x)
           b == Append(s, y)
           l == Len(s) + 1
<1>4. Len(a) = l /\ l \in 1..l
  BY <1>2, <1>3
<1>5. /\ a = [i \in 1..l |-> IF i = l THEN x ELSE s[i]]
      /\ b = [i \in 1..l |-> IF i = l THEN y ELSE s[i]]
  BY <1>2, <1>3
<1> HIDE DEF a, b, l
<1>6. [a EXCEPT ![l] = y] = b /\ a[l] = x
  BY <1>4, <1>5
<1> QED BY <1>4, <1>6 DEF a, b

(* A table is put into as it is, a list through its last entry.            *)
LEMMA Puts ==
    /\ \A e : /\ Table(e).entries = e /\ Table(e).kind = "table"
              /\ Array(e).items = e /\ Array(e).kind = "array"
    /\ \A e, k, v : PutInto(Table(e), k, v) = Table(Assign(e, k, v))
    /\ \A e, f, x : Child(Table(Assign(e, f, x)), f) = x
    /\ \A e, f, x, v : PutInto(Table(Assign(e, f, x)), f, v) = Table(Assign(e, f, v))
    /\ \A e, f : f \notin DOMAIN e => Child(Table(e), f) = Table(<<>>)
<1>1. \A e : /\ Table(e).entries = e /\ Table(e).kind = "table"
             /\ Array(e).items = e /\ Array(e).kind = "array"
  BY DEF Table, Array
<1>2. \A e, k, v : PutInto(Table(e), k, v) = Table(Assign(e, k, v))
  BY <1>1 DEF PutInto, PutKey
<1>3. \A e : TableOf(Table(e)) = Table(e)
  BY <1>1 DEF TableOf
<1>4. ASSUME NEW e, NEW f, NEW x
      PROVE  Child(Table(Assign(e, f, x)), f) = x
  <2> DEFINE d == Assign(e, f, x)
  <2>1. d[f] = x /\ f \in DOMAIN d
    BY AssignAgain
  <2> HIDE DEF d
  <2>2. Child(Table(d), f) = x
    BY <1>1, <1>3, <2>1 DEF Child
  <2> QED BY <2>2 DEF d
<1>5. ASSUME NEW e, NEW f, NEW x, NEW v
      PROVE  PutInto(Table(Assign(e, f, x)), f, v) = Table(Assign(e, f, v))
  <2>1. PutInto(Table(Assign(e, f, x)), f, v) = Table(Assign(Assign(e, f, x), f, v))
    BY <1>2
  <2>2. Assign(Assign(e, f, x), f, v) = Assign(e, f, v)
    BY AssignAgain
  <2> QED BY <2>1, <2>2
<1>6. \A e, f : f \notin DOMAIN e => Child(Table(e), f) = Table(<<>>)
  BY <1>1, <1>3 DEF Child
<1> QED BY <1>1, <1>2, <1>4, <1>5, <1>6

(* The last entry of a list takes the keys after its header.               *)
LEMMA EntryPuts ==
    ASSUME NEW s, IsSeq(s), NEW x, NEW k, NEW v
    PROVE  PutInto(Array(Append(s, Table(x))), k, v) = Array(Append(s, Table(Assign(x, k, v))))
<1> DEFINE p == Table(x)
           q == Table(Assign(x, k, v))
           a == Append(s, p)
<1>1. Array(a).items = a /\ Array(a).kind = "array"
  BY DEF Array
<1>2. PutKey(p, k, v) = q
  BY DEF PutKey, Table
<1> HIDE DEF p, q
<1>3. [a EXCEPT ![Len(a)] = q] = Append(s, q) /\ a[Len(a)] = p
  BY LastReplaced
<1> HIDE DEF a
<1>4. PutInto(Array(a), k, v) = Array([a EXCEPT ![Len(a)] = PutKey(a[Len(a)], k, v)])
  BY <1>1 DEF PutInto
<1>5. PutInto(Array(a), k, v) = Array(Append(s, q))
  BY <1>2, <1>3, <1>4
<1> QED BY <1>5 DEF a, p, q

(* A key is assigned in the table of the last header.                      *)
LEMMA KeyRead ==
    ASSUME NEW w, IsPlace(w), NEW x, NEW k, NEW v
    PROVE  ReadLine(StateAt(w, x), KeyLine(k, v)) = StateAt(w, Assign(x, k, v))
<1> DEFINE s == StateAt(w, x)
           l == KeyLine(k, v)
           t == TableAt(w, x)
           u == TableAt(w, Assign(x, k, v))
<1>1. l.line = "key" /\ l.key = k /\ l.value = v
  BY DEF KeyLine
<1>2. s.table = Table(t) /\ s.at = NameAt(w) /\ s = [table |-> s.table, at |-> s.at]
  BY DEF StateAt, Spot
<1>3. ReadLine(s, l) = [table |-> PutAt(Table(t), NameAt(w), k, v), at |-> NameAt(w)]
  <2> HIDE DEF s, l, t
  <2>1. ReadLine(s, l) = [s EXCEPT !.table = PutAt(@, s.at, l.key, l.value)]
    BY <1>1 DEF ReadLine
  <2> QED BY <1>1, <1>2, <2>1
<1> DEFINE e == w.entries
           f == w.field
           y == Assign(x, k, v)
<1>4. PutInto(Table(x), k, v) = Table(y)
  BY Puts
<1>5. PutAt(Table(t), NameAt(w), k, v) = Table(u)
  <2>1. CASE w.kind = "top"
    <3>1. t = x /\ u = y /\ NameAt(w) = <<>>
      BY <2>1 DEF TableAt, NameAt
    <3> QED BY <1>4, <3>1, Names
  <2>2. CASE w.kind = "table"
    <3>1. t = Assign(e, f, Table(x)) /\ u = Assign(e, f, Table(y)) /\ NameAt(w) = One(f)
      BY <2>2 DEF TableAt, NameAt
    <3> HIDE DEF t, u, e, f, y
    <3>2. Child(Table(t), f) = Table(x) /\ PutInto(Table(t), f, Table(y)) = Table(u)
      BY <3>1, Puts
    <3> DEFINE T == Table(t)
    <3> HIDE DEF T
    <3>3. PutAt(T, One(f), k, v) = PutInto(T, f, PutInto(Child(T, f), k, v))
      BY Names
    <3> QED BY <1>4, <3>1, <3>2, <3>3 DEF T
  <2>3. CASE w.kind = "inner"
    <3> DEFINE g == w.part
               o == w.outer
               b == Assign(o, g, Table(x))
               c == Assign(o, g, Table(y))
    <3>1. t = Assign(e, f, Table(b)) /\ u = Assign(e, f, Table(c)) /\ NameAt(w) = Two(f, g)
      BY <2>3 DEF TableAt, NameAt
    <3> HIDE DEF t, u, e, f, y, g, o
    <3>2. Child(Table(b), g) = Table(x) /\ PutInto(Table(b), g, Table(y)) = Table(c)
      BY Puts
    <3> HIDE DEF b, c
    <3>3. Child(Table(t), f) = Table(b) /\ PutInto(Table(t), f, Table(c)) = Table(u)
      BY <3>1, Puts
    <3> DEFINE T == Table(t)
    <3> HIDE DEF T
    <3>4. PutAt(T, Two(f, g), k, v)
            = PutInto(T, f, PutInto(Child(T, f), g, PutInto(Child(Child(T, f), g), k, v)))
      BY Names
    <3> QED BY <1>4, <3>1, <3>2, <3>3, <3>4 DEF T
  <2>4. CASE w.kind = "entry"
    <3> DEFINE r == w.items
               b == Array(Append(r, Table(x)))
               c == Array(Append(r, Table(y)))
    <3>1. t = Assign(e, f, b) /\ u = Assign(e, f, c) /\ NameAt(w) = One(f)
      BY <2>4 DEF TableAt, NameAt
    <3>2. PutInto(b, k, v) = c
      <4>1. IsSeq(r)
        BY <2>4 DEF IsPlace
      <4> HIDE DEF r
      <4> QED BY <4>1, EntryPuts
    <3> HIDE DEF t, u, e, f, y, b, c
    <3>3. Child(Table(t), f) = b /\ PutInto(Table(t), f, c) = Table(u)
      BY <3>1, Puts
    <3> DEFINE T == Table(t)
    <3> HIDE DEF T
    <3>4. PutAt(T, One(f), k, v) = PutInto(T, f, PutInto(Child(T, f), k, v))
      BY Names
    <3> QED BY <3>1, <3>2, <3>3, <3>4 DEF T
  <2> QED BY <2>1, <2>2, <2>3, <2>4 DEF IsPlace
<1> QED BY <1>3, <1>5 DEF StateAt, Spot

KeyLines(V, keys) == [i \in DOMAIN keys |-> KeyLine(keys[i], V[keys[i]])]

(* The lines of keys are read as the values of those keys.                 *)
LEMMA KeysRead ==
    ASSUME NEW w, IsPlace(w), NEW K, NEW M, NEW V \in [K -> M], NEW keys \in Seq(K)
    PROVE  /\ IsSeq(KeyLines(V, keys))
           /\ ReadsTo(StateAt(w, <<>>), KeyLines(V, keys), StateAt(w, KnownOf(V, keys)))
<1> DEFINE m == [k \in K |-> KeyLine(k, V[k])]
           D == {m[k] : k \in K}
           S == {ns \in Seq(K) : ReadsTo(StateAt(w, <<>>), Mapped(m, ns), StateAt(w, KnownOf(V, ns)))}
<1>1. \A ns \in Seq(K) : KeyLines(V, ns) = Mapped(m, ns)
  <2> SUFFICES ASSUME NEW ns \in Seq(K)
               PROVE  KeyLines(V, ns) = Mapped(m, ns)
    OBVIOUS
  <2>1. \A i \in DOMAIN ns : ns[i] \in K
    BY SequenceParts
  <2> QED BY <2>1 DEF KeyLines, Mapped
<1>2. m \in [K -> D]
  OBVIOUS
<1>4. <<>> \in S
  <2>1. Mapped(m, <<>>) = <<>> /\ Range(<<>>) = {}
    BY DEF Mapped, Range
  <2>2. KnownOf(V, <<>>) = <<>>
    BY <2>1, EmptyFunction DEF KnownOf
  <2> HIDE DEF m
  <2> QED BY <2>1, <2>2, ReadsNothing
<1>5. ASSUME NEW ns \in Seq(K), NEW n \in K, ns \in S
      PROVE  Append(ns, n) \in S
  <2> DEFINE t == StateAt(w, KnownOf(V, ns))
             o == StateAt(w, <<>>)
             ms == Mapped(m, ns)
  <2>0. ReadsTo(o, ms, t)
    BY <1>5
  <2>1. Mapped(m, Append(ns, n)) = Append(ms, m[n])
    <3> HIDE DEF m, D, S, t, o
    <3>1. m \in [K -> D] /\ ns \in Seq(K) /\ n \in K
      BY <1>2
    <3> QED BY <3>1, MappedAppend
  <2>2. Assign(KnownOf(V, ns), n, V[n]) = KnownOf(V, Append(ns, n))
    BY AssignOne
  <2>3. ReadLine(t, m[n]) = StateAt(w, KnownOf(V, Append(ns, n)))
    <3>1. m[n] = KeyLine(n, V[n])
      OBVIOUS
    <3> QED BY <2>2, <3>1, KeyRead
  <2>4. ms \in Seq(D) /\ m[n] \in D
    <3> HIDE DEF m, D
    <3> QED BY <1>2, MappedFacts
  <2>5. Append(ns, n) \in Seq(K)
    BY AppendProperties
  <2> HIDE DEF t, o, ms, m, D
  <2>6. ReadsTo(o, Append(ms, m[n]), ReadLine(t, m[n]))
    BY <2>0, <2>4, ReadsMore
  <2>7. ReadsTo(o, Mapped(m, Append(ns, n)), StateAt(w, KnownOf(V, Append(ns, n))))
    BY <2>1, <2>3, <2>6
  <2> QED BY <2>5, <2>7 DEF o
<1>6. \A ns \in Seq(K) : ns \in S
  <2> HIDE DEF S
  <2> QED BY <1>4, <1>5, SequenceInduction
<1>7. Mapped(m, keys) \in Seq(D)
  <2> HIDE DEF m, D
  <2> QED BY <1>2, MappedFacts
<1>8. IsSeq(Mapped(m, keys))
  <2> HIDE DEF m, D
  <2> QED BY <1>7, IsSeqs
<1>9. ReadsTo(StateAt(w, <<>>), Mapped(m, keys), StateAt(w, KnownOf(V, keys)))
  BY <1>6
<1> HIDE DEF m
<1> QED BY <1>1, <1>8, <1>9

(* What reads before and after a state reads through it,                   *)
LEMMA ReadsBoth ==
    ASSUME NEW s, NEW t, NEW u, NEW a, NEW b, IsSeq(a), IsSeq(b),
           ReadsTo(s, a, t), ReadsTo(t, b, u)
    PROVE  IsSeq(a \o b) /\ ReadsTo(s, a \o b, u)
<1> DEFINE A == Range(a)
           B == Range(b)
           L == A \cup B
<1>1. a \in Seq(A) /\ b \in Seq(B) /\ A \subseteq L /\ B \subseteq L
  BY DEF IsSeq
<1> HIDE DEF A, B, L
<1>2. a \in Seq(L) /\ b \in Seq(L)
  BY <1>1, SeqMonotonic
<1>3. a \o b \in Seq(L)
  BY <1>2, ConcatProperties
<1> QED BY <1>2, <1>3, IsSeqs, ReadsConcat

(* a header too.                                                           *)
LEMMA ReadsHeader ==
    ASSUME NEW s, NEW h, NEW b, NEW u, IsSeq(b), ReadsTo(ReadLine(s, h), b, u)
    PROVE  IsSeq(<<h>> \o b) /\ ReadsTo(s, <<h>> \o b, u)
<1>1. <<>> \in Seq({h}) /\ h \in {h} /\ Append(<<>>, h) = <<h>> /\ <<h>> \in Seq({h})
  OBVIOUS
<1>2. ReadsTo(s, <<h>>, ReadLine(s, h))
  BY <1>1, ReadsNothing, ReadsMore
<1>3. IsSeq(<<h>>)
  BY <1>1, IsSeqs
<1> QED BY <1>2, <1>3, ReadsBoth

(* Lines for every key of a finite set are read as the whole table.        *)
LEMMA AllKeysRead ==
    ASSUME NEW w, IsPlace(w), NEW K, IsFiniteSet(K), NEW M, NEW V \in [K -> M]
    PROVE  /\ IsSeq(KeyLines(V, SetToSeq(K)))
           /\ ReadsTo(StateAt(w, <<>>), KeyLines(V, SetToSeq(K)), StateAt(w, V))
<1> DEFINE keys == SetToSeq(K)
<1>1. keys \in Seq(K) /\ Range(keys) = K
  BY SetToSeqRange
<1> HIDE DEF keys
<1>2. KnownOf(V, keys) = V
  BY <1>1 DEF KnownOf
<1>3. /\ IsSeq(KeyLines(V, keys))
      /\ ReadsTo(StateAt(w, <<>>), KeyLines(V, keys), StateAt(w, KnownOf(V, keys)))
  BY <1>1, KeysRead
<1> QED BY <1>2, <1>3 DEF keys

-----------------------------------------------------------------------------
(* A table is written as its keys and then the fields that are not keys.   *)

IsNewKey(e, f) == f \notin DOMAIN e

(* The lines of a field are read in a place as that field, and as no       *)
(* other, whatever the name of the last header.                            *)
FieldReads(w, f, lines, d, after) ==
    /\ IsSeq(lines)
    /\ \A u, at : IsNewKey(u, f) =>
            ReadsTo(Spot(w, u, at), lines, Spot(w, Assign(u, f, d), after))

EndOf(at, names, fields) == IF Len(fields) = 0 THEN at ELSE names[fields[Len(fields)]]

(* The keys are read into the place, and then every field after them.      *)
LEMMA PartRead ==
    ASSUME NEW w, IsPlace(w), NEW F, IsFiniteSet(F), NEW N, N \subseteq F,
           NEW E, E = [f \in F |-> E[f]], NEW blocks, NEW names,
           \A f \in N : FieldReads(w, f, blocks[f], E[f], names[f])
    PROVE  LET fields == SetToSeq(N)
               lines == KeyLines([f \in F \ N |-> E[f]], SetToSeq(F \ N))
                            \o FlattenSeq([i \in DOMAIN fields |-> blocks[fields[i]]])
           IN /\ IsSeq(lines)
              /\ ReadsTo(StateAt(w, <<>>), lines, Spot(w, E, EndOf(NameAt(w), names, fields)))
<1> DEFINE K == F \ N
           V == [f \in K |-> E[f]]
           M == {E[f] : f \in K}
           fields == SetToSeq(N)
           n == Len(fields)
           top == KeyLines(V, SetToSeq(K))
           B == [i \in DOMAIN fields |-> blocks[fields[i]]]
           home == NameAt(w)
           o == StateAt(w, <<>>)
<1>2. IsSeq(top) /\ ReadsTo(o, top, Spot(w, V, home))
  <2>1. IsFiniteSet(K)
    BY FS_Subset
  <2>2. V \in [K -> M]
    OBVIOUS
  <2> HIDE DEF V, K, M
  <2>3. IsSeq(top) /\ ReadsTo(o, top, StateAt(w, V))
    BY <2>1, <2>2, AllKeysRead
  <2> QED BY <2>3 DEF StateAt
<1>3. /\ n \in Nat /\ DOMAIN fields = 1..n /\ Range(fields) = N
      /\ \A i \in 1..n : fields[i] \in N
      /\ \A i, j \in 1..n : fields[i] = fields[j] => i = j
  <2>1. IsFiniteSet(N)
    BY FS_Subset
  <2>2. fields \in Seq(N) /\ Range(fields) = N /\ IsInjective(fields)
    BY <2>1, SetToSeqRange
  <2> HIDE DEF fields
  <2>3. n \in Nat /\ DOMAIN fields = 1..n /\ \A i \in 1..n : fields[i] \in N
    BY <2>2, SequenceParts
  <2> QED BY <2>1, <2>2, <2>3 DEF IsInjective
<1> DEFINE S(i) == K \cup {fields[j] : j \in 1..i}
           e(i) == [f \in S(i) |-> E[f]]
           g == [i \in 0..n |-> Spot(w, e(i), IF i = 0 THEN home ELSE names[fields[i]])]
<1>4. ASSUME NEW i \in 1..n
      PROVE  IsSeq(B[i]) /\ ReadsTo(g[i - 1], B[i], g[i])
  <2> DEFINE f == fields[i]
             at == IF i - 1 = 0 THEN home ELSE names[fields[i - 1]]
             d == E[f]
             u == e(i - 1)
             v == e(i)
  <2>1. f \in N /\ i \in 0..n /\ i - 1 \in 0..n /\ i # 0
    BY <1>3
  <2>2. B[i] = blocks[f]
    BY <1>3
  <2>3. g[i - 1] = Spot(w, u, at) /\ g[i] = Spot(w, v, names[f])
    <3> HIDE DEF e, fields, home
    <3> QED BY <2>1
  <2>5. S(i) = S(i - 1) \cup {f}
    <3>1. 1..i = (1..(i - 1)) \cup {i}
      BY <1>3
    <3> HIDE DEF K, fields
    <3> QED BY <3>1
  <2>6. f \notin S(i - 1)
    <3>1. f \notin K
      BY <2>1
    <3>2. ASSUME NEW j \in 1..(i - 1), f = fields[j]
          PROVE  FALSE
      <4>1. j \in 1..n /\ j # i
        BY <1>3
      <4> HIDE DEF fields
      <4> QED BY <1>3, <3>2, <4>1
    <3> HIDE DEF K, fields
    <3> QED BY <3>1, <3>2
  <2> HIDE DEF S
  <2>7. IsNewKey(u, f)
    BY <2>6 DEF IsNewKey
  <2>8. Assign(u, f, d) = v
    <3>1. \A x \in S(i) : v[x] = E[x]
      OBVIOUS
    <3> HIDE DEF f
    <3> QED BY <2>5 DEF Assign
  <2> HIDE DEF u, v, at, B, g
  <2>9. FieldReads(w, f, blocks[f], d, names[f])
    BY <2>1
  <2> HIDE DEF f, d
  <2>10. IsSeq(blocks[f]) /\ ReadsTo(Spot(w, u, at), blocks[f], Spot(w, v, names[f]))
    BY <2>7, <2>8, <2>9 DEF FieldReads
  <2> QED BY <2>2, <2>3, <2>10
<1>5. B = [i \in 1..n |-> B[i]]
  <2> HIDE DEF fields
  <2> QED BY <1>3
<1>6. /\ g[0] = Spot(w, V, home)
      /\ g[n] = Spot(w, E, EndOf(home, names, fields))
  <2>1. e(0) = V
    OBVIOUS
  <2>2. e(n) = E
    <3>1. {fields[j] : j \in 1..n} = N
      <4> HIDE DEF fields
      <4> QED BY <1>3 DEF Range
    <3>2. S(n) = F
      BY <3>1
    <3> HIDE DEF S
    <3> QED BY <3>2
  <2>3. 0 \in 0..n /\ n \in 0..n
    BY <1>3
  <2> DEFINE at(i) == IF i = 0 THEN home ELSE names[fields[i]]
  <2>4. at(0) = home /\ at(n) = EndOf(home, names, fields)
    BY DEF EndOf
  <2>5. \A i \in 0..n : g[i] = Spot(w, e(i), at(i))
    <3> HIDE DEF e, fields, home
    <3> QED OBVIOUS
  <2> HIDE DEF e, fields, V, at, g
  <2>6. g[0] = Spot(w, e(0), at(0)) /\ g[n] = Spot(w, e(n), at(n))
    BY <2>3, <2>5
  <2> QED BY <2>1, <2>2, <2>4, <2>6
<1> HIDE DEF B, g, V, top
<1>7. PICK L : B \in Seq(Seq(L)) /\ Len(B) = n
  <2> HIDE DEF n
  <2> QED BY <1>3, <1>4, <1>5, BlockLists
<1>8. ReadsTo(g[0], FlattenSeq(B), g[n])
  <2> HIDE DEF n
  <2> QED BY <1>4, <1>7, ReadsBlocks
<1>9. FlattenSeq(B) \in Seq(L)
  BY <1>7, FlattenAppend
<1>10. IsSeq(FlattenSeq(B))
  BY <1>9, IsSeqs
<1> DEFINE lines == top \o FlattenSeq(B)
           end == Spot(w, E, EndOf(home, names, fields))
           mid == Spot(w, V, home)
<1>11. ReadsTo(mid, FlattenSeq(B), end)
  BY <1>6, <1>8
<1> HIDE DEF o, end, mid, n, fields, home
<1>12. IsSeq(lines) /\ ReadsTo(o, lines, end)
  <2>1. ReadsTo(o, top, mid)
    BY <1>2 DEF mid
  <2> HIDE DEF lines
  <2> QED BY <1>2, <1>10, <1>11, <2>1, ReadsBoth DEF lines
<1> QED BY <1>12, Zenon DEF lines, o, end, top, B, V, fields, home

-----------------------------------------------------------------------------
(* The fields of a document: a table in a table first.                     *)

InnerField(value, model, name) == RenderField(value, model, name, RenderInner)
TableField(value, model, name) == RenderField(value, model, name, RenderTable)

LiteralsOf(value, model) ==
    [g \in DOMAIN model.fields |-> TomlLiteral(value[g], model.fields[g].model)]

EnvLiterals(value, model) == [n \in DOMAIN value |-> TomlLiteral(value[n], model.elem)]

InnerDoc(value, model) == Table(LiteralsOf(value, model))

TableEntries(value, model) ==
    [g \in DOMAIN model.fields |->
        IF g \in Nested(value, model) THEN InnerDoc(value[g], model.fields[g].model)
                                      ELSE TomlLiteral(value[g], model.fields[g].model)]

TableEnd(value, model, prefix) ==
    EndOf(prefix, [g \in Nested(value, model) |-> Append(prefix, g)],
          SetToSeq(Nested(value, model)))

(* The lines that RenderKeys writes are those of the literals.             *)
LEMMA KeysAre ==
    ASSUME NEW value, NEW model, NEW K, IsFiniteSet(K),
           NEW V, \A f \in K : V[f] = TomlLiteral(value[f], model.fields[f].model)
    PROVE  RenderKeys(value, model, SetToSeq(K)) = KeyLines(V, SetToSeq(K))
<1> DEFINE keys == SetToSeq(K)
<1>1. \A i \in DOMAIN keys : keys[i] \in K
  <2>1. keys \in Seq(K)
    BY SetToSeqRange
  <2> HIDE DEF keys
  <2> QED BY <2>1, SequenceParts
<1> HIDE DEF keys
<1>2. RenderKeys(value, model, keys) = KeyLines(V, keys)
  BY <1>1 DEF RenderKeys, KeyLines
<1> QED BY <1>2 DEF keys

(* The lines of a table in a table are read as its literals,               *)
LEMMA InnerLines ==
    ASSUME NEW w, IsPlace(w), NEW value, NEW model, IsFiniteSet(DOMAIN model.fields), NEW prefix
    PROVE  /\ IsSeq(RenderInner(value, model, prefix))
           /\ ReadsTo(StateAt(w, <<>>), RenderInner(value, model, prefix),
                      StateAt(w, LiteralsOf(value, model)))
<1> DEFINE K == DOMAIN model.fields
           V == LiteralsOf(value, model)
           M == {V[k] : k \in K}
           keys == SetToSeq(K)
<1>1. V \in [K -> M] /\ \A f \in K : V[f] = TomlLiteral(value[f], model.fields[f].model)
  BY DEF LiteralsOf
<1> HIDE DEF V, M, K
<1>2. IsFiniteSet(K)
  BY DEF K
<1>3. RenderKeys(value, model, keys) = KeyLines(V, keys)
  BY <1>1, <1>2, KeysAre
<1>4. /\ IsSeq(KeyLines(V, keys))
      /\ ReadsTo(StateAt(w, <<>>), KeyLines(V, keys), StateAt(w, V))
  BY <1>1, <1>2, AllKeysRead
<1>5. RenderInner(value, model, prefix) = RenderKeys(value, model, keys)
  BY DEF RenderInner, K
<1> QED BY <1>3, <1>4, <1>5 DEF V

(* and so are those of an environment.                                     *)
LEMMA EnvironmentLines ==
    ASSUME NEW w, IsPlace(w), NEW value, NEW model, IsFiniteSet(DOMAIN value)
    PROVE  LET lines == RenderEnvironment(value, model, SetToSeq(DOMAIN value))
           IN /\ IsSeq(lines)
              /\ ReadsTo(StateAt(w, <<>>), lines, StateAt(w, EnvLiterals(value, model)))
<1> DEFINE K == DOMAIN value
           V == EnvLiterals(value, model)
           M == {V[k] : k \in K}
           keys == SetToSeq(K)
<1>1. V \in [K -> M]
  BY DEF EnvLiterals
<1>2. RenderEnvironment(value, model, keys) = KeyLines(V, keys)
  <2>1. \A i \in DOMAIN keys : keys[i] \in K
    <3>1. keys \in Seq(K)
      BY SetToSeqRange
    <3> HIDE DEF keys, K
    <3> QED BY <3>1, SequenceParts
  <2> HIDE DEF keys
  <2> QED BY <2>1 DEF RenderEnvironment, KeyLines, EnvLiterals
<1> HIDE DEF V, M
<1>3. /\ IsSeq(KeyLines(V, keys))
      /\ ReadsTo(StateAt(w, <<>>), KeyLines(V, keys), StateAt(w, V))
  <2> HIDE DEF K
  <2> QED BY <1>1, AllKeysRead DEF K
<1> QED BY <1>2, <1>3 DEF V

(* A table is written as its keys and then the tables in it.               *)
LEMMA TableLines ==
    ASSUME NEW w, IsPlace(w), NEW value, NEW model, IsFiniteSet(DOMAIN model.fields),
           NEW prefix, prefix = NameAt(w),
           \A g \in Nested(value, model) :
                FieldReads(w, g,
                    InnerField(value[g], model.fields[g].model, Append(prefix, g)),
                    InnerDoc(value[g], model.fields[g].model), Append(prefix, g))
    PROVE  /\ IsSeq(RenderTable(value, model, prefix))
           /\ ReadsTo(StateAt(w, <<>>), RenderTable(value, model, prefix),
                      Spot(w, TableEntries(value, model), TableEnd(value, model, prefix)))
<1> DEFINE F == DOMAIN model.fields
           N == Nested(value, model)
           E == TableEntries(value, model)
           type(g) == model.fields[g].model
           names == [g \in N |-> Append(prefix, g)]
           blocks == [g \in N |-> InnerField(value[g], type(g), Append(prefix, g))]
           K == F \ N
           V == [f \in K |-> E[f]]
           fields == SetToSeq(N)
           B == [i \in DOMAIN fields |-> blocks[fields[i]]]
           C == [i \in DOMAIN fields |->
                    InnerField(value[fields[i]], type(fields[i]), Append(prefix, fields[i]))]
<1>1. N \subseteq F /\ E = [f \in F |-> E[f]]
  BY DEF Nested, TableEntries
<1>2. \A f \in N : E[f] = InnerDoc(value[f], type(f))
  BY <1>1 DEF TableEntries
<1>3. \A f \in K : E[f] = TomlLiteral(value[f], type(f))
  BY DEF TableEntries
<1>4. RenderTable(value, model, prefix) = RenderKeys(value, model, SetToSeq(K)) \o FlattenSeq(C)
  BY Zenon DEF RenderTable, RenderPart, InnerField, JoinField
<1>5. IsFiniteSet(N) /\ IsFiniteSet(K)
  BY <1>1, FS_Subset
<1>6. RenderKeys(value, model, SetToSeq(K)) = KeyLines(V, SetToSeq(K))
  <2>1. \A f \in K : V[f] = TomlLiteral(value[f], model.fields[f].model)
    BY <1>3
  <2> HIDE DEF V, K
  <2> QED BY <1>5, <2>1, KeysAre
<1>7. B = C
  <2>1. fields \in Seq(N)
    <3> HIDE DEF N
    <3> QED BY <1>5, SetToSeqRange
  <2>2. \A i \in DOMAIN fields : fields[i] \in N
    <3> HIDE DEF N, fields
    <3> QED BY <2>1, SequenceParts
  <2> HIDE DEF N, fields
  <2> QED BY <2>2
<1>8. \A f \in N : FieldReads(w, f, blocks[f], E[f], names[f])
  <2> SUFFICES ASSUME NEW f \in N
               PROVE  FieldReads(w, f, blocks[f], E[f], names[f])
    OBVIOUS
  <2>1. /\ blocks[f] = InnerField(value[f], type(f), Append(prefix, f))
        /\ names[f] = Append(prefix, f) /\ E[f] = InnerDoc(value[f], type(f))
    BY <1>2
  <2> QED BY <2>1
<1> HIDE DEF N, E, names, blocks, B, C
<1> DEFINE lines == KeyLines(V, SetToSeq(K)) \o FlattenSeq(B)
<1>9. /\ IsSeq(lines)
      /\ ReadsTo(StateAt(w, <<>>), lines, Spot(w, E, EndOf(NameAt(w), names, fields)))
  <2> HIDE DEF F
  <2>1. IsFiniteSet(F)
    BY DEF F
  <2> QED BY <1>1, <1>8, <2>1, PartRead DEF B
<1>10. EndOf(NameAt(w), names, fields) = TableEnd(value, model, prefix)
  BY DEF TableEnd, names, N
<1>11. RenderTable(value, model, prefix) = lines
  BY <1>4, <1>6, <1>7
<1> HIDE DEF lines
<1> QED BY <1>9, <1>10, <1>11 DEF E

(* A table without tables in it is written as its keys.                    *)
LEMMA PlainLines ==
    ASSUME NEW w, IsPlace(w), NEW value, NEW model, IsFiniteSet(DOMAIN model.fields),
           Nested(value, model) = {}
    PROVE  /\ IsSeq(RenderTable(value, model, NameAt(w)))
           /\ ReadsTo(StateAt(w, <<>>), RenderTable(value, model, NameAt(w)),
                      StateAt(w, TableEntries(value, model)))
<1> DEFINE p == NameAt(w)
<1>1. \A g \in Nested(value, model) :
            FieldReads(w, g, InnerField(value[g], model.fields[g].model, Append(p, g)),
                       InnerDoc(value[g], model.fields[g].model), Append(p, g))
  OBVIOUS
<1>2. TableEnd(value, model, p) = p
  <2> DEFINE O == {}
             fields == SetToSeq(O)
  <2>1. IsFiniteSet(O)
    BY FS_EmptySet
  <2>2. fields \in Seq(O)
    <3> HIDE DEF O
    <3> QED BY <2>1, SetToSeqRange
  <2>3. Len(fields) = 0
    <3>1. fields \in Seq({}) /\ Len(fields) \in Nat
      BY <2>2
    <3> HIDE DEF fields
    <3>2. Len(fields) > 0 => fields[1] \in {}
      BY <3>1
    <3> QED BY <3>1, <3>2
  <2>4. Nested(value, model) = O
    OBVIOUS
  <2> HIDE DEF O, fields
  <2> QED BY <2>3, <2>4 DEF TableEnd, EndOf, fields
<1> HIDE DEF p
<1>3. p = NameAt(w)
  BY DEF p
<1> QED BY <1>1, <1>2, <1>3, TableLines DEF StateAt

-----------------------------------------------------------------------------
(* Headers, and the fields of the document.                                *)

Top == [kind |-> "top"]
InTable(e, f) == [kind |-> "table", entries |-> e, field |-> f]
InEntry(e, f, items) == [kind |-> "entry", entries |-> e, field |-> f, items |-> items]
InInner(e, f, outer, g) ==
    [kind |-> "inner", entries |-> e, field |-> f, outer |-> outer, part |-> g]

Reached(e, at) == [table |-> Table(e), at |-> at]

(* A state in a table of the document is a state of the document.          *)
LEMMA Spots ==
    /\ IsPlace(Top) /\ NameAt(Top) = <<>> /\ \A x, at : Spot(Top, x, at) = Reached(x, at)
    /\ \A e, f : /\ IsPlace(InTable(e, f)) /\ NameAt(InTable(e, f)) = One(f)
                 /\ \A x, at : Spot(InTable(e, f), x, at) = Reached(Assign(e, f, Table(x)), at)
    /\ \A e, f, y, g :
            /\ IsPlace(InInner(e, f, y, g)) /\ NameAt(InInner(e, f, y, g)) = Two(f, g)
            /\ \A x, at : Spot(InInner(e, f, y, g), x, at)
                            = Reached(Assign(e, f, Table(Assign(y, g, Table(x)))), at)
    /\ \A e, f, s :
            /\ IsSeq(s) => IsPlace(InEntry(e, f, s))
            /\ NameAt(InEntry(e, f, s)) = One(f)
            /\ \A x, at : Spot(InEntry(e, f, s), x, at)
                            = Reached(Assign(e, f, Array(Append(s, Table(x)))), at)
<1>1. IsPlace(Top) /\ NameAt(Top) = <<>> /\ \A x, at : Spot(Top, x, at) = Reached(x, at)
  BY DEF IsPlace, NameAt, Spot, TableAt, Reached, Top
<1>2. \A e, f : /\ IsPlace(InTable(e, f)) /\ NameAt(InTable(e, f)) = One(f)
                /\ \A x, at : Spot(InTable(e, f), x, at) = Reached(Assign(e, f, Table(x)), at)
  BY DEF IsPlace, NameAt, Spot, TableAt, Reached, InTable
<1>3. \A e, f, y, g :
            /\ IsPlace(InInner(e, f, y, g)) /\ NameAt(InInner(e, f, y, g)) = Two(f, g)
            /\ \A x, at : Spot(InInner(e, f, y, g), x, at)
                            = Reached(Assign(e, f, Table(Assign(y, g, Table(x)))), at)
  BY DEF IsPlace, NameAt, Spot, TableAt, Reached, InInner
<1>4. \A e, f, s :
            /\ IsSeq(s) => IsPlace(InEntry(e, f, s))
            /\ NameAt(InEntry(e, f, s)) = One(f)
            /\ \A x, at : Spot(InEntry(e, f, s), x, at)
                            = Reached(Assign(e, f, Array(Append(s, Table(x)))), at)
  BY DEF IsPlace, NameAt, Spot, TableAt, Reached, InEntry
<1> QED BY <1>1, <1>2, <1>3, <1>4

(* The header of a table opens an empty one under its key, in the document *)
(* or, with both parts of its name, in a table.                            *)
LEMMA HeadersRead ==
    ASSUME NEW e, NEW f, NEW y, NEW g, NEW at
    PROVE  /\ IsNewKey(e, f) =>
                ReadLine(Reached(e, at), Header(One(f))) = StateAt(InTable(e, f), <<>>)
           /\ IsNewKey(y, g) =>
                ReadLine(Reached(Assign(e, f, Table(y)), at), Header(Two(f, g)))
                    = StateAt(InInner(e, f, y, g), <<>>)
<1>1. \A name : Header(name).line = "table" /\ Header(name).name = name
  BY DEF Header
<1>2. \A x : Reached(x, at).table = Table(x)
  BY DEF Reached
<1>3. \A x, name :
        ReadLine(Reached(x, at), Header(name))
            = [table |-> Opened(Table(x), name, PlacesTo(Table(x), name)[Len(name)]), at |-> name]
  <2> SUFFICES ASSUME NEW x, NEW name
               PROVE  ReadLine(Reached(x, at), Header(name))
                        = [table |-> Opened(Table(x), name, PlacesTo(Table(x), name)[Len(name)]),
                           at |-> name]
    OBVIOUS
  <2> DEFINE s == Reached(x, at)
             l == Header(name)
  <2>1. s.table = Table(x) /\ l.line = "table" /\ l.name = name
    BY <1>1, <1>2
  <2> HIDE DEF s, l
  <2>2. ReadLine(s, l) = [table |-> Opened(s.table, l.name, PlacesTo(s.table, l.name)[Len(l.name)]),
                          at |-> l.name]
    BY <2>1 DEF ReadLine
  <2>3. ReadLine(s, l) = [table |-> Opened(Table(x), name, PlacesTo(Table(x), name)[Len(name)]),
                          at |-> name]
    BY <2>1, <2>2
  <2> QED BY <2>3 DEF s, l
<1>4. ASSUME IsNewKey(e, f)
      PROVE  ReadLine(Reached(e, at), Header(One(f))) = StateAt(InTable(e, f), <<>>)
  <2> DEFINE T == Table(e)
             O == Table(<<>>)
             n == One(f)
             z == Assign(e, f, O)
  <2>1. PlacesTo(T, n)[Len(n)] = Child(T, f) /\ Opened(T, n, O) = PutInto(T, f, O)
    BY Names
  <2>2. Child(T, f) = O /\ PutInto(T, f, O) = Table(z)
    BY <1>4, Puts DEF IsNewKey
  <2>3. StateAt(InTable(e, f), <<>>) = Reached(z, n)
    BY Spots DEF StateAt
  <2>4. ReadLine(Reached(e, at), Header(n)) = [table |-> Opened(T, n, PlacesTo(T, n)[Len(n)]), at |-> n]
    BY <1>3
  <2> HIDE DEF T, O, n, z
  <2>5. ReadLine(Reached(e, at), Header(n)) = Reached(z, n)
    BY <2>1, <2>2, <2>4 DEF Reached
  <2> QED BY <2>3, <2>5 DEF n
<1>5. ASSUME IsNewKey(y, g)
      PROVE  ReadLine(Reached(Assign(e, f, Table(y)), at), Header(Two(f, g)))
                = StateAt(InInner(e, f, y, g), <<>>)
  <2> DEFINE d == Assign(e, f, Table(y))
             T == Table(d)
             U == Table(y)
             O == Table(<<>>)
             n == Two(f, g)
             a == Assign(y, g, O)
             z == Assign(e, f, Table(a))
  <2>1. Child(T, f) = U /\ PutInto(T, f, Table(a)) = Table(z)
    BY Puts
  <2>2. Child(U, g) = O /\ PutInto(U, g, O) = Table(a)
    BY <1>5, Puts DEF IsNewKey
  <2>3. StateAt(InInner(e, f, y, g), <<>>) = Reached(z, n)
    BY Spots DEF StateAt
  <2>4. ReadLine(Reached(d, at), Header(n)) = [table |-> Opened(T, n, PlacesTo(T, n)[Len(n)]), at |-> n]
    <3> HIDE DEF d
    <3> QED BY <1>3
  <2>5. PlacesTo(T, n)[Len(n)] = Child(Child(T, f), g)
    BY Names
  <2>6. Opened(T, n, O) = PutInto(T, f, PutInto(Child(T, f), g, O))
    <3> HIDE DEF T, O
    <3> QED BY Names
  <2> HIDE DEF d, T, U, O, n, a, z
  <2>7. ReadLine(Reached(d, at), Header(n)) = Reached(z, n)
    BY <2>1, <2>2, <2>4, <2>5, <2>6 DEF Reached
  <2> QED BY <2>3, <2>7 DEF n, d
<1> QED BY <1>4, <1>5

(* The header of an entry opens an empty one after the entries of its      *)
(* list.                                                                   *)
LEMMA EntryHeadersRead ==
    ASSUME NEW e, NEW f, NEW items, NEW at
    PROVE  /\ items = <<>> /\ IsNewKey(e, f) =>
                ReadLine(Reached(e, at), EntryHeader(One(f)))
                    = StateAt(InEntry(e, f, items), <<>>)
           /\ ReadLine(Reached(Assign(e, f, Array(items)), at), EntryHeader(One(f)))
                = StateAt(InEntry(e, f, items), <<>>)
<1> DEFINE n == One(f)
           h == EntryHeader(n)
           O == Table(<<>>)
           t == Array(Append(items, O))
           listed(there) == Array(Append(IF there.kind = "array" THEN there.items ELSE <<>>, O))
<1>1. h.line = "entry" /\ h.name = n
  BY DEF EntryHeader
<1>2. ASSUME NEW x
      PROVE  ReadLine(Reached(x, at), h)
                = [table |-> PutInto(Table(x), f, listed(Child(Table(x), f))), at |-> n]
  <2> DEFINE s == Reached(x, at)
             there == Child(Table(x), f)
  <2>1. s.table = Table(x)
    BY DEF Reached
  <2>2. PlacesTo(Table(x), n)[Len(n)] = there
    BY Names
  <2>3. Opened(Table(x), n, listed(there)) = PutInto(Table(x), f, listed(there))
    BY Names
  <2> HIDE DEF s, h, n
  <2>4. ReadLine(s, h)
          = [table |-> Opened(s.table, h.name, listed(PlacesTo(s.table, h.name)[Len(h.name)])),
             at |-> h.name]
    BY <1>1 DEF ReadLine
  <2> HIDE DEF there, listed
  <2>5. ReadLine(s, h) = [table |-> Opened(Table(x), n, listed(there)), at |-> n]
    BY <1>1, <2>1, <2>2, <2>4
  <2>6. ReadLine(s, h) = [table |-> PutInto(Table(x), f, listed(there)), at |-> n]
    BY <2>3, <2>5
  <2> QED BY <2>6 DEF s, there
<1>3. StateAt(InEntry(e, f, items), <<>>) = Reached(Assign(e, f, t), n)
  BY Spots DEF StateAt
<1>4. ASSUME items = <<>>, IsNewKey(e, f)
      PROVE  ReadLine(Reached(e, at), h) = Reached(Assign(e, f, t), n)
  <2>1. Child(Table(e), f) = O
    BY <1>4, Puts DEF IsNewKey
  <2>2. listed(O) = t
    <3>1. O.kind = "table"
      BY Puts
    <3> HIDE DEF O
    <3> QED BY <1>4, <3>1
  <2> HIDE DEF O, t, listed, h, n
  <2>3. PutInto(Table(e), f, t) = Table(Assign(e, f, t))
    BY Puts
  <2> QED BY <1>2, <2>1, <2>2, <2>3 DEF Reached
<1>5. ReadLine(Reached(Assign(e, f, Array(items)), at), h) = Reached(Assign(e, f, t), n)
  <2> DEFINE a == Array(items)
             d == Assign(e, f, a)
  <2>1. Child(Table(d), f) = a
    BY Puts
  <2>2. listed(a) = t
    <3>1. a.kind = "array" /\ a.items = items
      BY Puts
    <3> HIDE DEF a, O
    <3> QED BY <3>1
  <2> HIDE DEF a, O, t, listed, h, n
  <2>3. PutInto(Table(d), f, t) = Table(Assign(e, f, t))
    BY Puts
  <2> HIDE DEF d
  <2>4. ReadLine(Reached(d, at), h) = Reached(Assign(e, f, t), n)
    BY <1>2, <2>1, <2>2, <2>3 DEF Reached
  <2> QED BY <2>4 DEF d, a
<1> QED BY <1>3, <1>4, <1>5 DEF h, n

Prefix(d, k) == [j \in 1..k |-> d[j]]

(* A prefix and the next entry are the next prefix.                        *)
LEMMA OneMore ==
    ASSUME NEW n \in Nat, NEW i \in 1..n, NEW d
    PROVE  /\ IsSeq(Prefix(d, i - 1)) /\ Prefix(d, 0) = <<>>
           /\ Append(Prefix(d, i - 1), d[i]) = Prefix(d, i)
<1> DEFINE upto(k) == [j \in 1..k |-> d[j]]
           D == {d[j] : j \in 1..i}
           u == upto(i - 1)
           v == upto(i)
<1>1. i - 1 \in Nat /\ i \in Nat /\ i \in 1..i /\ \A j \in 1..(i - 1) : j \in 1..i
  OBVIOUS
<1>2. u \in [1..(i - 1) -> D] /\ v \in [1..i -> D] /\ d[i] \in D /\ v[i] = d[i]
      /\ \A j \in 1..(i - 1) : u[j] = v[j]
  BY <1>1
<1>3. upto(0) = <<>>
  OBVIOUS
<1> HIDE DEF D, u, v
<1>4. u \in Seq(D) /\ v \in Seq(D) /\ Len(u) = i - 1 /\ Len(v) = i
  <2>1. u \in Seq(D) /\ v \in Seq(D)
    BY <1>1, <1>2, FunctionIsSeq
  <2> QED BY <1>1, <1>2, <2>1
<1>5. Append(u, d[i]) = v
  <2>1. Append(u, d[i]) \in Seq(D) /\ Len(Append(u, d[i])) = i
    BY <1>1, <1>2, <1>4, AppendProperties
  <2>2. \A j \in 1..i : Append(u, d[i])[j] = v[j]
    <3> SUFFICES ASSUME NEW j \in 1..i
                 PROVE  Append(u, d[i])[j] = v[j]
      OBVIOUS
    <3>1. CASE j = i
      BY <1>2, <1>4, <3>1, AppendProperties
    <3>2. CASE j # i
      <4>1. j \in 1..(i - 1) /\ j \in 1..Len(u)
        BY <1>1, <1>4, <3>2
      <4> QED BY <1>2, <1>4, <4>1, AppendProperties
    <3> QED BY <3>1, <3>2
  <2> QED BY <1>4, <2>1, <2>2, SeqEqual
<1>6. IsSeq(u)
  BY <1>4, IsSeqs
<1> QED BY <1>3, <1>5, <1>6 DEF u, v, Prefix

(* The lines of a list of tables are read as its entries, in order.        *)
LEMMA EntryLines ==
    ASSUME NEW e, NEW at, NEW f, IsNewKey(e, f), NEW value, NEW model,
           IsFiniteSet(DOMAIN model.fields), NEW n \in Nat \ {0}, DOMAIN value = 1..n,
           \A i \in 1..n : Nested(value[i], model) = {}
    PROVE  LET B == [i \in DOMAIN value |->
                        <<EntryHeader(One(f))>> \o RenderTable(value[i], model, One(f))]
               all == [i \in DOMAIN value |-> Table(TableEntries(value[i], model))]
           IN /\ IsSeq(FlattenSeq(B))
              /\ ReadsTo(Reached(e, at), FlattenSeq(B),
                         Reached(Assign(e, f, Array(all)), One(f)))
<1> DEFINE name == One(f)
           B == [i \in DOMAIN value |-> <<EntryHeader(name)>> \o RenderTable(value[i], model, name)]
           d == [i \in DOMAIN value |-> Table(TableEntries(value[i], model))]
           upto(k) == Prefix(d, k)
           g == [i \in 0..n |-> IF i = 0 THEN Reached(e, at)
                                ELSE Reached(Assign(e, f, Array(upto(i))), name)]
<1> HIDE DEF name
<1>0. name = One(f)
  BY DEF name
<1>1. ASSUME NEW i \in 1..n
      PROVE  IsSeq(B[i]) /\ ReadsTo(g[i - 1], B[i], g[i])
  <2> DEFINE w == InEntry(e, f, upto(i - 1))
             lines == RenderTable(value[i], model, name)
             t == TableEntries(value[i], model)
  <2>1. i \in DOMAIN value /\ B[i] = <<EntryHeader(name)>> \o lines /\ d[i] = Table(t)
    OBVIOUS
  <2>2. IsSeq(upto(i - 1)) /\ upto(0) = <<>> /\ Append(upto(i - 1), d[i]) = upto(i)
    <3> HIDE DEF d
    <3> QED BY OneMore
  <2>3. /\ i - 1 \in 0..n /\ i \in 0..n /\ i # 0
        /\ g[i] = Reached(Assign(e, f, Array(upto(i))), name)
        /\ i = 1 => g[i - 1] = Reached(e, at)
        /\ i # 1 => g[i - 1] = Reached(Assign(e, f, Array(upto(i - 1))), name)
    <3>1. i - 1 \in 0..n /\ i \in 0..n /\ i # 0 /\ (i - 1 = 0 <=> i = 1)
      OBVIOUS
    <3> HIDE DEF upto, d
    <3> QED BY <3>1
  <2> DEFINE a == upto(i - 1)
             z == upto(i)
  <2>4. a = upto(i - 1) /\ z = upto(i)
    OBVIOUS
  <2>41. i = 1 => a = <<>>
    <3>1. i = 1 => i - 1 = 0
      OBVIOUS
    <3> HIDE DEF d
    <3> QED BY <2>2, <3>1
  <2> HIDE DEF a, z, g, d, B, lines, t, upto
  <2>50. IsSeq(a) /\ w = InEntry(e, f, a)
    BY <2>2, <2>4
  <2> HIDE DEF w
  <2>5. /\ IsPlace(w) /\ NameAt(w) = name
        /\ \A x : StateAt(w, x) = Reached(Assign(e, f, Array(Append(a, Table(x)))), name)
    BY <1>0, <2>50, Spots DEF StateAt
  <2>51. /\ a = <<>> => ReadLine(Reached(e, at), EntryHeader(name)) = StateAt(w, <<>>)
         /\ ReadLine(Reached(Assign(e, f, Array(a)), name), EntryHeader(name)) = StateAt(w, <<>>)
    BY <1>0, <2>50, EntryHeadersRead
  <2>6. ReadLine(g[i - 1], EntryHeader(name)) = StateAt(w, <<>>)
    BY <2>3, <2>4, <2>41, <2>51
  <2>7. StateAt(w, t) = g[i]
    BY <2>1, <2>2, <2>3, <2>4, <2>5
  <2>8. IsSeq(lines) /\ ReadsTo(StateAt(w, <<>>), lines, StateAt(w, t))
    BY <2>5, PlainLines DEF lines, t
  <2> QED BY <2>1, <2>6, <2>7, <2>8, ReadsHeader
<1>2. B = [i \in 1..n |-> B[i]]
  OBVIOUS
<1>3. g[0] = Reached(e, at) /\ g[n] = Reached(Assign(e, f, Array(d)), name)
  <2>1. upto(n) = d
    BY DEF Prefix
  <2> HIDE DEF d, upto
  <2> QED BY <2>1
<1> HIDE DEF B, g, d
<1>4. PICK L : B \in Seq(Seq(L)) /\ Len(B) = n
  BY <1>1, <1>2, BlockLists
<1>5. ReadsTo(g[0], FlattenSeq(B), g[n])
  BY <1>1, <1>4, ReadsBlocks
<1>6. FlattenSeq(B) \in Seq(L)
  BY <1>4, FlattenAppend
<1>7. IsSeq(FlattenSeq(B))
  BY <1>6, IsSeqs
<1> QED BY <1>3, <1>5, <1>7 DEF B, d, name

(* The lines of a table in a table are read as that table.                 *)
LEMMA InnerFieldReads ==
    ASSUME NEW e, NEW f, NEW g, NEW value, NEW model,
           model.kind = "table", IsFiniteSet(DOMAIN model.fields)
    PROVE  FieldReads(InTable(e, f), g, InnerField(value, model, Two(f, g)),
                      InnerDoc(value, model), Two(f, g))
<1> DEFINE name == Two(f, g)
           inner == RenderInner(value, model, name)
           lines == InnerField(value, model, name)
           w == InTable(e, f)
           V == LiteralsOf(value, model)
           d == InnerDoc(value, model)
<1>1. lines = <<Header(name)>> \o inner
  BY DEF InnerField, RenderField
<1>2. ASSUME NEW u, NEW at, IsNewKey(u, g)
      PROVE  IsSeq(lines) /\ ReadsTo(Spot(w, u, at), lines, Spot(w, Assign(u, g, d), name))
  <2> DEFINE p == InInner(e, f, u, g)
  <2>1. IsPlace(p)
    BY Spots
  <2>2. IsSeq(inner) /\ ReadsTo(StateAt(p, <<>>), inner, StateAt(p, V))
    <3> HIDE DEF p
    <3> QED BY <2>1, InnerLines
  <2>3. ReadLine(Spot(w, u, at), Header(name)) = StateAt(p, <<>>)
    <3>1. Spot(w, u, at) = Reached(Assign(e, f, Table(u)), at)
      BY Spots
    <3> QED BY <1>2, <3>1, HeadersRead
  <2>4. StateAt(p, V) = Spot(w, Assign(u, g, d), name)
    <3>0. d = Table(V)
      BY DEF InnerDoc
    <3> HIDE DEF d, V
    <3>1. StateAt(p, V) = Reached(Assign(e, f, Table(Assign(u, g, Table(V)))), name)
      BY Spots DEF StateAt
    <3>2. Spot(w, Assign(u, g, d), name) = Reached(Assign(e, f, Table(Assign(u, g, d))), name)
      BY Spots
    <3> QED BY <3>0, <3>1, <3>2
  <2> HIDE DEF p, inner, lines, d, V, w, name
  <2> QED BY <1>1, <2>2, <2>3, <2>4, ReadsHeader
<1>3. IsSeq(lines)
  <2>1. IsNewKey(<<>>, g)
    BY DEF IsNewKey
  <2> QED BY <1>2, <2>1
<1> HIDE DEF lines, d, name, w
<1>4. FieldReads(w, g, lines, d, name)
  BY <1>2, <1>3 DEF FieldReads
<1> QED BY <1>4 DEF lines, d, name, w

FieldDoc(value, model) ==
    CASE model.kind = "table" -> Table(TableEntries(value, model))
      [] model.kind = "map" -> Table(EnvLiterals(value, model))
      [] OTHER -> Array([i \in DOMAIN value |-> Table(TableEntries(value[i], model.elem))])

FieldEnd(value, model, name) ==
    IF model.kind = "table" THEN TableEnd(value, model, name) ELSE name

\* What Render needs of a field that it writes under a header.
Writes(value, model) ==
    CASE model.kind = "table" ->
            /\ IsFiniteSet(DOMAIN model.fields)
            /\ \A g \in Nested(value, model) :
                /\ model.fields[g].model.kind = "table"
                /\ IsFiniteSet(DOMAIN model.fields[g].model.fields)
      [] model.kind = "map" -> IsFiniteSet(DOMAIN value)
      [] OTHER -> /\ IsFiniteSet(DOMAIN model.elem.fields)
                  /\ \E n \in Nat \ {0} : DOMAIN value = 1..n
                  /\ \A i \in DOMAIN value : Nested(value[i], model.elem) = {}

(* A name has a part more than the name of the table it is in.             *)
LEMMA Appended ==
    \A f, g : Append(<<>>, f) = One(f) /\ Append(One(f), g) = Two(f, g)
<1> SUFFICES ASSUME NEW f, NEW g
             PROVE  Append(<<>>, f) = One(f) /\ Append(One(f), g) = Two(f, g)
  OBVIOUS
<1> DEFINE S == {f, g}
           A == <<f>>
           B == <<f, g>>
<1>1. /\ f \in S /\ g \in S /\ <<>> \in Seq(S) /\ A \in Seq(S) /\ B \in Seq(S)
      /\ Len(<<>>) = 0 /\ Len(A) = 1 /\ Len(B) = 2 /\ A[1] = f /\ B[1] = f /\ B[2] = g
  OBVIOUS
<1> HIDE DEF S, A, B
<1>2. Append(<<>>, f) \in Seq(S) /\ Len(Append(<<>>, f)) = 1 /\ Append(<<>>, f)[1] = f
  BY <1>1, AppendProperties
<1>3. Append(<<>>, f) = A
  <2> DEFINE C == Append(<<>>, f)
  <2> HIDE DEF C
  <2>1. C \in Seq(S) /\ Len(C) = 1 /\ C[1] = f
    BY <1>2 DEF C
  <2>2. C = A
    BY <1>1, <2>1, SeqEqual
  <2> QED BY <2>2 DEF C
<1>4. Append(A, g) = B
  <2> DEFINE C == Append(A, g)
  <2>5. Len(A) + 1 = 2 /\ 1 \in 1..Len(A)
    BY <1>1
  <2>6. A \in Seq(S) /\ g \in S
    BY <1>1
  <2>4. /\ C \in Seq(S) /\ Len(C) = Len(A) + 1 /\ C[Len(A) + 1] = g
        /\ \A i \in 1..Len(A) : C[i] = A[i]
    BY ONLY <2>6, AppendProperties
  <2>1. C \in Seq(S) /\ Len(C) = 2 /\ C[2] = g /\ C[1] = A[1]
    <3> HIDE DEF C
    <3> QED BY <2>5, <2>4
  <2> HIDE DEF C
  <2>2. \A i \in 1..2 : C[i] = B[i]
    BY <1>1, <2>1
  <2>3. C = B
    BY <1>1, <2>1, <2>2, SeqEqual
  <2> QED BY <2>3 DEF C
<1> QED BY <1>3, <1>4 DEF One, Two, A, B

(* The lines of a field are read as that field, and as no other.           *)
LEMMA FieldLines ==
    ASSUME NEW f, NEW value, NEW model, Writes(value, model)
    PROVE  FieldReads(Top, f, TableField(value, model, One(f)), FieldDoc(value, model),
                      FieldEnd(value, model, One(f)))
<1> DEFINE name == One(f)
           all == TableField(value, model, name)
           doc == FieldDoc(value, model)
           end == FieldEnd(value, model, name)
<1>0. name = One(f)
  OBVIOUS
<1> HIDE DEF name
<1>1. ASSUME NEW u, NEW at, IsNewKey(u, f)
      PROVE  IsSeq(all) /\ ReadsTo(Reached(u, at), all, Reached(Assign(u, f, doc), end))
  <2> DEFINE w == InTable(u, f)
  <2>1. /\ IsPlace(w) /\ NameAt(w) = name
        /\ \A x, a : Spot(w, x, a) = Reached(Assign(u, f, Table(x)), a)
    BY <1>0, Spots
  <2>2. ReadLine(Reached(u, at), Header(name)) = StateAt(w, <<>>)
    BY <1>0, <1>1, HeadersRead
  <2>3. CASE model.kind = "table"
    <3> DEFINE lines == RenderTable(value, model, name)
               x == TableEntries(value, model)
    <3>1. all = <<Header(name)>> \o lines
      BY <2>3 DEF TableField, RenderField
    <3>2. doc = Table(x) /\ end = TableEnd(value, model, name)
      BY <2>3 DEF FieldDoc, FieldEnd
    <3>3. IsFiniteSet(DOMAIN model.fields)
      BY <2>3 DEF Writes
    <3>4. ASSUME NEW g \in Nested(value, model)
          PROVE  FieldReads(w, g, InnerField(value[g], model.fields[g].model, Append(name, g)),
                            InnerDoc(value[g], model.fields[g].model), Append(name, g))
      <4> DEFINE m == model.fields[g].model
      <4>1. m.kind = "table" /\ IsFiniteSet(DOMAIN m.fields)
        BY <2>3 DEF Writes
      <4>2. Append(name, g) = Two(f, g)
        BY <1>0, Appended
      <4> HIDE DEF m
      <4>3. FieldReads(w, g, InnerField(value[g], m, Two(f, g)), InnerDoc(value[g], m), Two(f, g))
        BY <4>1, InnerFieldReads
      <4> QED BY <4>2, <4>3 DEF m
    <3> HIDE DEF w
    <3>5. /\ IsSeq(lines)
          /\ ReadsTo(StateAt(w, <<>>), lines, Spot(w, x, TableEnd(value, model, name)))
      BY <2>1, <3>3, <3>4, TableLines
    <3> HIDE DEF lines, x, all, doc, end
    <3>6. Spot(w, x, end) = Reached(Assign(u, f, doc), end)
      BY <2>1, <3>2
    <3> QED BY <2>2, <3>1, <3>2, <3>5, <3>6, ReadsHeader
  <2>4. CASE model.kind = "map"
    <3> DEFINE lines == RenderEnvironment(value, model, SetToSeq(DOMAIN value))
               x == EnvLiterals(value, model)
    <3>1. all = <<Header(name)>> \o lines
      BY <2>4 DEF TableField, RenderField
    <3>2. doc = Table(x) /\ end = name
      BY <2>4 DEF FieldDoc, FieldEnd
    <3>3. IsFiniteSet(DOMAIN value)
      BY <2>4 DEF Writes
    <3> HIDE DEF w
    <3>4. IsSeq(lines) /\ ReadsTo(StateAt(w, <<>>), lines, StateAt(w, x))
      BY <2>1, <3>3, EnvironmentLines
    <3> HIDE DEF lines, x, all, doc, end
    <3>5. StateAt(w, x) = Reached(Assign(u, f, doc), end)
      BY <2>1, <3>2 DEF StateAt
    <3> QED BY <2>2, <3>1, <3>4, <3>5, ReadsHeader
  <2>5. CASE model.kind \notin {"table", "map"}
    <3> DEFINE m == model.elem
               B == [i \in DOMAIN value |-> <<EntryHeader(name)>> \o RenderTable(value[i], m, name)]
               d == [i \in DOMAIN value |-> Table(TableEntries(value[i], m))]
    <3>1. PICK n \in Nat \ {0} : DOMAIN value = 1..n
      BY <2>5 DEF Writes
    <3>2. IsFiniteSet(DOMAIN m.fields) /\ \A i \in 1..n : Nested(value[i], m) = {}
      BY <2>5, <3>1 DEF Writes
    <3>3. all = FlattenSeq(B) /\ doc = Array(d) /\ end = name
      BY <2>5 DEF TableField, RenderField, FieldDoc, FieldEnd
    <3>4. /\ IsSeq(FlattenSeq(B))
          /\ ReadsTo(Reached(u, at), FlattenSeq(B), Reached(Assign(u, f, Array(d)), name))
      <4> HIDE DEF m
      <4> QED BY <1>0, <1>1, <3>1, <3>2, EntryLines
    <3> HIDE DEF B, d, all, doc, end
    <3> QED BY <3>3, <3>4
  <2> QED BY <2>3, <2>4, <2>5
<1>2. IsSeq(all)
  <2>1. IsNewKey(<<>>, f)
    BY DEF IsNewKey
  <2> QED BY <1>1, <2>1
<1> HIDE DEF all, doc, end
<1>3. FieldReads(Top, f, all, doc, end)
  BY <1>1, <1>2, Spots DEF FieldReads
<1> QED BY <1>3 DEF all, doc, end, name

-----------------------------------------------------------------------------
(* The whole document.                                                     *)

EntriesOf(c) ==
    [f \in ConfigFields |->
        IF f \in Nested(c, ConfigModel) THEN FieldDoc(c[f], TypeOf(f))
                                        ELSE TomlLiteral(c[f], TypeOf(f))]

(* A configuration has finitely many fields.                               *)
LEMMA FieldsFinite == IsFiniteSet(ConfigFields)
<1> DEFINE A == {"schema_version"}
           B == A \cup {"name"}
           C == B \cup {"network"}
           D == C \cup {"env"}
           E == D \cup {"mounts"}
           F == E \cup {"user"}
           G == F \cup {"resources"}
           H == G \cup {"home"}
           I == H \cup {"nixos"}
<1>1. ConfigFields = I
  BY DEF ConfigFields, FlatFields
<1>2. IsFiniteSet(A)
  BY FS_Singleton
<1>3. IsFiniteSet(B)
  BY <1>2, FS_AddElement
<1>4. IsFiniteSet(C)
  <2> HIDE DEF B
  <2> QED BY <1>3, FS_AddElement
<1>5. IsFiniteSet(D)
  <2> HIDE DEF C
  <2> QED BY <1>4, FS_AddElement
<1>6. IsFiniteSet(E)
  <2> HIDE DEF D
  <2> QED BY <1>5, FS_AddElement
<1>7. IsFiniteSet(F)
  <2> HIDE DEF E
  <2> QED BY <1>6, FS_AddElement
<1>8. IsFiniteSet(G)
  <2> HIDE DEF F
  <2> QED BY <1>7, FS_AddElement
<1>9. IsFiniteSet(H)
  <2> HIDE DEF G
  <2> QED BY <1>8, FS_AddElement
<1>10. IsFiniteSet(I)
  <2> HIDE DEF H
  <2> QED BY <1>9, FS_AddElement
<1> HIDE DEF I
<1> QED BY <1>1, <1>10

(* What Render writes is read as the document with every field of the      *)
(* configuration.                                                          *)
LEMMA DocumentRead ==
    ASSUME NEW c, \A f \in Nested(c, ConfigModel) : Writes(c[f], TypeOf(f))
    PROVE  ReadDocument(RenderDocument(c)) = Table(EntriesOf(c))
<1> DEFINE F == ConfigFields
           N == Nested(c, ConfigModel)
           E == EntriesOf(c)
           K == F \ N
           V == [f \in K |-> E[f]]
           names == [f \in N |-> FieldEnd(c[f], TypeOf(f), One(f))]
           blocks == [f \in N |-> TableField(c[f], TypeOf(f), One(f))]
           fields == SetToSeq(N)
           B == [i \in DOMAIN fields |-> blocks[fields[i]]]
           C == [i \in DOMAIN fields |->
                    TableField(c[fields[i]], ConfigModel.fields[fields[i]].model,
                               Append(<<>>, fields[i]))]
           o == StateAt(Top, <<>>)
<1>1. F = DOMAIN ConfigModel.fields /\ IsFiniteSet(F)
  BY ConfigSchema, FieldsFinite
<1>2. N \subseteq F /\ E = [f \in F |-> E[f]]
  BY <1>1 DEF Nested, EntriesOf
<1>3. IsFiniteSet(N) /\ IsFiniteSet(K)
  BY <1>1, <1>2, FS_Subset
<1>4. RenderDocument(c) = RenderKeys(c, ConfigModel, SetToSeq(K)) \o FlattenSeq(C)
  <2>1. RenderDocument(c) = RenderKeys(c, ConfigModel, SetToSeq(DOMAIN ConfigModel.fields \ N))
                                \o FlattenSeq(C)
    BY Zenon DEF RenderDocument, RenderModel, RenderPart, TableField, JoinField
  <2> HIDE DEF N, C, F
  <2> QED BY <1>1, <2>1
<1>5. RenderKeys(c, ConfigModel, SetToSeq(K)) = KeyLines(V, SetToSeq(K))
  <2>1. \A f \in K : V[f] = TomlLiteral(c[f], ConfigModel.fields[f].model)
    <3> SUFFICES ASSUME NEW f \in K
                 PROVE  V[f] = TomlLiteral(c[f], ConfigModel.fields[f].model)
      OBVIOUS
    <3>1. V[f] = E[f] /\ f \in F /\ f \notin N
      OBVIOUS
    <3>2. E[f] = TomlLiteral(c[f], TypeOf(f))
      BY <3>1 DEF EntriesOf
    <3> QED BY <3>1, <3>2 DEF TypeOf
  <2> HIDE DEF V, K
  <2> QED BY <1>3, <2>1, KeysAre
<1>6. B = C
  <2>1. fields \in Seq(N)
    <3> HIDE DEF N
    <3> QED BY <1>3, SetToSeqRange
  <2>2. \A i \in DOMAIN fields : fields[i] \in N
    <3> HIDE DEF N, fields
    <3> QED BY <2>1, SequenceParts
  <2>3. \A f : Append(<<>>, f) = One(f) /\ ConfigModel.fields[f].model = TypeOf(f)
    BY Appended DEF TypeOf
  <2> HIDE DEF N, fields
  <2> QED BY <2>2, <2>3
<1>7. \A f \in N : FieldReads(Top, f, blocks[f], E[f], names[f])
  <2> SUFFICES ASSUME NEW f \in N
               PROVE  FieldReads(Top, f, blocks[f], E[f], names[f])
    OBVIOUS
  <2>1. E[f] = FieldDoc(c[f], TypeOf(f))
    BY <1>2 DEF EntriesOf
  <2>2. /\ blocks[f] = TableField(c[f], TypeOf(f), One(f))
        /\ names[f] = FieldEnd(c[f], TypeOf(f), One(f))
    OBVIOUS
  <2>3. Writes(c[f], TypeOf(f))
    OBVIOUS
  <2> QED BY <2>1, <2>2, <2>3, FieldLines
<1> HIDE DEF N, E, names, blocks, B, C
<1> DEFINE lines == KeyLines(V, SetToSeq(K)) \o FlattenSeq(B)
           end == Spot(Top, E, EndOf(NameAt(Top), names, fields))
<1>8. IsSeq(lines) /\ ReadsTo(o, lines, end)
  <2> HIDE DEF F
  <2>1. IsPlace(Top)
    BY Spots
  <2>2. IsFiniteSet(F)
    BY <1>1
  <2>3. lines = KeyLines([f \in F \ N |-> E[f]], SetToSeq(F \ N))
                    \o FlattenSeq([i \in DOMAIN SetToSeq(N) |-> blocks[SetToSeq(N)[i]]])
    BY DEF B
  <2> HIDE DEF lines
  <2>4. LET all == KeyLines([f \in F \ N |-> E[f]], SetToSeq(F \ N))
                    \o FlattenSeq([i \in DOMAIN SetToSeq(N) |-> blocks[SetToSeq(N)[i]]])
        IN IsSeq(all) /\ ReadsTo(o, all, end)
    BY <1>2, <1>7, <2>1, <2>2, PartRead
  <2> QED BY <2>3, <2>4
<1>9. RenderDocument(c) = lines
  BY <1>4, <1>5, <1>6
<1>10. o = [table |-> Table(<<>>), at |-> <<>>]
  <2>1. o = Reached(<<>>, <<>>)
    BY Spots DEF StateAt
  <2> QED BY <2>1 DEF Reached
<1>11. end.table = Table(E)
  <2> DEFINE at == EndOf(NameAt(Top), names, fields)
  <2> HIDE DEF at
  <2>1. Spot(Top, E, at) = Reached(E, at)
    BY Spots
  <2>2. Reached(E, at).table = Table(E)
    BY DEF Reached
  <2> QED BY <2>1, <2>2 DEF at
<1> HIDE DEF lines, o, end
<1>12. ReadLines(o, lines) = end
  BY <1>8, ReadsEnd DEF IsSeq
<1>13. ReadDocument(lines) = ReadLines(o, lines).table
  BY <1>10 DEF ReadDocument
<1> QED BY <1>9, <1>11, <1>12, <1>13 DEF E

-----------------------------------------------------------------------------
(* What is written is read back: values, lists and tables of them.         *)

IsList(v) == v = [i \in DOMAIN v |-> v[i]]

\* A size that an integer holds and that is written without a rest.
IsAmount(size) == ParseByteSize(Amount(size).amount) = [ok |-> TRUE, size |-> size]

\* What a value needs, for its document to stand for it and for nothing else.
Writable(value, m) ==
    /\ m.kind = "size" => IsAmount(value)
    /\ m.kind = "array" => IsList(value)

FlatWritable(v, m) ==
    /\ Fielded(v, DOMAIN m.fields)
    /\ \A f \in DOMAIN m.fields : Writable(v[f], m.fields[f].model)

(* What is read off the documents that are written.                        *)
LEMMA Documents ==
    /\ \A x : Integer(x).kind = "integer" /\ Integer(x).number = x
    /\ \A x : String(x).kind = "string" /\ String(x).text = x
    /\ \A x : Boolean(x).kind = "bool" /\ Boolean(x).truth = x
    /\ \A x : Array(x).kind = "array" /\ Array(x).items = x
    /\ \A x : Table(x).kind = "table" /\ Table(x).entries = x /\ Entries(Table(x)) = DOMAIN x
BY DEF Integer, String, Boolean, Array, Table, Entries

(* A value without parts is written as a document that is accepted for it  *)
(* and decoded to it,                                                      *)
LEMMA LeafBack ==
    ASSUME NEW value, NEW m, Leaf(m), ValidLeaf(value, m), m.kind = "size" => IsAmount(value)
    PROVE  /\ CheckLeaf(LeafLiteral(value, m), m)
           /\ LeafValue(LeafLiteral(value, m), m) = value
<1>1. CASE m.kind = "size"
  <2> DEFINE a == Amount(value).amount
             p == ParseByteSize(a)
  <2>1. p = [ok |-> TRUE, size |-> value]
    BY <1>1 DEF IsAmount
  <2>2. LeafLiteral(value, m) = String(a)
    BY <1>1 DEF LeafLiteral
  <2>3. p.ok /\ p.size = value
    <3> HIDE DEF p
    <3> QED BY <2>1
  <2> HIDE DEF a
  <2>4. String(a).kind = "string" /\ String(a).text = a
    BY Documents
  <2> QED BY <1>1, <2>2, <2>3, <2>4 DEF CheckLeaf, LeafValue
<1>2. CASE m.kind = "string"
  <2>1. LeafLiteral(value, m) = String(value) /\ ValidString(m.type, value)
    BY <1>2 DEF LeafLiteral, ValidLeaf
  <2> QED BY <1>2, <2>1, Documents DEF CheckLeaf, LeafValue
<1>3. CASE m.kind = "bool"
  <2>1. LeafLiteral(value, m) = Boolean(value)
    BY <1>3 DEF LeafLiteral
  <2> QED BY <1>3, <2>1, Documents DEF CheckLeaf, LeafValue
<1>4. CASE m.kind = "integer"
  <2>1. LeafLiteral(value, m) = Integer(value)
    BY <1>4 DEF LeafLiteral
  <2> QED BY <1>4, <2>1, Documents DEF CheckLeaf, LeafValue
<1> QED BY <1>1, <1>2, <1>3, <1>4 DEF Leaf

(* and so is a list of them,                                               *)
LEMMA SimpleBack ==
    ASSUME NEW value, NEW m, Simple(m), ValidItem(value, m), Writable(value, m)
    PROVE  /\ CheckItem(TomlLiteral(value, m), m)
           /\ Value(TomlLiteral(value, m), m) = value
<1>1. CASE Leaf(m)
  <2>1. TomlLiteral(value, m) = LeafLiteral(value, m)
    BY <1>1 DEF TomlLiteral, Leaf
  <2>2. ValidLeaf(value, m)
    BY <1>1, ValidLevels
  <2>3. /\ CheckLeaf(LeafLiteral(value, m), m)
        /\ LeafValue(LeafLiteral(value, m), m) = value
    BY <1>1, <2>2, LeafBack DEF Writable
  <2> QED BY <1>1, <2>1, <2>3, CheckLevels, LeafValues
<1>2. CASE m.kind = "array" /\ Leaf(m.elem) /\ m.elem.kind # "size"
  <2> DEFINE items == [i \in DOMAIN value |-> LeafLiteral(value[i], m.elem)]
             A == Array(items)
  <2>1. TomlLiteral(value, m) = A
    BY <1>2 DEF TomlLiteral
  <2>2. \A i \in DOMAIN value : ValidLeaf(value[i], m.elem)
    BY <1>2 DEF ValidItem, ValidPart
  <2>3. /\ DOMAIN items = DOMAIN value
        /\ \A i \in DOMAIN value : items[i] = LeafLiteral(value[i], m.elem)
    OBVIOUS
  <2> HIDE DEF items
  <2>4. A.kind = "array" /\ A.items = items
    BY Documents
  <2> HIDE DEF A
  <2>5. \A i \in DOMAIN value : /\ CheckLeaf(items[i], m.elem)
                                /\ LeafValue(items[i], m.elem) = value[i]
    BY <1>2, <2>2, <2>3, LeafBack
  <2>6. CheckItem(A, m)
    <3>1. CheckItem(A, m) <=> CheckArray(A, m, CheckLeaf)
      BY <1>2 DEF CheckItem, CheckPart
    <3> QED BY <2>3, <2>4, <2>5, <3>1 DEF CheckArray
  <2>7. Value(A, m) = value
    <3>1. Value(A, m) = [i \in DOMAIN value |-> LeafValue(items[i], m.elem)]
      BY <1>2, <2>3, <2>4 DEF Value
    <3>2. Value(A, m) = [i \in DOMAIN value |-> value[i]]
      BY <2>5, <3>1
    <3> QED BY <1>2, <3>2 DEF Writable, IsList
  <2> QED BY <2>1, <2>6, <2>7
<1> QED BY <1>1, <1>2 DEF Simple, Leaf

(* and a table of both, whatever was there before it.                      *)
LEMMA FlatBack ==
    ASSUME NEW v, NEW m, Flat(m), FlatValid(v, m), FlatWritable(v, m), NEW was
    PROVE  /\ FlatAccepted(Table(LiteralsOf(v, m)), m)
           /\ FlatOf(Table(LiteralsOf(v, m)), m, was) = v
<1> DEFINE S == DOMAIN m.fields
           l == LiteralsOf(v, m)
           t == Table(l)
<1>1. DOMAIN l = S /\ \A f \in S : l[f] = TomlLiteral(v[f], m.fields[f].model)
  BY DEF LiteralsOf
<1> HIDE DEF l
<1>2. t.kind = "table" /\ t.entries = l /\ Entries(t) = S
  BY <1>1, Documents
<1> HIDE DEF t
<1>3. ASSUME NEW f \in S
      PROVE  /\ CheckItem(l[f], m.fields[f].model)
             /\ Value(l[f], m.fields[f].model) = v[f]
  <2>1. /\ Simple(m.fields[f].model) /\ ValidItem(v[f], m.fields[f].model)
        /\ Writable(v[f], m.fields[f].model)
    BY <1>3 DEF Flat, FlatValid, FlatWritable
  <2> QED BY <1>1, <2>1, SimpleBack
<1>4. FlatAccepted(t, m)
  <2>1. m.kind = "table"
    BY DEF Flat
  <2> QED BY <1>2, <1>3 DEF FlatAccepted
<1>5. FlatOf(t, m, was) = [f \in S |-> Value(l[f], m.fields[f].model)]
  BY <1>2 DEF FlatOf
<1>6. FlatOf(t, m, was) = [f \in S |-> v[f]]
  BY <1>3, <1>5
<1>7. v = [f \in S |-> v[f]]
  BY DEF FlatWritable, Fielded
<1> QED BY <1>4, <1>6, <1>7 DEF t, l

(* No table stands in such a table.                                        *)
LEMMA FlatPlain ==
    ASSUME NEW v, NEW m, Flat(m)
    PROVE  Nested(v, m) = {} /\ TableEntries(v, m) = LiteralsOf(v, m)
<1>1. \A f \in DOMAIN m.fields : /\ m.fields[f].model.kind # "table"
                                 /\ m.fields[f].model.kind # "map"
                                 /\ ~IsTableArray(m.fields[f].model)
  BY DEF Flat, Simple, Leaf, IsTableArray
<1>2. Nested(v, m) = {}
  BY <1>1 DEF Nested
<1> QED BY <1>2 DEF TableEntries, LiteralsOf

NetworkShaped(v) ==
    Fielded(v, {"mode", "ports"}) /\ FlatWritable(v["ports"], PortsModel)

MountsShaped(v) ==
    /\ IsList(v) /\ \E n \in Nat : DOMAIN v = 1..n
    /\ \A i \in DOMAIN v : Fielded(v[i], MountFields)

(* A written network is read back, and the ports, a table in it, too;      *)
LEMMA NetworkBack ==
    ASSUME NEW v, NetworkShaped(v), ValidField(v, NetworkModel)
    PROVE  LET t == Table(TableEntries(v, NetworkModel))
           IN NetworkAccepted(t) /\ NetworkOf(t) = v
<1> DEFINE m == NetworkModel
           l == TableEntries(v, m)
           t == Table(l)
           S == {"mode", "ports"}
           T == TextOf("text")
<1>1. /\ DOMAIN m.fields = S /\ m.fields["mode"].model = T
      /\ m.fields["ports"].model = PortsModel /\ m.kind = "table"
  BY NetworkSchema
<1>2. T.kind = "string" /\ PortsModel.kind = "table" /\ Simple(T) /\ Flat(PortsModel)
  BY Schema, PortsSchema, SimpleTypes, FlatTables
<1>3. ValidItem(v["mode"], T) /\ FlatValid(v["ports"], PortsModel)
  <2>1. \A f \in S : ValidEntry(v[f], m.fields[f].model)
    <3>1. ValidField(v, m) <=> \A f \in DOMAIN m.fields :
              /\ m.fields[f].choices # {} => v[f] \in m.fields[f].choices
              /\ ValidEntry(v[f], m.fields[f].model)
      BY <1>1 DEF ValidField, ValidPart
    <3> HIDE DEF m
    <3> QED BY <1>1, <3>1 DEF m
  <2>2. ValidEntry(v["mode"], T) /\ ValidEntry(v["ports"], PortsModel)
    BY <1>1, <2>1
  <2> HIDE DEF T
  <2> QED BY <1>2, <2>2, ValidLevels
<1> HIDE DEF m, T
<1>4. /\ l["mode"] = TomlLiteral(v["mode"], T)
      /\ l["ports"] = Table(LiteralsOf(v["ports"], PortsModel))
  <2>1. "mode" \notin Nested(v, m) /\ "ports" \in Nested(v, m)
    BY <1>1, <1>2 DEF Nested, IsTableArray
  <2> QED BY <1>1, <2>1 DEF TableEntries, InnerDoc
<1>5. DOMAIN l = S
  BY <1>1 DEF TableEntries
<1> HIDE DEF l
<1>6. t.kind = "table" /\ t.entries = l /\ Entries(t) = S
  BY <1>5, Documents
<1> HIDE DEF t
<1>7. CheckItem(l["mode"], T) /\ Value(l["mode"], T) = v["mode"]
  <2>1. Writable(v["mode"], T)
    BY <1>2 DEF Writable
  <2> QED BY <1>2, <1>3, <1>4, <2>1, SimpleBack
<1>8. /\ FlatAccepted(l["ports"], PortsModel)
      /\ FlatOf(l["ports"], PortsModel, Default.network.ports) = v["ports"]
  BY <1>2, <1>3, <1>4, FlatBack DEF NetworkShaped
<1>9. NetworkAccepted(t)
  BY <1>6, <1>7, <1>8 DEF NetworkAccepted, T
<1>10. NetworkOf(t) = [f \in S |-> v[f]]
  BY <1>6, <1>7, <1>8 DEF NetworkOf, T
<1>11. v = [f \in S |-> v[f]]
  BY DEF NetworkShaped, Fielded
<1> QED BY <1>9, <1>10, <1>11 DEF t, l, m

(* and so is an environment,                                               *)
LEMMA EnvBack ==
    ASSUME NEW v, IsList(v), ValidField(v, EnvModel)
    PROVE  LET t == Table(EnvLiterals(v, EnvModel))
           IN EnvAccepted(t) /\ EnvOf(t) = v
<1> DEFINE l == EnvLiterals(v, EnvModel)
           t == Table(l)
           T == TextOf("EnvValue")
<1>1. EnvModel.kind = "map" /\ EnvModel.elem = T /\ T.kind = "string" /\ Simple(T)
  BY Schema, SimpleTypes DEF EnvModel
<1>2. \A n \in DOMAIN v : n # "bad" /\ ValidItem(v[n], T)
  <2>1. ValidField(v, EnvModel) <=> \A n \in DOMAIN v : n # "bad" /\ ValidEntry(v[n], EnvModel.elem)
    BY <1>1 DEF ValidField, ValidPart
  <2> QED BY <1>1, <2>1, ValidLevels
<1>3. DOMAIN l = DOMAIN v /\ \A n \in DOMAIN v : l[n] = TomlLiteral(v[n], T)
  BY <1>1 DEF EnvLiterals
<1> HIDE DEF l, T
<1>4. t.kind = "table" /\ t.entries = l /\ Entries(t) = DOMAIN v
  BY <1>3, Documents
<1> HIDE DEF t
<1>5. \A n \in DOMAIN v : CheckItem(l[n], T) /\ Value(l[n], T) = v[n]
  <2>1. \A n \in DOMAIN v : Writable(v[n], T)
    BY <1>1 DEF Writable
  <2> QED BY <1>1, <1>2, <1>3, <2>1, SimpleBack
<1>6. EnvAccepted(t)
  BY <1>2, <1>4, <1>5 DEF EnvAccepted, T
<1>7. EnvOf(t) = v
  <2>1. EnvOf(t) = [n \in DOMAIN v |-> Value(l[n], T)]
    BY <1>4 DEF EnvOf, T
  <2>2. EnvOf(t) = [n \in DOMAIN v |-> v[n]]
    BY <1>5, <2>1
  <2> QED BY <2>2 DEF IsList
<1> QED BY <1>6, <1>7 DEF t, l

(* and so are any number of mounts.                                        *)
LEMMA MountsBack ==
    ASSUME NEW v, MountsShaped(v), \A i \in DOMAIN v : FlatValid(v[i], MountModel)
    PROVE  LET t == Array([i \in DOMAIN v |-> Table(TableEntries(v[i], MountModel))])
           IN MountsAccepted(t) /\ MountsOf(t) = v
<1> DEFINE l == [i \in DOMAIN v |-> Table(TableEntries(v[i], MountModel))]
           t == Array(l)
<1>1. DOMAIN l = DOMAIN v /\ \A i \in DOMAIN v : l[i] = Table(TableEntries(v[i], MountModel))
  OBVIOUS
<1> HIDE DEF l
<1>2. t.kind = "array" /\ t.items = l
  BY Documents
<1> HIDE DEF t
<1>3. \A f \in MountFields : MountModel.fields[f].model.kind = "string"
  <2>1. /\ MountModel.fields["mode"].model = TextOf("text")
        /\ MountModel.fields["source"].model = TextOf("text")
        /\ MountModel.fields["target"].model = TextOf("GuestPath")
    BY MountSchema
  <2>2. \A type : TextOf(type).kind = "string"
    BY Schema
  <2> QED BY <2>1, <2>2 DEF MountFields
<1>4. ASSUME NEW i \in DOMAIN v
      PROVE  FlatAccepted(l[i], MountModel) /\ MountOf(l[i]) = v[i]
  <2> DEFINE w == v[i]
  <2>1. Flat(MountModel) /\ DOMAIN MountModel.fields = MountFields
    BY FlatTables, MountSchema DEF MountFields
  <2>2. Fielded(w, MountFields) /\ FlatValid(w, MountModel)
    BY DEF MountsShaped
  <2>3. l[i] = Table(TableEntries(w, MountModel))
    BY <1>1
  <2> HIDE DEF w
  <2>4. FlatWritable(w, MountModel)
    BY <1>3, <2>1, <2>2 DEF FlatWritable, Writable
  <2>5. l[i] = Table(LiteralsOf(w, MountModel))
    BY <2>1, <2>3, FlatPlain
  <2>6. FlatAccepted(l[i], MountModel) /\ FlatOf(l[i], MountModel, MountDefaults) = w
    BY <2>1, <2>2, <2>4, <2>5, FlatBack
  <2> QED BY <2>6 DEF w, MountOf
<1>5. MountsAccepted(t)
  BY <1>1, <1>2, <1>4 DEF MountsAccepted
<1>6. MountsOf(t) = v
  <2>1. MountsOf(t) = [i \in DOMAIN v |-> MountOf(l[i])]
    BY <1>1, <1>2 DEF MountsOf
  <2>2. MountsOf(t) = [i \in DOMAIN v |-> v[i]]
    BY <1>4, <2>1
  <2> QED BY <2>2 DEF MountsShaped, IsList
<1> QED BY <1>5, <1>6 DEF t, l

\* A configuration whose parts have their fields and items and nothing else.
IsShaped(c) ==
    /\ IsConfig(c)
    /\ \A f \in FlatFields : FlatWritable(c[f], TypeOf(f))
    /\ NetworkShaped(c["network"])
    /\ IsList(c["env"]) /\ IsFiniteSet(DOMAIN c["env"])
    /\ MountsShaped(c["mounts"])

(* The fields of a configuration that are written under headers.           *)
LEMMA NestedFields ==
    ASSUME NEW c
    PROVE  LET N == Nested(c, ConfigModel)
           IN /\ \A f \in FlatFields : f \in N
              /\ "network" \in N /\ "env" \in N
              /\ "mounts" \in N <=> c["mounts"] # <<>>
              /\ "schema_version" \notin N /\ "name" \notin N
              /\ N \subseteq ConfigFields
<1> DEFINE N == Nested(c, ConfigModel)
<1>1. \A f : f \in N <=> /\ f \in ConfigFields
                         /\ \/ TypeOf(f).kind \in {"table", "map"}
                            \/ IsTableArray(TypeOf(f)) /\ c[f] # <<>>
  BY ConfigSchema DEF Nested, TypeOf
<1> HIDE DEF N
<1>2. \A f \in FlatFields : TypeOf(f).kind = "table" /\ f \in ConfigFields
  BY FlatTables DEF Flat, ConfigFields
<1>3. TypeOf("network").kind = "table" /\ "network" \in ConfigFields
  BY ConfigSchema, NetworkSchema DEF ConfigFields
<1>4. TypeOf("env").kind = "map" /\ "env" \in ConfigFields
  BY ConfigSchema, Schema DEF EnvModel, ConfigFields
<1>5. /\ TypeOf("mounts").kind = "array" /\ IsTableArray(TypeOf("mounts"))
      /\ "mounts" \in ConfigFields
  <2>1. /\ TypeOf("mounts") = ListOf(MountModel) /\ MountModel.kind = "table"
        /\ ListOf(MountModel).kind = "array" /\ ListOf(MountModel).elem = MountModel
    BY ConfigSchema, Schema, MountSchema
  <2> QED BY <2>1 DEF IsTableArray, ConfigFields
<1>6. TypeOf("schema_version").kind = "integer" /\ TypeOf("name").kind = "string"
  BY ConfigSchema, Schema
<1>7. "schema_version" \notin N /\ "name" \notin N
  BY <1>1, <1>6 DEF IsTableArray
<1>8. \A f \in FlatFields : f \in N
  BY <1>1, <1>2
<1>9. "network" \in N /\ "env" \in N
  BY <1>1, <1>3, <1>4
<1>10. "mounts" \in N <=> c["mounts"] # <<>>
  BY <1>1, <1>5
<1> QED BY <1>1, <1>7, <1>8, <1>9, <1>10 DEF N

(* Each of them stands in the document as what its type is written as.     *)
LEMMA EntriesAre ==
    ASSUME NEW c
    PROVE  LET E == EntriesOf(c)
           IN /\ DOMAIN E = ConfigFields
              /\ \A f \in {"schema_version", "name"} : E[f] = TomlLiteral(c[f], TypeOf(f))
              /\ \A f \in FlatFields : E[f] = Table(LiteralsOf(c[f], TypeOf(f)))
              /\ E["network"] = Table(TableEntries(c["network"], NetworkModel))
              /\ E["env"] = Table(EnvLiterals(c["env"], EnvModel))
              /\ E["mounts"] = Array([i \in DOMAIN c["mounts"] |->
                                        Table(TableEntries(c["mounts"][i], MountModel))])
<1> DEFINE E == EntriesOf(c)
           N == Nested(c, ConfigModel)
<1>1. DOMAIN E = ConfigFields /\ \A f \in ConfigFields :
        E[f] = IF f \in N THEN FieldDoc(c[f], TypeOf(f)) ELSE TomlLiteral(c[f], TypeOf(f))
  BY ConfigSchema DEF EntriesOf
<1>2. /\ \A f \in FlatFields : f \in N /\ f \in ConfigFields
      /\ "network" \in N /\ "env" \in N
      /\ "mounts" \in N <=> c["mounts"] # <<>>
      /\ "schema_version" \notin N /\ "name" \notin N
      /\ {"schema_version", "name", "network", "env", "mounts"} \subseteq ConfigFields
  BY NestedFields DEF ConfigFields
<1> HIDE DEF E, N
<1>3. /\ \A v, m : m.kind = "table" => FieldDoc(v, m) = Table(TableEntries(v, m))
      /\ \A v, m : m.kind = "map" => FieldDoc(v, m) = Table(EnvLiterals(v, m))
      /\ \A v, m : m.kind = "array" =>
            FieldDoc(v, m) = Array([i \in DOMAIN v |-> Table(TableEntries(v[i], m.elem))])
  BY DEF FieldDoc
<1>4. \A f \in {"schema_version", "name"} : E[f] = TomlLiteral(c[f], TypeOf(f))
  BY <1>1, <1>2
<1>5. ASSUME NEW f \in FlatFields
      PROVE  E[f] = Table(LiteralsOf(c[f], TypeOf(f)))
  <2>1. Flat(TypeOf(f)) /\ TypeOf(f).kind = "table"
    BY FlatTables DEF Flat
  <2>2. E[f] = FieldDoc(c[f], TypeOf(f))
    BY <1>1, <1>2
  <2> QED BY <1>3, <2>1, <2>2, FlatPlain
<1>6. E["network"] = Table(TableEntries(c["network"], NetworkModel))
  <2>1. TypeOf("network") = NetworkModel /\ NetworkModel.kind = "table"
    BY ConfigSchema, NetworkSchema
  <2> QED BY <1>1, <1>2, <1>3, <2>1
<1>7. E["env"] = Table(EnvLiterals(c["env"], EnvModel))
  <2>1. TypeOf("env") = EnvModel /\ EnvModel.kind = "map"
    BY ConfigSchema, Schema DEF EnvModel
  <2> QED BY <1>1, <1>2, <1>3, <2>1
<1>8. E["mounts"] = Array([i \in DOMAIN c["mounts"] |->
                            Table(TableEntries(c["mounts"][i], MountModel))])
  <2> DEFINE v == c["mounts"]
             T == ListOf(MountModel)
             A == [i \in DOMAIN v |-> Table(TableEntries(v[i], MountModel))]
  <2>1. TypeOf("mounts") = T /\ T.kind = "array" /\ T.elem = MountModel
    BY ConfigSchema, Schema
  <2>2. E["mounts"] = IF v # <<>> THEN FieldDoc(v, T) ELSE TomlLiteral(v, T)
    BY <1>1, <1>2, <2>1
  <2>3. FieldDoc(v, T) = Array(A)
    BY <1>3, <2>1
  <2> HIDE DEF v, T
  <2>4. TomlLiteral(v, T) = Array([i \in DOMAIN v |-> LeafLiteral(v[i], MountModel)])
    BY <2>1 DEF TomlLiteral
  <2>5. v = <<>> => [i \in DOMAIN v |-> LeafLiteral(v[i], MountModel)] = A
    <3>1. v = <<>> => DOMAIN v = {}
      OBVIOUS
    <3> QED BY <3>1
  <2>6. E["mounts"] = Array(A)
    BY <2>2, <2>3, <2>4, <2>5
  <2> QED BY <2>6 DEF v
<1> QED BY <1>1, <1>4, <1>5, <1>6, <1>7, <1>8 DEF E

(* A valid configuration is accepted as it is written, and is read back.   *)
LEMMA EntriesBack ==
    ASSUME NEW c, IsShaped(c), Validate(c)
    PROVE  Accepted(Table(EntriesOf(c))) /\ ConfigOf(Table(EntriesOf(c))) = c
<1> DEFINE E == EntriesOf(c)
           d == Table(E)
<1>1. \A f \in ConfigFields : ValidField(c[f], TypeOf(f))
  BY ValidFields DEF Validate
<1>2. DOMAIN E = ConfigFields
  BY EntriesAre
<1>3. ASSUME NEW f \in FlatFields
      PROVE  CheckField(E[f], TypeOf(f)) /\ FieldOf(f, E[f]) = c[f]
  <2>1. f \in ConfigFields /\ Flat(TypeOf(f)) /\ E[f] = Table(LiteralsOf(c[f], TypeOf(f)))
    BY FlatTables, EntriesAre DEF ConfigFields
  <2>2. FlatValid(c[f], TypeOf(f)) /\ FlatWritable(c[f], TypeOf(f))
    BY <1>1, <2>1, ValidLevels DEF IsShaped
  <2> HIDE DEF E
  <2>3. FlatAccepted(E[f], TypeOf(f)) /\ FlatOf(E[f], TypeOf(f), Default[f]) = c[f]
    BY <2>1, <2>2, FlatBack
  <2> QED BY <2>1, <2>3, CheckLevels, FieldsOf
<1>4. ASSUME NEW f \in {"schema_version", "name"}
      PROVE  CheckField(E[f], TypeOf(f)) /\ FieldOf(f, E[f]) = c[f]
  <2>1. /\ f \in ConfigFields /\ Simple(TypeOf(f)) /\ TypeOf(f).kind \in {"integer", "string"}
        /\ E[f] = TomlLiteral(c[f], TypeOf(f))
    <3>1. E[f] = TomlLiteral(c[f], TypeOf(f))
      BY EntriesAre
    <3> HIDE DEF E
    <3>2. /\ Simple(Number) /\ Number.kind = "integer"
          /\ Simple(TextOf("VMName")) /\ TextOf("VMName").kind = "string"
      BY Schema, SimpleTypes
    <3> QED BY <3>1, <3>2, ConfigSchema DEF ConfigFields
  <2> HIDE DEF E
  <2>2. ValidItem(c[f], TypeOf(f)) /\ Writable(c[f], TypeOf(f))
    BY <1>1, <2>1, ValidLevels DEF Writable
  <2>3. CheckItem(E[f], TypeOf(f)) /\ Value(E[f], TypeOf(f)) = c[f]
    BY <2>1, <2>2, SimpleBack
  <2> QED BY <2>1, <2>3, CheckLevels, FieldsOf
<1>5. CheckField(E["network"], TypeOf("network")) /\ FieldOf("network", E["network"]) = c["network"]
  <2>1. E["network"] = Table(TableEntries(c["network"], NetworkModel))
    BY EntriesAre
  <2> HIDE DEF E
  <2>2. TypeOf("network") = NetworkModel /\ "network" \in ConfigFields
    BY ConfigSchema DEF ConfigFields
  <2>3. NetworkShaped(c["network"]) /\ ValidField(c["network"], NetworkModel)
    BY <1>1, <2>2 DEF IsShaped
  <2>4. NetworkAccepted(E["network"]) /\ NetworkOf(E["network"]) = c["network"]
    BY <2>1, <2>3, NetworkBack
  <2> QED BY <2>2, <2>4, CheckParts, FieldsOf
<1>6. CheckField(E["env"], TypeOf("env")) /\ FieldOf("env", E["env"]) = c["env"]
  <2>1. E["env"] = Table(EnvLiterals(c["env"], EnvModel))
    BY EntriesAre
  <2> HIDE DEF E
  <2>2. TypeOf("env") = EnvModel /\ "env" \in ConfigFields
    BY ConfigSchema DEF ConfigFields
  <2>3. IsList(c["env"]) /\ ValidField(c["env"], EnvModel)
    BY <1>1, <2>2 DEF IsShaped
  <2>4. EnvAccepted(E["env"]) /\ EnvOf(E["env"]) = c["env"]
    BY <2>1, <2>3, EnvBack
  <2> QED BY <2>2, <2>4, CheckParts, FieldsOf
<1>7. CheckField(E["mounts"], TypeOf("mounts")) /\ FieldOf("mounts", E["mounts"]) = c["mounts"]
  <2>1. E["mounts"] = Array([i \in DOMAIN c["mounts"] |->
                                Table(TableEntries(c["mounts"][i], MountModel))])
    BY EntriesAre
  <2> HIDE DEF E
  <2>2. TypeOf("mounts") = ListOf(MountModel) /\ "mounts" \in ConfigFields
    BY ConfigSchema DEF ConfigFields
  <2> DEFINE v == c["mounts"]
  <2>3. MountsShaped(v) /\ ValidField(v, ListOf(MountModel))
    BY <1>1, <2>2 DEF IsShaped
  <2>4. \A i \in DOMAIN v : FlatValid(v[i], MountModel)
    BY <2>3, ValidFields
  <2> HIDE DEF v
  <2>5. E["mounts"] = Array([i \in DOMAIN v |-> Table(TableEntries(v[i], MountModel))])
    BY <2>1 DEF v
  <2>6. MountsAccepted(E["mounts"]) /\ MountsOf(E["mounts"]) = v
    BY <2>3, <2>4, <2>5, MountsBack
  <2> QED BY <2>2, <2>6, CheckParts, FieldsOf DEF v
<1>8. d.kind = "table" /\ d.entries = E /\ Entries(d) = ConfigFields
  BY <1>2, Documents
<1> HIDE DEF E, d
<1>9. \A f \in ConfigFields : CheckField(E[f], TypeOf(f)) /\ FieldOf(f, E[f]) = c[f]
  BY <1>3, <1>4, <1>5, <1>6, <1>7 DEF ConfigFields
<1>10. Accepted(d)
  BY <1>8, <1>9 DEF Accepted
<1>11. ConfigOf(d) = [f \in ConfigFields |-> c[f]]
  BY <1>8, <1>9 DEF ConfigOf
<1>12. c = [f \in ConfigFields |-> c[f]]
  BY DEF IsShaped, IsConfig, Fielded
<1> QED BY <1>10, <1>11, <1>12 DEF d, E

(* Every part of such a configuration can be written.                      *)
LEMMA ShapedWrites ==
    ASSUME NEW c, IsShaped(c)
    PROVE  \A f \in Nested(c, ConfigModel) : Writes(c[f], TypeOf(f))
<1>1. ASSUME NEW f \in FlatFields
      PROVE  Writes(c[f], TypeOf(f))
  <2>1. Flat(TypeOf(f)) /\ Nested(c[f], TypeOf(f)) = {}
    BY FlatTables, FlatPlain
  <2> QED BY <2>1 DEF Flat, Writes
<1>2. Writes(c["network"], TypeOf("network"))
  <2> DEFINE v == c["network"]
             m == NetworkModel
  <2>1. TypeOf("network") = m /\ m.kind = "table" /\ DOMAIN m.fields = {"mode", "ports"}
        /\ m.fields["mode"].model = TextOf("text") /\ m.fields["ports"].model = PortsModel
    BY ConfigSchema, NetworkSchema
  <2>2. TextOf("text").kind = "string" /\ Flat(PortsModel)
    BY Schema, FlatTables
  <2> HIDE DEF v, m
  <2>3. \A g \in Nested(v, m) : g = "ports"
    BY <2>1, <2>2 DEF Nested, IsTableArray
  <2>4. IsFiniteSet(DOMAIN m.fields)
    BY <2>1, FewFields
  <2>5. Writes(v, m)
    BY <2>1, <2>2, <2>3, <2>4 DEF Writes, Flat
  <2> QED BY <2>1, <2>5 DEF v
<1>3. Writes(c["env"], TypeOf("env"))
  <2>1. TypeOf("env").kind = "map"
    BY ConfigSchema, Schema DEF EnvModel
  <2> QED BY <2>1 DEF Writes, IsShaped
<1>4. c["mounts"] # <<>> => Writes(c["mounts"], TypeOf("mounts"))
  <2> DEFINE v == c["mounts"]
             m == TypeOf("mounts")
  <2>1. m.kind = "array" /\ m.elem = MountModel /\ Flat(MountModel)
    BY ConfigSchema, Schema, FlatTables
  <2>2. IsList(v) /\ \E n \in Nat : DOMAIN v = 1..n
    BY DEF IsShaped, MountsShaped
  <2> HIDE DEF v, m
  <2>3. PICK n \in Nat : DOMAIN v = 1..n
    BY <2>2
  <2>4. n = 0 => v = <<>>
    <3> SUFFICES ASSUME n = 0
                 PROVE  v = <<>>
      OBVIOUS
    <3>1. DOMAIN v = {}
      BY <2>3
    <3> QED BY <2>2, <3>1, EmptyFunction DEF IsList
  <2>5. \A i \in DOMAIN v : Nested(v[i], MountModel) = {}
    BY <2>1, FlatPlain
  <2>6. IsFiniteSet(DOMAIN m.elem.fields)
    BY <2>1 DEF Flat
  <2>7. v # <<>> => Writes(v, m)
    BY <2>1, <2>3, <2>4, <2>5, <2>6 DEF Writes
  <2> QED BY <2>7 DEF v, m
<1>5. ASSUME NEW f \in Nested(c, ConfigModel)
      PROVE  Writes(c[f], TypeOf(f))
  <2>1. /\ f \in ConfigFields /\ f # "schema_version" /\ f # "name"
        /\ f = "mounts" => c["mounts"] # <<>>
    BY <1>5, NestedFields
  <2> QED BY <1>1, <1>2, <1>3, <1>4, <2>1 DEF ConfigFields
<1> QED BY <1>5

-----------------------------------------------------------------------------
(* What is saved is written and read back.                                 *)

(* A size that was parsed is written as the amount it was parsed from.     *)
LEMMA AmountParsed ==
    ASSUME NEW a \in Nat, ParseByteSize(a).ok
    PROVE  IsAmount(ParseByteSize(a).size)
<1> DEFINE s == a * GiB
<1>1. /\ ParseByteSize(a) = IF a > 0 /\ s <= MaxInt
              THEN [ok |-> TRUE, size |-> s] ELSE [ok |-> FALSE, size |-> 0]
      /\ a > 0 => Amount(s) = [ok |-> TRUE, amount |-> a]
  BY SizeParsed
<1> HIDE DEF s
<1>2. a > 0 /\ s <= MaxInt /\ ParseByteSize(a) = [ok |-> TRUE, size |-> s]
  BY <1>1
<1>3. ParseByteSize(a).size = s /\ Amount(s).amount = a
  BY <1>1, <1>2
<1>4. IsAmount(s)
  BY <1>2, <1>3 DEF IsAmount
<1> QED BY <1>3, <1>4

(* The sizes of the default disk and memory can be written.                *)
LEMMA DefaultAmounts == IsAmount(Default.resources.disk) /\ IsAmount(Default.resources.mem)
<1>1. Default.resources.disk = 10 * GiB /\ Default.resources.mem = 8 * GiB
  BY DEF Default
<1>2. 10 * GiB <= MaxInt /\ 8 * GiB <= MaxInt
  <2>1. 10 * GiB <= MaxInt
    BY <1>1, DefaultAssumption
  <2>2. GiB \in Nat /\ MaxInt \in Nat
    BY SizeAssumption DEF MaxInt
  <2> QED BY <2>1, <2>2
<1>3. ASSUME NEW a \in Nat, a > 0, a * GiB <= MaxInt
      PROVE  IsAmount(a * GiB)
  <2>1. ParseByteSize(a) = [ok |-> TRUE, size |-> a * GiB]
    BY <1>3, SizeParsed
  <2>2. ParseByteSize(a).ok /\ ParseByteSize(a).size = a * GiB
    BY <2>1
  <2> QED BY <2>2, AmountParsed
<1> DEFINE d == 10
           m == 8
<1>4. d \in Nat /\ d > 0 /\ d * GiB <= MaxInt /\ m \in Nat /\ m > 0 /\ m * GiB <= MaxInt
  BY <1>2
<1> HIDE DEF d, m
<1>5. IsAmount(d * GiB) /\ IsAmount(m * GiB)
  BY <1>3, <1>4
<1> QED BY <1>1, <1>5 DEF d, m

\* The parts that are saved as they are, but for the user's home.
IsKept(c) ==
    /\ \A f \in FlatFields : FlatWritable(c[f], TypeOf(f))
    /\ NetworkShaped(c["network"])
    /\ IsList(c["env"]) /\ IsFiniteSet(DOMAIN c["env"])

(* A table that is decoded over one that can be written can be written.    *)
LEMMA FlatKept ==
    ASSUME NEW v, NEW m, NEW was, Flat(m), FlatAccepted(v, m), FlatWritable(was, m),
           \A f \in DOMAIN m.fields :
                f \in Entries(v) /\ m.fields[f].model.kind = "size" =>
                    SizeWritten(v.entries[f])
    PROVE  FlatWritable(FlatOf(v, m, was), m)
<1> DEFINE R == FlatOf(v, m, was)
           S == DOMAIN m.fields
<1>1. R = [f \in S |-> IF f \in Entries(v) THEN Value(v.entries[f], m.fields[f].model)
                                           ELSE was[f]]
  BY DEF FlatOf
<1>2. Fielded(R, S)
  <2> HIDE DEF S
  <2> QED BY <1>1 DEF Fielded
<1>3. ASSUME NEW f \in S
      PROVE  Writable(R[f], m.fields[f].model)
  <2> DEFINE type == m.fields[f].model
             e == v.entries[f]
  <2>1. CASE f \notin Entries(v)
    <3>1. R[f] = was[f]
      BY <1>1, <2>1
    <3> QED BY <3>1 DEF FlatWritable
  <2>2. CASE f \in Entries(v)
    <3>1. R[f] = Value(e, type) /\ CheckItem(e, type)
      BY <1>1, <2>2 DEF FlatAccepted
    <3>2. type.kind = "size" => SizeWritten(e)
      BY <2>2
    <3> HIDE DEF e, type, R
    <3>3. ASSUME type.kind = "size"
          PROVE  IsAmount(R[f])
      <4>1. e.kind = "string" /\ ParseByteSize(e.text).ok
        <5>1. CheckLeaf(e, type)
          BY <3>1, <3>3, CheckLevels DEF Leaf
        <5> QED BY <3>3, <5>1 DEF CheckLeaf
      <4>2. e.text \in Nat
        BY <3>2, <3>3, <4>1 DEF SizeWritten
      <4>3. R[f] = ParseByteSize(e.text).size
        BY <3>1, <3>3, LeafValues
      <4> QED BY <4>1, <4>2, <4>3, AmountParsed
    <3>4. ASSUME type.kind = "array"
          PROVE  IsList(R[f])
      <4>1. R[f] = [i \in DOMAIN e.items |-> LeafValue(e.items[i], type.elem)]
        BY <3>1, <3>4 DEF Value
      <4> QED BY <4>1 DEF IsList
    <3> QED BY <3>3, <3>4 DEF Writable, type
  <2> QED BY <2>1, <2>2
<1> HIDE DEF R
<1>4. FlatWritable(R, m)
  BY <1>2, <1>3 DEF FlatWritable
<1> QED BY <1>4 DEF R

(* The defaults can be written.                                            *)
LEMMA DefaultKept ==
    /\ \A f \in FlatFields : FlatWritable(Default[f], TypeOf(f))
    /\ FlatWritable(Default.network.ports, PortsModel)
    /\ IsKept(Default)
<1>1. FlatWritable(Default["user"], UserModel)
  <2>1. Fielded(Default["user"], DOMAIN UserModel.fields)
    BY DefaultShape, ConfigSchema DEF FlatFields
  <2>2. \A f \in {"name", "home", "sudo"} : UserModel.fields[f].model.kind \notin {"size", "array"}
    BY UserSchema, Schema
  <2> QED BY <2>1, <2>2, UserSchema DEF FlatWritable, Writable
<1>2. FlatWritable(Default["resources"], ResourcesModel)
  <2>1. Fielded(Default["resources"], DOMAIN ResourcesModel.fields)
    BY DefaultShape, ConfigSchema DEF FlatFields
  <2>2. /\ \A f \in {"arch", "cpu"} : ResourcesModel.fields[f].model.kind \notin {"size", "array"}
        /\ \A f \in {"disk", "mem"} : ResourcesModel.fields[f].model.kind = "size"
    BY ResourcesSchema, Schema
  <2>3. \A f \in {"disk", "mem"} : IsAmount(Default["resources"][f])
    BY DefaultAmounts
  <2> QED BY <2>1, <2>2, <2>3, ResourcesSchema DEF FlatWritable, Writable
<1>3. FlatWritable(Default["home"], HomeModel)
  <2>1. Fielded(Default["home"], DOMAIN HomeModel.fields)
    BY DefaultShape, ConfigSchema DEF FlatFields
  <2>2. HomeModel.fields["root"].model.kind = "string"
    BY HomeSchema, Schema
  <2> QED BY <2>1, <2>2, HomeSchema DEF FlatWritable, Writable
<1>4. IsList(<<>>) /\ IsList(<<8080>>)
  BY DEF IsList
<1>5. FlatWritable(Default["nixos"], NixOSModel)
  <2>1. Fielded(Default["nixos"], DOMAIN NixOSModel.fields)
    BY DefaultShape, ConfigSchema DEF FlatFields
  <2>2. NixOSModel.fields["modules"].model.kind = "array"
    BY HomeSchema, Schema
  <2>3. Default["nixos"]["modules"] = <<>>
    BY DEF Default
  <2> QED BY <1>4, <2>1, <2>2, <2>3, HomeSchema DEF FlatWritable, Writable
<1>6. FlatWritable(Default.network.ports, PortsModel)
  <2> DEFINE p == Default.network.ports
  <2>1. p["tcp"] = <<8080>> /\ p["udp"] = <<>>
    BY DEF Default
  <2>2. Fielded(p, {"tcp", "udp"})
    BY DefaultShape
  <2> HIDE DEF p
  <2>3. \A f \in {"tcp", "udp"} : PortsModel.fields[f].model.kind = "array"
    BY PortsSchema, Schema
  <2>4. \A f \in {"tcp", "udp"} : IsList(p[f])
    BY <1>4, <2>1
  <2>5. FlatWritable(p, PortsModel)
    BY <2>2, <2>3, <2>4, PortsSchema DEF FlatWritable, Writable
  <2> QED BY <2>5 DEF p
<1>7. NetworkShaped(Default["network"])
  BY <1>6, DefaultShape DEF NetworkShaped
<1>8. IsList(Default["env"]) /\ IsFiniteSet(DOMAIN Default["env"])
  <2>1. Default["env"] = [e \in {"APP_ENV", "APP_LOG_LEVEL"} |-> "default"]
    BY DEF Default
  <2>2. IsFiniteSet({"APP_ENV", "APP_LOG_LEVEL"})
    BY FewFields
  <2> QED BY <2>1, <2>2 DEF IsList
<1>9. \A f \in FlatFields : FlatWritable(Default[f], TypeOf(f))
  BY <1>1, <1>2, <1>3, <1>5, ConfigSchema DEF FlatFields
<1> QED BY <1>6, <1>7, <1>8, <1>9 DEF IsKept

(* The configuration of an accepted document can be written.               *)
LEMMA ConfigKept ==
    ASSUME NEW d, NEW Component, Accepted(d), Written(d, Component)
    PROVE  IsKept(ConfigOf(d))
<1> DEFINE c == ConfigOf(d)
<1>1. \A f \in ConfigFields :
        /\ f \in Entries(d) => c[f] = FieldOf(f, d.entries[f]) /\ CheckField(d.entries[f], TypeOf(f))
        /\ f \notin Entries(d) => c[f] = Default[f]
  BY DEF ConfigOf, Accepted
<1>2. d.kind = "table"
  BY DEF Accepted
<1> HIDE DEF c
<1>3. ASSUME NEW f \in FlatFields
      PROVE  FlatWritable(c[f], TypeOf(f))
  <2> DEFINE v == d.entries[f]
             m == TypeOf(f)
  <2>1. f \in ConfigFields /\ Flat(m)
    BY FlatTables DEF ConfigFields
  <2>2. CASE f \notin Entries(d)
    BY <1>1, <2>1, <2>2, DefaultKept
  <2>3. CASE f \in Entries(d)
    <3>1. FlatAccepted(v, m) /\ c[f] = FlatOf(v, m, Default[f])
      BY <1>1, <2>1, <2>3, CheckLevels, FieldsOf
    <3>2. FlatWritable(Default[f], m)
      BY DefaultKept
    <3>3. \A g \in DOMAIN m.fields : m.fields[g].model.kind = "size" =>
            f = "resources" /\ g \in {"disk", "mem"}
      <4>1. \A g \in {"name", "home", "sudo"} : UserModel.fields[g].model.kind # "size"
        BY UserSchema, Schema
      <4>2. \A g \in {"arch", "cpu"} : ResourcesModel.fields[g].model.kind # "size"
        BY ResourcesSchema, Schema
      <4>3. HomeModel.fields["root"].model.kind # "size" /\ NixOSModel.fields["modules"].model.kind # "size"
        BY HomeSchema, Schema
      <4>4. CASE f = "user"
        BY <4>1, <4>4, ConfigSchema, UserSchema
      <4>5. CASE f = "resources"
        BY <4>2, <4>5, ConfigSchema, ResourcesSchema
      <4>6. CASE f = "home"
        BY <4>3, <4>6, ConfigSchema, HomeSchema
      <4>7. CASE f = "nixos"
        BY <4>3, <4>7, ConfigSchema, HomeSchema
      <4> QED BY <4>4, <4>5, <4>6, <4>7 DEF FlatFields
    <3>4. ASSUME NEW g \in DOMAIN m.fields, g \in Entries(v) /\ m.fields[g].model.kind = "size"
          PROVE  SizeWritten(v.entries[g])
      <4>1. f = "resources" /\ g \in {"disk", "mem"} /\ v.kind = "table"
        BY <3>1, <3>3, <3>4 DEF FlatAccepted
      <4> QED BY <1>2, <2>3, <3>4, <4>1 DEF Written, Supplies
    <3> HIDE DEF v, m
    <3>5. FlatWritable(FlatOf(v, m, Default[f]), m)
      BY <2>1, <3>1, <3>2, <3>4, FlatKept
    <3> QED BY <3>1, <3>5 DEF m
  <2> QED BY <2>2, <2>3
<1>4. NetworkShaped(c["network"])
  <2> DEFINE v == d.entries["network"]
  <2>1. "network" \in ConfigFields /\ TypeOf("network") = NetworkModel
    BY ConfigSchema DEF ConfigFields
  <2>2. CASE "network" \notin Entries(d)
    BY <1>1, <2>1, <2>2, DefaultKept DEF IsKept
  <2>3. CASE "network" \in Entries(d)
    <3>1. NetworkAccepted(v) /\ c["network"] = NetworkOf(v)
      BY <1>1, <2>1, <2>3, CheckParts, FieldsOf
    <3> HIDE DEF v
    <3> DEFINE R == NetworkOf(v)
    <3>2. Fielded(R, {"mode", "ports"})
      BY DEF NetworkOf, Fielded
    <3>3. R["ports"] = IF "ports" \in Entries(v)
                       THEN FlatOf(v.entries["ports"], PortsModel, Default.network.ports)
                       ELSE Default.network.ports
      BY DEF NetworkOf
    <3>4. \A g \in DOMAIN PortsModel.fields : PortsModel.fields[g].model.kind # "size"
      BY PortsSchema, Schema
    <3>5. "ports" \in Entries(v) =>
            FlatWritable(FlatOf(v.entries["ports"], PortsModel, Default.network.ports), PortsModel)
      <4> SUFFICES ASSUME "ports" \in Entries(v)
                   PROVE  FlatWritable(FlatOf(v.entries["ports"], PortsModel,
                                              Default.network.ports), PortsModel)
        OBVIOUS
      <4>1. FlatAccepted(v.entries["ports"], PortsModel)
        BY <3>1 DEF NetworkAccepted
      <4>2. Flat(PortsModel) /\ FlatWritable(Default.network.ports, PortsModel)
        BY FlatTables, DefaultKept
      <4> QED BY <3>4, <4>1, <4>2, FlatKept
    <3>6. FlatWritable(R["ports"], PortsModel)
      BY <3>3, <3>5, DefaultKept
    <3> HIDE DEF R
    <3>7. NetworkShaped(R)
      BY <3>2, <3>6 DEF NetworkShaped
    <3> QED BY <3>1, <3>7 DEF R
  <2> QED BY <2>2, <2>3
<1>5. IsList(c["env"]) /\ IsFiniteSet(DOMAIN c["env"])
  <2> DEFINE v == d.entries["env"]
  <2>1. "env" \in ConfigFields /\ TypeOf("env") = EnvModel
    BY ConfigSchema DEF ConfigFields
  <2>2. CASE "env" \notin Entries(d)
    BY <1>1, <2>1, <2>2, DefaultKept DEF IsKept
  <2>3. CASE "env" \in Entries(d)
    <3>1. EnvAccepted(v) /\ c["env"] = EnvOf(v)
      BY <1>1, <2>1, <2>3, CheckParts, FieldsOf
    <3>2. v.kind = "table"
      BY <3>1 DEF EnvAccepted
    <3>3. IsFiniteSet(Entries(v))
      BY <1>2, <2>3, <3>2 DEF Written, Supplies
    <3> HIDE DEF v
    <3> DEFINE e == EnvOf(v)
    <3>4. IsList(e) /\ DOMAIN e = Entries(v)
      BY DEF EnvOf, IsList
    <3> HIDE DEF e
    <3> QED BY <3>1, <3>3, <3>4 DEF e
  <2> QED BY <2>2, <2>3
<1>6. IsKept(c)
  BY <1>3, <1>4, <1>5 DEF IsKept
<1> QED BY <1>6 DEF c

(* So can the one that is saved.                                           *)
LEMMA SavedShaped ==
    ASSUME NEW C, NEW c, IsConfig(c), HasPaths(c, C), IsKept(c)
    PROVE  IsShaped(Norm(c))
<1> DEFINE n == Norm(c)
<1>1. /\ \A f \in ConfigFields \ {"user", "mounts"} : n[f] = c[f]
      /\ n["user"] = [f \in UserFields |->
            IF f = "home" THEN Cleaned(c["user"][f]) ELSE c["user"][f]]
      /\ DOMAIN n["mounts"] = DOMAIN c["mounts"]
      /\ \A i \in DOMAIN c["mounts"] : n["mounts"][i] = [f \in MountFields |->
            IF f = "target" THEN Cleaned(c["mounts"][i][f]) ELSE c["mounts"][i][f]]
  BY NormFacts
<1>2. IsList(n["mounts"])
  <2>1. n["mounts"] = CleanMounts(c["mounts"])
    BY DEF Norm, ConfigFields
  <2> HIDE DEF n
  <2> QED BY <2>1 DEF CleanMounts, IsList
<1>3. IsConfig(n)
  BY NormValid
<1> HIDE DEF n
<1>4. \A f \in FlatFields \ {"user"} : n[f] = c[f]
  BY <1>1 DEF ConfigFields, FlatFields
<1>5. n["network"] = c["network"] /\ n["env"] = c["env"]
  BY <1>1 DEF ConfigFields
<1>6. FlatWritable(n["user"], UserModel)
  <2>1. DOMAIN UserModel.fields = UserFields
        /\ \A f \in UserFields : UserModel.fields[f].model.kind \notin {"size", "array"}
    BY UserSchema, Schema DEF UserFields
  <2>2. Fielded(n["user"], UserFields)
    BY <1>1 DEF Fielded
  <2> QED BY <2>1, <2>2 DEF FlatWritable, Writable
<1>7. \A f \in FlatFields : FlatWritable(n[f], TypeOf(f))
  <2>1. TypeOf("user") = UserModel
    BY ConfigSchema
  <2> QED BY <1>4, <1>6, <2>1 DEF IsKept
<1>8. MountsShaped(n["mounts"])
  <2>1. \E k \in Nat : DOMAIN n["mounts"] = 1..k
    BY <1>1 DEF HasPaths
  <2>2. ASSUME NEW i \in DOMAIN n["mounts"]
        PROVE  Fielded(n["mounts"][i], MountFields)
    BY <1>1 DEF Fielded
  <2> QED BY <1>2, <2>1, <2>2 DEF MountsShaped
<1>9. IsShaped(n)
  BY <1>3, <1>5, <1>7, <1>8 DEF IsShaped, IsKept
<1> QED BY <1>9 DEF n

(* DocumentMeans holds of every document of any size (config/parser.go,    *)
(* validate.go, render.go): one that is accepted means what it says        *)
(* whatever the decoder reused, what is saved is valid, and the document   *)
(* Render writes for it is accepted and parses to the same configuration.  *)
THEOREM DocumentsMean ==
    ASSUME NEW Component, NEW d, Written(d, Component)
    PROVE  DocumentMeans(d)
<1> SUFFICES ASSUME NEW reuse \in BOOLEAN, Parse(d, reuse).ok
             PROVE  LET parsed == Parse(d, reuse)
                    IN /\ parsed.config = Meaning(ConfigModel, Default, d)
                       /\ Validate(parsed.config)
                       /\ Parse(ReadDocument(RenderDocument(parsed.config)), reuse) = parsed
  BY Zenon DEF DocumentMeans
<1> DEFINE c == ConfigOf(d)
           n == Norm(c)
           r == Table(EntriesOf(n))
           C == PathParts(Component)
<1>1. /\ Accepted(d) /\ Validate(c) /\ Parse(d, reuse).config = n
      /\ n = Meaning(ConfigModel, Default, d) /\ Validate(n)
  BY ParsedMeans
<1>2. Parse(d, reuse) = [ok |-> TRUE, config |-> n]
  BY <1>1, ParsedPlain
<1>3. IsConfig(c) /\ HasPaths(c, C) /\ IsKept(c)
  BY <1>1, PlainConfig, ConfigPaths, ConfigKept
<1> HIDE DEF c, C
<1>4. Norm(n) = n /\ IsShaped(n)
  BY <1>3, NormValid, SavedShaped
<1> HIDE DEF n
<1>5. ReadDocument(RenderDocument(n)) = r
  BY <1>4, ShapedWrites, DocumentRead
<1>6. Accepted(r) /\ ConfigOf(r) = n
  BY <1>1, <1>4, EntriesBack
<1> HIDE DEF r
<1>7. Parse(r, reuse) = [ok |-> TRUE, config |-> n]
  BY <1>1, <1>4, <1>6, ParsedPlain
<1> QED BY <1>1, <1>2, <1>5, <1>7

(* DocumentsKept holds of every document.                                  *)
THEOREM DocumentsAlwaysKept ==
    ASSUME NEW Docs, NEW Component, input \in DocumentsToParse(Docs, Component)
    PROVE  DocumentsKept
<1>1. Written(input.document, Component)
  BY DEF DocumentsToParse
<1> QED BY <1>1, DocumentsMean DEF DocumentsKept

=====
