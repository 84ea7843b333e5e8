-------------------------------- MODULE Front ---------------------------------
(***************************************************************************)
(* The way from files to names: load_modules_recursively and build_hir       *)
(* (main.rs), the validator's registration of modules, imports and names     *)
(* (register_modules_and_imports, register_type_names, lookup_in_scope), and   *)
(* how a call by name is bound, once by the validator (check_call) and once    *)
(* more by the lowering (lookup_free_function).                             *)
(* ModuleIds are positions in `modules`; an import item carries one symbol; a   *)
(* "method" is a function of an extend block: no scope names it, but it lies    *)
(* among the HIR's functions.                                               *)
(***************************************************************************)
EXTENDS Naturals, Sequences, FiniteSets, Functions, SeqSift

CONSTANTS
  Path, Start,     (* files the disk may have; the one the compiler is given *)
  Target,          (* what can stand in an import: names of modules           *)
  Join, StemOf,    (* dir(path)/target.of as a path; a path's file stem        *)
  Core, CoreItems, (* "of:core" and what it holds                            *)
  Prelude,         (* the symbols each module imports without saying so        *)
  Symbol,
  Disks            (* the disks of this instance: path -> items               *)

Item ==
  [k : {"fn", "type", "method"}, name : Symbol]
    \cup [k : {"glob"}, from : Target]
    \cup [k : {"named"}, from : Target, name : Symbol, as : Symbol]

ASSUME PathsAssumption ==
  /\ Start \in Path /\ Core \in Target
  /\ Join \in [Path -> [Target -> Path]] /\ StemOf \in [Path -> Target] /\ Core \notin Path
  /\ CoreItems \in Seq([k : {"fn", "type", "method"}, name : Symbol]) /\ Prelude \in Seq(Symbol)

(* What is asked for under a file's stem is a file of that stem beside the one that *)
(* asks, and a file beside another finds what that one would find.            *)
ASSUME JoinAssumption ==
  \A q \in Path : \A t \in {StemOf[r] : r \in Path} :
    /\ StemOf[Join[q][t]] = t
    /\ \A u \in Target : Join[Join[q][t]][u] = Join[q][u]

ASSUME DisksAssumption ==
  \A d \in Disks : DOMAIN d \subseteq Path /\ \A p \in DOMAIN d : d[p] \in Seq(Item)

VARIABLES
  disk,
  queue,      (* paths, the next one last                                     *)
  visited,    (* stems                                                        *)
  modules,    (* sequence of [name, path, items]; the position is the ModuleId   *)
  pc,         (* the pass: "load", "imports", "names", "finalize", then a verdict *)
  globs,      (* ModuleId -> sequence of ModuleIds: ModuleScope.globs             *)
  pending,    (* pending_named_imports: [importer, source, name, as]              *)
  direct,     (* ModuleId -> (name -> [mod, name]): ModuleScope.direct             *)
  imported,   (* ModuleId -> set of names: ModuleScope.imported_names            *)
  errors,
  call        (* one call by name as it was lowered: {} or {[mod, name, target]} *)

files  == <<disk, queue, visited, modules>>
scopes == <<globs, pending, direct, imported>>
vars   == <<files, pc, scopes, errors, call>>

-----------------------------------------------------------------------------
(* What an import's text names: a module of exactly that name. (Fault: of its stem.) *)
ByStem(text) ==
  {k \in DOMAIN modules : modules[k].name = IF text = Core THEN Core ELSE StemOf[Join[Start][text]]}
ByName(text) == {k \in DOMAIN modules : modules[k].name = text}
Names        == {t \in Target : ByName(t) # {}}
IdOf(name)   == CHOOSE k \in ByName(name) : TRUE
IsImport(i) == i.k \in {"glob", "named"}
IsDef(i)    == i.k \in {"fn", "type"}

Init ==
  /\ disk \in Disks
  /\ queue = <<Start>> /\ visited = {Core} /\ modules = <<>>
  /\ pc = "load"
  /\ globs = <<>> /\ pending = <<>> /\ direct = <<>> /\ imported = <<>>
  /\ errors = {} /\ call = {}

(* Imports are queued unless their text is a visited stem. *)
ToLoad(items, seen) == Sift(items, LAMBDA i : IsImport(i) /\ i.from \notin seen)

(* load_modules_recursively: the last path is popped; a stem is read once. *)
Popped == queue[Len(queue)]
Below  == SubSeq(queue, 1, Len(queue) - 1)

(* Fault: a file met a second time has its imports followed once more. *)
SkipFileDeep ==
  /\ pc = "load" /\ queue # <<>> /\ StemOf[Popped] \in visited
  /\ Popped \in DOMAIN disk
  /\ LET all == ToLoad(disk[Popped], {})
     IN queue' = Below \o [j \in DOMAIN all |-> Join[Popped][all[j].from]]
  /\ UNCHANGED <<disk, visited, modules, pc, scopes, errors, call>>

SkipFile ==
  /\ pc = "load" /\ queue # <<>> /\ StemOf[Popped] \in visited
  /\ queue' = Below
  /\ UNCHANGED <<disk, visited, modules, pc, scopes, errors, call>>

(* A file that is not on the disk stands for one that cannot be read, scanned or    *)
(* parsed: the compiler gives up.                                           *)
MissingFile ==
  /\ pc = "load" /\ queue # <<>> /\ StemOf[Popped] \notin visited
  /\ Popped \notin DOMAIN disk
  /\ pc' = "unreadable"
  /\ UNCHANGED <<files, scopes, errors, call>>

(* Fault: nothing is remembered of what was read. *)
LoadFileAgain ==
  /\ pc = "load" /\ queue # <<>> /\ StemOf[Popped] \notin visited
  /\ Popped \in DOMAIN disk
  /\ modules' = Append(modules, [name |-> StemOf[Popped], path |-> Popped, items |-> disk[Popped]])
  /\ LET new == ToLoad(disk[Popped], visited)
     IN queue' = Below \o [j \in DOMAIN new |-> Join[Popped][new[j].from]]
  /\ UNCHANGED <<disk, visited, pc, scopes, errors, call>>

LoadFile ==
  /\ pc = "load" /\ queue # <<>> /\ StemOf[Popped] \notin visited
  /\ Popped \in DOMAIN disk
  /\ visited' = visited \cup {StemOf[Popped]}
  /\ modules' = Append(modules, [name |-> StemOf[Popped], path |-> Popped, items |-> disk[Popped]])
  /\ LET new == ToLoad(disk[Popped], visited')
     IN queue' = Below \o [j \in DOMAIN new |-> Join[Popped][new[j].from]]
  /\ UNCHANGED <<disk, pc, scopes, errors, call>>

(* build_hir puts of:core in front. *)
Loaded ==
  /\ pc = "load" /\ queue = <<>>
  /\ modules' = <<[name |-> Core, path |-> Core, items |-> CoreItems]>> \o modules
  /\ pc' = "imports"
  /\ UNCHANGED <<disk, queue, visited, scopes, errors, call>>

-----------------------------------------------------------------------------
(* register_modules_and_imports, one module: the prelude, then its imports in    *)
(* the order of the text.                                                   *)
Error(e, k, name) == [err |-> e, mod |-> k, name |-> name]

Import(k, source, name, as) == [importer |-> k, source |-> source, name |-> name, as |-> as]

Implicit(k) ==
  IF modules[k].name = Core THEN <<>>
  ELSE [j \in DOMAIN Prelude |-> Import(k, IdOf(Core), Prelude[j], Prelude[j])]

Resolvable(k, kind) ==
  Sift(modules[k].items,
       LAMBDA i : i.k = kind /\ i.from # modules[k].name /\ i.from \in Names)

(* What a module asks for by name, the prelude first. *)
Requests(k) ==
  LET named == Resolvable(k, "named")
  IN Implicit(k)
       \o [j \in DOMAIN named |-> Import(k, IdOf(named[j].from), named[j].name, named[j].as)]

CollectImports ==
  /\ pc = "imports" /\ Len(globs) < Len(modules)
  /\ LET k     == Len(globs) + 1
         glob  == Resolvable(k, "glob")
         asked == {modules[k].items[j].from : j \in {i \in DOMAIN modules[k].items :
                                                       IsImport(modules[k].items[i])}}
     IN /\ globs' = Append(globs, [j \in DOMAIN glob |-> IdOf(glob[j].from)])
        /\ pending' = pending \o Requests(k)
        /\ errors' = errors
             \cup {Error("self_import", k, t) : t \in asked \cap {modules[k].name}}
             \cup {Error("unknown_module", k, t) : t \in asked \ Names}
  /\ UNCHANGED <<files, pc, direct, imported, call>>

NamesNext ==
  /\ pc = "imports" /\ Len(globs) = Len(modules)
  /\ pc' = "names"
  /\ UNCHANGED <<files, scopes, errors, call>>

(* register_type_names, one module: the first definition of a name counts. *)
Defines(k, name) ==
  {j \in DOMAIN modules[k].items : IsDef(modules[k].items[j]) /\ modules[k].items[j].name = name}
Defined(k) == {n \in Symbol : Defines(k, n) # {}}

RegisterNames ==
  /\ pc = "names" /\ Len(direct) < Len(modules)
  /\ LET k == Len(direct) + 1 IN
       /\ direct' = Append(direct, [n \in Defined(k) |-> [mod |-> k, name |-> n]])
       /\ imported' = Append(imported, {})
       /\ errors' = errors \cup
            {Error("duplicate_name", k, n) : n \in {m \in Symbol : Cardinality(Defines(k, m)) > 1}}
  /\ UNCHANGED <<files, pc, globs, pending, call>>

FinalizeNext ==
  /\ pc = "names" /\ Len(direct) = Len(modules)
  /\ pc' = "finalize"
  /\ UNCHANGED <<files, scopes, errors, call>>

-----------------------------------------------------------------------------
(* The pending imports, in order, against what the source has by then. *)
Finalizing == pc = "finalize" /\ pending # <<>>
P          == Head(pending)

(* Fault: what the source imports is not found. *)
FoundOwn   == P.name \in Defined(P.source)
Found      == P.name \in DOMAIN direct[P.source]
(* Faults: what the source imports is taken for its own; a definition gives way.  *)
EntryOfSource == [mod |-> P.source, name |-> P.name]
TakenByImport == P.as \in imported[P.importer]

Entry      == direct[P.source][P.name]
Taken      == P.as \in DOMAIN direct[P.importer]

(* Fault: a definition of the module's own is held to clash with an import. *)
ClashesWithOwn == Taken /\ direct[P.importer][P.as] # Entry
Clashes    == Taken /\ P.as \in imported[P.importer] /\ direct[P.importer][P.as] # Entry

Bind(k, name, e) == [n \in DOMAIN direct[k] \cup {name} |-> IF n = name THEN e ELSE direct[k][n]]

UnknownSymbol ==
  /\ Finalizing /\ ~ Found
  /\ errors' = errors \cup {[err |-> "unknown_symbol", mod |-> P.importer, name |-> P.name,
                             from |-> P.source]}
  /\ pending' = Tail(pending)
  /\ UNCHANGED <<files, pc, globs, direct, imported, call>>

DuplicateImport ==
  /\ Finalizing /\ Found /\ Clashes
  /\ errors' = errors \cup {Error("duplicate_import", P.importer, P.as)}
  /\ pending' = Tail(pending)
  /\ UNCHANGED <<files, pc, globs, direct, imported, call>>

(* A definition of the module's own shadows the import; the same import again   *)
(* does no harm.                                                            *)
KeepEntry ==
  /\ Finalizing /\ Found /\ Taken /\ ~ Clashes
  /\ pending' = Tail(pending)
  /\ UNCHANGED <<files, pc, globs, direct, imported, errors, call>>

(* Fault: the alias is forgotten. *)
ImportUnaliased ==
  /\ Finalizing /\ Found /\ ~ Taken
  /\ direct' = [direct EXCEPT ![P.importer] = Bind(P.importer, P.name, Entry)]
  /\ imported' = [imported EXCEPT ![P.importer] = @ \cup {P.name}]
  /\ pending' = Tail(pending)
  /\ UNCHANGED <<files, pc, globs, errors, call>>

ImportSymbol ==
  /\ Finalizing /\ Found /\ ~ Taken
  /\ direct' = [direct EXCEPT ![P.importer] = Bind(P.importer, P.as, Entry)]
  /\ imported' = [imported EXCEPT ![P.importer] = @ \cup {P.as}]
  /\ pending' = Tail(pending)
  /\ UNCHANGED <<files, pc, globs, errors, call>>

(* validate: the verdict (the later phases are taken to find nothing). *)
Verdict ==
  /\ pc = "finalize" /\ pending = <<>>
  /\ pc' = IF errors = {} THEN "accepted" ELSE "rejected"
  /\ UNCHANGED <<files, scopes, errors, call>>

-----------------------------------------------------------------------------
(* lookup_in_scope: direct, then the first glob that has the name; {} for none.   *)
Offering(k, name) == {j \in DOMAIN globs[k] : name \in DOMAIN direct[globs[k][j]]}
First(js)         == CHOOSE j \in js : \A i \in js : j <= i

LookupInScope(k, name) ==
  IF name \in DOMAIN direct[k] THEN {direct[k][name]}
  ELSE IF Offering(k, name) # {} THEN {direct[globs[k][First(Offering(k, name))]][name]}
  ELSE {}

KindOf(e) == modules[e.mod].items[First(Defines(e.mod, e.name))].k

Functions ==   (* hir.functions *)
  {f \in [mod : DOMAIN modules, name : Symbol, k : {"fn", "method"}] :
     IF f.k = "fn" THEN Defines(f.mod, f.name) # {} /\ KindOf(f) = "fn"
     ELSE [k |-> "method", name |-> f.name] \in Range(modules[f.mod].items)}

(* check_call: a callee is a name that means a function here. *)
Callable(k) == {n \in Symbol : \E e \in LookupInScope(k, n) : KindOf(e) = "fn"}

(* Fault: methods are not passed over. *)
FunctionsAndMethods(name) == {f \in Functions : f.name = name}

(* lookup_free_function: any function of that name, whatever its module. *)
FreeFunctions(name) == {f \in Functions : f.k = "fn" /\ f.name = name}

(* lower_call: the HIR has only the name. *)
LowerCall ==
  /\ pc = "accepted"
  /\ \E k \in DOMAIN modules \ {1} : \E n \in Callable(k) : \E f \in FreeFunctions(n) :
       call' = {[mod |-> k, name |-> n, target |-> f]}
  /\ pc' = "lowered"
  /\ UNCHANGED <<files, scopes, errors>>

(* No function of that name anywhere: lower_variable finds no local either.     *)
LowerCallPanics ==
  /\ pc = "accepted"
  /\ \E k \in DOMAIN modules \ {1} : \E n \in Callable(k) : FreeFunctions(n) = {}
  /\ pc' = "panicked"
  /\ UNCHANGED <<files, scopes, errors, call>>

Next ==
  \/ SkipFile \/ MissingFile \/ LoadFile \/ Loaded
  \/ CollectImports \/ NamesNext \/ RegisterNames \/ FinalizeNext
  \/ UnknownSymbol \/ DuplicateImport \/ KeepEntry \/ ImportSymbol \/ Verdict
  \/ LowerCall \/ LowerCallPanics

Spec == Init /\ [][Next]_vars /\ WF_vars(Next)

-----------------------------------------------------------------------------
ModuleId == DOMAIN modules
Meaning  == [mod : ModuleId, name : Symbol]

(* Every variable has its type, and every entry of a scope leads to a definition  *)
(* that is really there: an import of an import is followed to where the name     *)
(* was defined (register_type_names, finalization).                         *)
TypeOK ==
  /\ DOMAIN disk \subseteq Path /\ \A f \in DOMAIN disk : disk[f] \in Seq(Item)
  /\ queue \in Seq(Path) /\ visited \subseteq Target
  /\ modules \in Seq([name : Target, path : Path \cup {Core}, items : Seq(Item)])
  /\ globs \in Seq(Seq(ModuleId)) /\ Len(globs) <= Len(modules)
  /\ pending \in Seq([importer : ModuleId, source : ModuleId, name : Symbol, as : Symbol])
  /\ Len(direct) <= Len(modules) /\ Len(imported) = Len(direct)
  /\ \A k \in DOMAIN direct :
       /\ imported[k] \subseteq DOMAIN direct[k] \ Defined(k)
       /\ \A n \in DOMAIN direct[k] :
            direct[k][n] \in Meaning /\ direct[k][n].name \in Defined(direct[k][n].mod)

(* What the text asks for, and what each module imports unasked.               *)
Asked(k) == {i \in Range(modules[k].items) : IsImport(i)}
Wanted(k) ==
  Range(Implicit(k))
    \cup {Import(k, IdOf(i.from), i.name, i.as) :
            i \in {x \in Asked(k) : x.k = "named" /\ x.from \in Names \ {modules[k].name}}}

(* When loading ends, a file stem has been read once, nothing an import asks for   *)
(* has been left unread, and nothing was read that no import of an earlier module  *)
(* asked for, however the imports run in circles (load_modules_recursively).    *)
LoadedIsReachable ==
  pc \notin {"load", "unreadable"} =>
    /\ \A i, j \in ModuleId : modules[i].name = modules[j].name => i = j
    /\ \A k \in ModuleId : \A i \in Asked(k) :
         i.from = Core \/ ByName(StemOf[Join[modules[k].path][i.from]]) # {}
    /\ \A k \in ModuleId \ {1} :
         \/ modules[k].path = Start
         \/ \E j \in 2 .. k - 1 : \E i \in Asked(j) : Join[modules[j].path][i.from] = modules[k].path

(* The compiler was given a file whose name ends in .of. *)
StartIsOf == Join[Start][StemOf[Start]] = Start

(* In an accepted program an import stands for the module of the file it points   *)
(* at: the loader knows files by their stem, so a/x.of and x.of are one module to  *)
(* it, and it is the validator, which knows no module "a/x", that keeps a program  *)
(* from getting the other file.                                              *)
ImportsGetTheirFile ==
  pc = "accepted" =>
    \A k \in ModuleId : \A i \in Asked(k) : \A m \in ByName(i.from) :
      i.from # Core => modules[m].path = Join[modules[k].path][i.from]

(* A name never changes its meaning once a module has it: what an importer was     *)
(* given by an earlier finalized import stays what the source means by it.       *)
ScopesGrow ==
  [][\A k \in DOMAIN direct : \A n \in DOMAIN direct[k] :
       n \in DOMAIN direct'[k] /\ direct'[k][n] = direct[k][n]]_vars

(* An accepted program's scopes mean what the text says: a definition of the       *)
(* module itself wins; else an imported name means what the source means by it,    *)
(* for every import that gives that name; and there is nothing else in the scope.  *)
ImportsMean ==
  pc = "accepted" =>
    \A k \in ModuleId :
      /\ \A n \in Defined(k) : direct[k][n] = [mod |-> k, name |-> n]
      /\ \A w \in Wanted(k) : w.as \notin Defined(k) =>
           w.as \in DOMAIN direct[k] /\ direct[k][w.as] = direct[w.source][w.name]
      /\ DOMAIN direct[k] = Defined(k) \cup {w.as : w \in Wanted(k)}

(* What is refused is refused for a reason in the text.  A symbol reported unknown   *)
(* is not defined by the module it was asked of, and if that module has it all the *)
(* same when all is done, as an import of its own, then it is a later module: there *)
(* is no other way for the order of the modules to tell.  A name reported as        *)
(* imported twice is asked for twice and is not the module's own, for "local        *)
(* definitions silently shadow imports" (finalization of the named imports).      *)
RefusalsAreRight ==
  pc = "rejected" =>
    \A e \in errors :
      /\ e.err = "unknown_symbol" =>
           /\ e.name \notin Defined(e.from)
           /\ e.name \in DOMAIN direct[e.from] => e.mod < e.from
      /\ e.err = "duplicate_import" =>
           /\ e.name \notin Defined(e.mod)
           /\ \E i, j \in DOMAIN Requests(e.mod) :
                i # j /\ Requests(e.mod)[i].as = e.name /\ Requests(e.mod)[j].as = e.name

(* Every module gets its verdict, whatever circles its imports run in.            *)
Terminates == <>(pc \in {"unreadable", "accepted", "rejected"})

-----------------------------------------------------------------------------
(* The lowering looks a function up by name among all modules. That agrees with    *)
(* the validator only where no two modules have functions of one name and no       *)
(* function is imported under another name; there, it does agree: a method or a     *)
(* type of the same name takes nothing away.                                    *)
TheFunction(e) == [mod |-> e.mod, name |-> e.name, k |-> "fn"]

Lowered == \A c \in call : {c.target} = {TheFunction(e) : e \in LookupInScope(c.mod, c.name)}

PlainNames ==
  /\ \A f, g \in Functions : f.k = "fn" /\ g.k = "fn" /\ f.name = g.name => f = g
  /\ \A k \in ModuleId : \A n \in DOMAIN direct[k] : KindOf(direct[k][n]) = "fn" => direct[k][n].name = n

CalleesAgree == pc \in {"lowered", "panicked"} /\ PlainNames => pc = "lowered" /\ Lowered

(* The same with no proviso: a call the validator accepted reaches the function it  *)
(* resolved. What `import { Foo as Bar }` says ought to make it so.               *)
CalleeIsTheOneChecked == pc \in {"lowered", "panicked"} => pc = "lowered" /\ Lowered

(* "Importing the same local name twice (from any combination of imports) is an     *)
(* error": in an accepted program no name has two meanings through globs.          *)
AmbiguityIsReported ==
  pc = "accepted" =>
    \A k \in ModuleId : \A n \in Symbol \ DOMAIN direct[k] : \A i, j \in Offering(k, n) :
      direct[globs[k][i]][n] = direct[globs[k][j]][n]
=============================================================================
