--------------------------- MODULE ProjectLoading --------------------------
(***************************************************************************)
(* parse_project (source/src/project.rs): from the entry file the imports  *)
(* are followed depth first, a file at a time.  A file gets its number and *)
(* its place in `path_to_source` before its imports are followed, so a     *)
(* cycle of imports meets the number of a file still being read.           *)
(***************************************************************************)
EXTENDS Integers, Sequences, SequencesExt

CONSTANTS
    Modules,    \* the registered module names
    Canonical,  \* the file behind each path that exists
    Projects    \* the projects to load

(* Every definition of a text has its slots, and no file goes by the name  *)
(* that stands for none.                                                   *)
IsProject(p) ==
    /\ Len(p.core) \in Nat
    /\ \A f \in DOMAIN p.text :
          /\ Len(p.text[f]) \in Nat
          /\ \A i \in 1 .. Len(p.text[f]) :
                p.text[f][i].kind = "group" => Len(p.text[f][i].items) \in Nat

ASSUME LoadingAssumption ==
    /\ \A p \in Projects : IsProject(p)
    /\ \A path \in DOMAIN Canonical : Canonical[path] # "no file"

VARIABLES
    project,  \* entry and core paths, and the definitions of each readable file
    phase,
    frames,   \* the files being read, the innermost last
    wanted,   \* the file to read next
    reply,    \* the source the last read ended with
    paths,    \* path_to_source: the file of each source
    slots,    \* file_imports: the imports of each source, filled as they are resolved
    parsed,   \* the sources with their tree in place
    core,     \* the sources of the core modules
    errors    \* the diagnostics emitted

loadVars == <<project, phase, frames, wanted, reply, paths, slots, parsed, core, errors>>

NoFile == "no file"
NoName == ""
NoSource == 0
NoReply == -1
ROOT == 1
Empty == [target |-> NoSource]

Sources == DOMAIN paths
(* Mutation: a file is known only once it has been read to its end.        *)
Known_Parsed(file) == \E s \in parsed : paths[s] = file
Known(file) == \E s \in Sources : paths[s] = file
SourceOf(file) == CHOOSE s \in Sources : paths[s] = file

Error(kind, source, at) == [kind |-> kind, source |-> source, at |-> at]
Unreadable(file) == Error("unreadable", NoSource, <<0, 0, file>>)

IsImport(def) == def.kind \in {"import", "group"}
Slots(def) ==
    CASE def.kind = "import" -> 1
      [] def.kind = "group" -> Len(def.items)
      [] OTHER -> 0

(* The slots of the first definitions of a text, for each number of them.  *)
SlotsThrough(text) ==
    LET upto[n \in 0 .. Len(text)] == IF n = 0 THEN 0 ELSE upto[n - 1] + Slots(text[n])
    IN upto

-----------------------------------------------------------------------------
(* The file an import names and what it selects there (module.rs).         *)
Unresolved(why) == [error |-> why]

ResolveImport(def) ==
    IF def.path = <<>> THEN Unresolved("too short")
    ELSE IF def.path[1] \notin Modules THEN Unresolved("unknown module")
    ELSE IF def.all THEN [error |-> "", file |-> def.path]
    ELSE IF Len(def.path) = 1 THEN Unresolved("too short")
    ELSE [error |-> "", file |-> Front(def.path)]

ResolveGroupImport(def) ==
    IF def.path = <<>> THEN Unresolved("too short")
    ELSE IF def.path[1] \notin Modules THEN Unresolved("unknown module")
    ELSE [error |-> "", file |-> def.path]

Resolve(def) == IF def.kind = "group" THEN ResolveGroupImport(def) ELSE ResolveImport(def)

Leads(def) == Resolve(def).error = "" /\ Resolve(def).file \in DOMAIN Canonical
FileOf(def) == Canonical[Resolve(def).file]
Why(def) == IF Resolve(def).error # "" THEN Resolve(def).error ELSE "no such file"

(* The slots of a definition once its file is source `id`: an item without *)
(* a name leaves its slot empty, and so does a file that could not be had. *)
FileImports(def, at, id) ==
    CASE id = NoSource -> [i \in 1 .. Slots(def) |-> Empty]
      [] id # NoSource /\ def.kind = "import" ->
            <<[target |-> id, span |-> <<at, 0>>, all |-> def.all, public |-> def.public,
               name |-> Last(def.path), as |-> IF def.as = NoName THEN Last(def.path) ELSE def.as]>>
      [] id # NoSource /\ def.kind = "group" ->
            [i \in 1 .. Len(def.items) |->
                LET item == def.items[i]
                IN IF item.name = NoName THEN Empty
                   ELSE [target |-> id, span |-> <<at, i>>, all |-> FALSE, public |-> def.public,
                         name |-> item.name, as |-> IF item.as = NoName THEN item.name ELSE item.as]]

-----------------------------------------------------------------------------
Top == Last(frames)
Text(s) == project.text[paths[s]]
ThisDef == Text(Top.source)[Top.def]
AtDef == frames # <<>> /\ wanted = NoFile /\ Top.def <= Len(Text(Top.source))

(* The next definition of the innermost file, `n` slots on.                *)
Move(n) == [frames EXCEPT ![Len(frames)].def = @ + 1, ![Len(frames)].slot = @ + n]

ReadSource ==
    /\ wanted # NoFile
    /\ wanted' = NoFile
    /\ IF wanted \in DOMAIN project.text
       THEN /\ paths' = Append(paths, wanted)
            /\ slots' = Append(slots, [i \in 1 .. SlotsThrough(project.text[wanted])[Len(project.text[wanted])] |-> Empty])
            /\ frames' = Append(frames, [source |-> Len(paths) + 1, def |-> 1, slot |-> 1])
            /\ UNCHANGED <<reply, errors>>
       ELSE /\ reply' = NoSource
            /\ errors' = errors \cup {Unreadable(wanted)}
            /\ UNCHANGED <<paths, slots, frames>>
    /\ UNCHANGED <<project, phase, parsed, core>>

PassDef ==
    /\ AtDef /\ ~IsImport(ThisDef)
    /\ frames' = Move(0)
    /\ UNCHANGED <<project, phase, wanted, reply, paths, slots, parsed, core, errors>>

(* An import without a file of its own is reported and its slots stay      *)
(* empty.                                                                  *)
ImportFails ==
    /\ AtDef /\ IsImport(ThisDef) /\ reply = NoReply /\ ~Leads(ThisDef)
    /\ errors' = errors \cup {Error(Why(ThisDef), Top.source, <<Top.def>>)}
    /\ frames' = Move(Slots(ThisDef))
    /\ UNCHANGED <<project, phase, wanted, reply, paths, slots, parsed, core>>

Fill(id) ==
    /\ slots' = [slots EXCEPT ![Top.source] =
                    [i \in DOMAIN @ |-> IF i \in Top.slot .. Top.slot + Slots(ThisDef) - 1
                                        THEN FileImports(ThisDef, Top.def, id)[i - Top.slot + 1] ELSE @[i]]]
    /\ frames' = Move(Slots(ThisDef))

ImportKnown ==
    /\ AtDef /\ IsImport(ThisDef) /\ reply = NoReply
    /\ Leads(ThisDef) /\ Known(FileOf(ThisDef))
    /\ Fill(SourceOf(FileOf(ThisDef)))
    /\ UNCHANGED <<project, phase, wanted, reply, paths, parsed, core, errors>>

ImportReads ==
    /\ AtDef /\ IsImport(ThisDef) /\ reply = NoReply
    /\ Leads(ThisDef) /\ ~Known(FileOf(ThisDef))
    /\ wanted' = FileOf(ThisDef)
    /\ UNCHANGED <<project, phase, frames, reply, paths, slots, parsed, core, errors>>

ImportReturns ==
    /\ AtDef /\ reply # NoReply
    /\ Fill(reply)
    /\ reply' = NoReply
    /\ UNCHANGED <<project, phase, wanted, paths, parsed, core, errors>>

FinishSource ==
    /\ frames # <<>> /\ wanted = NoFile /\ Top.def > Len(Text(Top.source))
    /\ parsed' = parsed \cup {Top.source}
    /\ reply' = Top.source
    /\ frames' = Front(frames)
    /\ UNCHANGED <<project, phase, wanted, paths, slots, core, errors>>

-----------------------------------------------------------------------------
Idle == frames = <<>> /\ wanted = NoFile

OpenEntry ==
    /\ phase = "entry" /\ Idle /\ reply = NoReply
    /\ IF project.entry \in DOMAIN Canonical
       THEN wanted' = Canonical[project.entry] /\ UNCHANGED <<phase, errors>>
       ELSE /\ phase' = "refused"
            /\ errors' = errors \cup {Error("no entry file", NoSource, <<>>)}
            /\ UNCHANGED wanted
    /\ UNCHANGED <<project, frames, reply, paths, slots, parsed, core>>

EntryReturns ==
    /\ phase = "entry" /\ Idle /\ reply # NoReply
    /\ phase' = IF reply = NoSource THEN "refused" ELSE "core"
    /\ reply' = NoReply
    /\ UNCHANGED <<project, frames, wanted, paths, slots, parsed, core, errors>>

(* A core module that is not there is nobody's error.                      *)
OpenCore ==
    /\ phase = "core" /\ Idle /\ reply = NoReply /\ Len(core) < Len(project.core)
    /\ LET path == project.core[Len(core) + 1]
       IN CASE path \notin DOMAIN Canonical ->
                  core' = Append(core, NoSource) /\ UNCHANGED wanted
            [] path \in DOMAIN Canonical /\ Known(Canonical[path]) ->
                  core' = Append(core, SourceOf(Canonical[path])) /\ UNCHANGED wanted
            [] OTHER ->
                  wanted' = Canonical[path] /\ UNCHANGED core
    /\ UNCHANGED <<project, phase, frames, reply, paths, slots, parsed, errors>>

CoreReturns ==
    /\ phase = "core" /\ Idle /\ reply # NoReply
    /\ core' = Append(core, reply)
    /\ reply' = NoReply
    /\ UNCHANGED <<project, phase, frames, wanted, paths, slots, parsed, errors>>

LoadInit ==
    /\ project \in Projects
    /\ phase = "entry"
    /\ frames = <<>> /\ wanted = NoFile /\ reply = NoReply
    /\ paths = <<>> /\ slots = <<>> /\ parsed = {} /\ core = <<>> /\ errors = {}

LoadNext ==
    \/ ReadSource \/ PassDef
    \/ ImportFails \/ ImportKnown \/ ImportReads \/ ImportReturns
    \/ FinishSource
    \/ OpenEntry \/ EntryReturns \/ OpenCore \/ CoreReturns

-----------------------------------------------------------------------------
(* What comes after loading leaves what was loaded as it is.               *)
Loaded == phase = "core" /\ Idle /\ reply = NoReply /\ Len(core) = Len(project.core)
Loading == phase \in {"entry", "core", "refused"}

UseLoaded ==
    /\ Loaded \/ ~Loading
    /\ ~Loading' /\ errors \subseteq errors'
    /\ UNCHANGED <<project, frames, wanted, reply, paths, slots, parsed, core>>

LoadSpec == LoadInit /\ [][LoadNext \/ UseLoaded]_loadVars

-----------------------------------------------------------------------------
IsReadable(file) == file \in DOMAIN project.text
IdOf(file) == IF Known(file) THEN SourceOf(file) ELSE NoSource

(* Definition i of source s is an import of a file.                        *)
LeadsTo(s, i, file) == IsImport(Text(s)[i]) /\ Leads(Text(s)[i]) /\ FileOf(Text(s)[i]) = file

(* A file is asked for by the entry, by a core module, or by a source that *)
(* was read before it.                                                     *)
IsAskedFor(s) ==
    \/ project.entry \in DOMAIN Canonical /\ paths[s] = Canonical[project.entry]
    \/ \E n \in 1 .. Len(project.core) :
          project.core[n] \in DOMAIN Canonical /\ paths[s] = Canonical[project.core[n]]
    \/ \E t \in 1 .. s - 1 : \E i \in 1 .. Len(Text(t)) : LeadsTo(t, i, paths[s])

(* The file is there, whether or not it has been read to its end, or its   *)
(* lack is reported.                                                       *)
IsServed(file) == IF IsReadable(file) THEN Known(file) ELSE Unreadable(file) \in errors

SlotsOf(s, i) == [k \in 1 .. Slots(Text(s)[i]) |-> slots[s][SlotsThrough(Text(s))[i - 1] + k]]

ImportIsResolved(s, i) ==
    LET def == Text(s)[i]
    IN IF Leads(def) THEN /\ IsServed(FileOf(def))
                          /\ SlotsOf(s, i) = FileImports(def, i, IdOf(FileOf(def)))
       ELSE /\ Error(Why(def), s, <<i>>) \in errors
            /\ SlotsOf(s, i) = FileImports(def, i, NoSource)

(* Definition i of source s lies behind the reader.                        *)
IsPassed(s, i) ==
    s \in parsed \/ \E k \in 1 .. Len(frames) : frames[k].source = s /\ i < frames[k].def

CoreIsFound(n) ==
    LET path == project.core[n]
    IN IF path \in DOMAIN Canonical
       THEN IsServed(Canonical[path]) /\ core[n] = IdOf(Canonical[path])
       ELSE core[n] = NoSource

(* Loading is exact, at every step and when it ends: a file is read once,  *)
(* under one number, in cycles too, and only if it is asked for; the       *)
(* lists of trees, paths and slots keep step although files are read in    *)
(* the middle of others; each import passed has its slots filled with the  *)
(* number of its file, or is reported, and no slot is filled twice; when   *)
(* nothing is being read every tree is in place; and core modules have the *)
(* numbers of their files.  These are also the assertions and expects of   *)
(* project.rs.                                                             *)
FilesAreLoaded ==
    /\ \A s, t \in Sources : paths[s] = paths[t] => s = t
    /\ \A s \in Sources : IsReadable(paths[s]) /\ IsAskedFor(s)
    /\ Len(slots) = Len(paths) /\ parsed \subseteq Sources /\ reply \in Sources \cup {NoSource, NoReply}
    /\ \A k \in 1 .. Len(frames) : frames[k].source \in Sources \ parsed
    /\ \A k, m \in 1 .. Len(frames) : frames[k].source = frames[m].source => k = m
    /\ \A s \in Sources : \A i \in 1 .. Len(Text(s)) : IsImport(Text(s)[i]) =>
          IF IsPassed(s, i) THEN ImportIsResolved(s, i) ELSE SlotsOf(s, i) = FileImports(Text(s)[i], i, NoSource)
    /\ frames = <<>> => parsed = Sources
    /\ \A n \in 1 .. Len(core) : CoreIsFound(n)
    /\ phase \notin {"entry", "refused"} => paths # <<>> /\ paths[ROOT] = Canonical[project.entry]
    /\ ~Loading => Idle /\ Len(core) = Len(project.core)
=============================================================================
