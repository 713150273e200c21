---------------------------- MODULE ModuleSystem ----------------------------
(***************************************************************************)
(* What the front end promises of a project of several files, whatever the *)
(* order it reads them in: every file the entry file and the core modules  *)
(* need is read once, and then the project is accepted exactly when its    *)
(* imports and names are well formed, each name of each file standing for  *)
(* the one constant the imports give it.                                   *)
(***************************************************************************)
EXTENDS Naturals, Sequences, SequencesExt, FiniteSets

CONSTANTS
    Modules,   \* the registered module names
    Canonical  \* the file behind each path that exists; two paths may lead to one file

VARIABLES
    project,  \* entry and core paths, and the definitions of each readable file
    sources,  \* the files read
    answer    \* the verdict and the scopes of an accepted project

vars == <<project, sources, answer>>

NoAnswer == [verdict |-> "none", scopes |-> <<>>]
Refused == [verdict |-> "refused", scopes |-> <<>>]
Accepted(scopes) == [verdict |-> "accepted", scopes |-> scopes]

Readable == DOMAIN project.text
Leads(path) == path \in DOMAIN Canonical /\ Canonical[path] \in Readable
Defs(f, kinds) == {i \in DOMAIN project.text[f] : project.text[f][i].kind \in kinds}
Def(f, i) == project.text[f][i]

(* The path of the file an import is about: of a single name, all but that *)
(* name.                                                                   *)
FilePath(d) == IF d.kind = "import" /\ ~d.all THEN Front(d.path) ELSE d.path
Reaches(d) ==
    /\ d.path # <<>> /\ d.path[1] \in Modules
    /\ d.kind = "import" /\ ~d.all => Len(d.path) > 1
    /\ Leads(FilePath(d))
Target(d) == Canonical[FilePath(d)]

(* The files one file needs, and those a set of them still lacks.          *)
Needs(f) == {Target(Def(f, i)) : i \in {j \in Defs(f, {"import", "group"}) : Reaches(Def(f, j))}}
Roots == {Canonical[p] : p \in {q \in {project.entry} \cup ToSet(project.core) : Leads(q)}}
Lacking(read) ==
    (IF Canonical[project.entry] \in read THEN Roots \cup UNION {Needs(f) : f \in read}
                                          ELSE {Canonical[project.entry]}) \ read

-----------------------------------------------------------------------------
CalledAs(name, alias) == IF alias = "" THEN name ELSE alias

(* A link is one thing an import brings into a file.                       *)
Links(f) ==
    {[at |-> <<i, 0>>, from |-> Target(Def(f, i)), all |-> Def(f, i).all,
      name |-> Last(Def(f, i).path), as |-> CalledAs(Last(Def(f, i).path), Def(f, i).as),
      public |-> Def(f, i).public] :
        i \in {j \in Defs(f, {"import"}) : Reaches(Def(f, j))}}
    \cup UNION {{[at |-> <<i, j>>, from |-> Target(Def(f, i)), all |-> FALSE, name |-> Def(f, i).items[j].name,
                  as |-> CalledAs(Def(f, i).items[j].name, Def(f, i).items[j].as), public |-> Def(f, i).public] :
                     j \in {k \in DOMAIN Def(f, i).items : Def(f, i).items[k].name # ""}} :
              i \in {k \in Defs(f, {"group"}) : Reaches(Def(f, k))}}

Own(f) == {Def(f, i).name : i \in Defs(f, {"const"})}

(* The triples <<file, public name, constant>>: a file's own constants and *)
(* whatever its public imports pass on.                                    *)
RECURSIVE PassedOn(_)
PassedOn(known) ==
    LET more == known \cup
            UNION {UNION {{<<f, IF l.all THEN k[2] ELSE l.as, k[3]>> :
                              k \in {m \in known : m[1] = l.from /\ (l.all \/ m[2] = l.name)}} :
                       l \in {m \in Links(f) : m.public}} : f \in sources}
    IN IF more = known THEN known ELSE PassedOn(more)
Exports == PassedOn(UNION {{<<f, n, <<f, n>>>> : n \in Own(f)} : f \in sources})
Meanings(exports, f, n) == {k[3] : k \in {m \in exports : m[1] = f /\ m[2] = n}}

(* The pairs of a name and a constant that one link binds in its file.     *)
Binds(exports, l) ==
    IF l.all THEN {<<k[2], k[3]>> : k \in {m \in exports : m[1] = l.from}}
             ELSE {<<l.as, c>> : c \in Meanings(exports, l.from, l.name)}
Scope(exports, f) ==
    LET bound == {<<n, <<f, n>>>> : n \in Own(f)} \cup UNION {Binds(exports, l) : l \in Links(f)}
    IN [n \in {b[1] : b \in bound} |-> (CHOOSE b \in bound : b[1] = n)[2]]

(* No name is given twice and no import of one name is in vain.            *)
NamesAreClear(exports, f) ==
    /\ \A i, j \in Defs(f, {"const"}) : Def(f, i).name = Def(f, j).name => i = j
    /\ \A l \in Links(f) : LET mine == Binds(exports, l) IN
        /\ l.all \/ mine # {}
        /\ {b[1] : b \in mine} \cap Own(f) = {}
        /\ \A m \in Links(f) \ {l} : {b[1] : b \in mine} \cap {b[1] : b \in Binds(exports, m)} = {}
EntryPointsAreClear(f) ==
    /\ Cardinality(Defs(f, {"init"})) <= 1 /\ Cardinality(Defs(f, {"run"})) <= 1
    /\ Defs(f, {"run"}) # {} \/ f = Canonical[project.entry] => Defs(f, {"init"}) # {}
WellFormed(exports) ==
    /\ \A p \in ToSet(project.core) \cap DOMAIN Canonical : Canonical[p] \in Readable
    /\ \A f \in sources :
        /\ \A i \in Defs(f, {"import", "group"}) : Reaches(Def(f, i))
        /\ NamesAreClear(exports, f) /\ EntryPointsAreClear(f)

-----------------------------------------------------------------------------
Init == sources = {} /\ answer = NoAnswer

Read ==
    /\ answer = NoAnswer /\ Leads(project.entry)
    /\ \E f \in Lacking(sources) : sources' = sources \cup {f}
    /\ UNCHANGED <<project, answer>>

Answer ==
    /\ answer = NoAnswer
    /\ Leads(project.entry) => Lacking(sources) = {}
    /\ \E exports \in {Exports} :
        answer' = IF Leads(project.entry) /\ WellFormed(exports)
                  THEN Accepted([f \in sources |-> Scope(exports, f)]) ELSE Refused
    /\ UNCHANGED <<project, sources>>

Next == Read \/ Answer

(* Whatever the imports lead to, cycles included, there is an answer.      *)
Answered == <>(answer # NoAnswer)

Spec == Init /\ [][Next]_vars /\ Answered
=============================================================================
