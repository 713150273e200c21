------------------------ MODULE ProjectLoadingProofs -----------------------
(***************************************************************************)
(* Loading is exact, for every project.                                    *)
(*                                                                         *)
(* The invariant: the innermost file has been asked for by the definition  *)
(* at which the file around it stands, and so on outwards, the outermost   *)
(* one by the entry or by a core module.  So what a read ends with is the  *)
(* file the definition asked for, however many were read in between.       *)
(***************************************************************************)
EXTENDS ProjectLoading, SequenceLemmas

Frames == [source : Nat, def : Nat, slot : Nat]
SlotValues ==
    {Empty} \cup {FileImports(project.text[f][i], i, id)[k] :
                      f \in DOMAIN project.text, i \in Nat, id \in Nat, k \in Nat}

TypeInv ==
    /\ IsProject(project)
    /\ paths \in Seq(DOMAIN project.text)
    /\ slots \in Seq(Seq(SlotValues)) /\ Len(slots) = Len(paths)
    /\ frames \in Seq(Frames)
    /\ parsed \subseteq Sources
    /\ reply \in Sources \cup {NoSource, NoReply}
    /\ core \in Seq(Nat)

Unique == \A s, t \in Sources : paths[s] = paths[t] => s = t

(* What the entry or the next core module asks for. *)
RootAsks(file) ==
    \/ phase = "entry" /\ project.entry \in DOMAIN Canonical /\ file = Canonical[project.entry]
    \/ /\ phase = "core" /\ Len(core) < Len(project.core)
       /\ project.core[Len(core) + 1] \in DOMAIN Canonical
       /\ file = Canonical[project.core[Len(core) + 1]]

(* What the k-th of the files being read asks for, by the definition it is at. *)
Asks(k, file) ==
    IF k = 0 THEN RootAsks(file)
    ELSE /\ frames[k].def \in 1 .. Len(Text(frames[k].source))
         /\ LeadsTo(frames[k].source, frames[k].def, file)

Replies(file, id) ==
    \/ id \in Sources /\ paths[id] = file
    \/ id = NoSource /\ ~IsReadable(file) /\ Unreadable(file) \in errors

FrameIsAt(k) ==
    LET f == frames[k]
    IN /\ f.source \in Sources \ parsed
       /\ f.def \in 1 .. Len(Text(f.source)) + 1
       /\ f.slot = SlotsThrough(Text(f.source))[f.def - 1] + 1

StackInv ==
    /\ \A k \in 1 .. Len(frames) : FrameIsAt(k)
    /\ \A k \in 0 .. Len(frames) - 1 : \A file : file = paths[frames[k + 1].source] => Asks(k, file)
    /\ \A k, m \in 1 .. Len(frames) : frames[k].source = frames[m].source => k = m
    /\ \A s \in Sources : s \in parsed \/ \E k \in 1 .. Len(frames) : frames[k].source = s
    /\ wanted # NoFile =>
          /\ reply = NoReply /\ ~Known(wanted)
          /\ \A k, file : k = Len(frames) /\ file = wanted => Asks(k, file)
    /\ reply # NoReply => \E k, file : k = Len(frames) /\ Asks(k, file) /\ Replies(file, reply)

RootInv ==
    /\ phase \notin {"entry", "core"} => Idle /\ reply = NoReply
    /\ phase = "entry" /\ Idle /\ reply = NoReply => paths = <<>>
    /\ paths # <<>> => project.entry \in DOMAIN Canonical /\ paths[ROOT] = Canonical[project.entry]
    /\ phase \notin {"entry", "refused"} => paths # <<>>
    /\ Len(core) <= Len(project.core)
    /\ ~Loading => Len(core) = Len(project.core)

Total(s) == SlotsThrough(Text(s))[Len(Text(s))]
SlotsInv ==
    \A s \in Sources :
        /\ Len(slots[s]) = Total(s)
        /\ \A i \in 1 .. Len(Text(s)) : IsImport(Text(s)[i]) =>
              IF IsPassed(s, i) THEN ImportIsResolved(s, i)
              ELSE SlotsOf(s, i) = FileImports(Text(s)[i], i, NoSource)

NeedInv == \A s \in Sources : IsAskedFor(s)
CoreInv == \A n \in 1 .. Len(core) : CoreIsFound(n)

LoadInv == TypeInv /\ Unique /\ StackInv /\ RootInv /\ SlotsInv /\ NeedInv /\ CoreInv

-----------------------------------------------------------------------------
LEMMA SlotsAreCounted ==
    ASSUME TypeInv, NEW f \in DOMAIN project.text
    PROVE  /\ Len(project.text[f]) \in Nat
           /\ \A i \in 1 .. Len(project.text[f]) : Slots(project.text[f][i]) \in Nat
<1>1. IsProject(project)
  BY DEF TypeInv
<1>2. Len(project.text[f]) \in Nat
  BY <1>1 DEF IsProject
<1>3. ASSUME NEW i \in 1 .. Len(project.text[f]) PROVE Slots(project.text[f][i]) \in Nat
  <2>1. project.text[f][i].kind = "group" => Len(project.text[f][i].items) \in Nat
    BY <1>1 DEF IsProject
  <2> QED BY <2>1 DEF Slots
<1> QED BY <1>2, <1>3

(* The slots before each definition, and that they are in order. *)
LEMMA SlotsThroughText ==
    ASSUME NEW text, Len(text) \in Nat, \A i \in 1 .. Len(text) : Slots(text[i]) \in Nat
    PROVE  /\ SlotsThrough(text) \in [0 .. Len(text) -> Nat]
           /\ SlotsThrough(text)[0] = 0
           /\ \A i \in 1 .. Len(text) :
                 SlotsThrough(text)[i] = SlotsThrough(text)[i - 1] + Slots(text[i])
           /\ \A i, j \in 0 .. Len(text) : i <= j => SlotsThrough(text)[i] <= SlotsThrough(text)[j]
<1> DEFINE len == Len(text)
           add == [n \in 1 .. len |-> Slots(text[n])]
           step == [n \in 1 .. len |-> [x \in Nat |-> x + add[n]]]
           IsCount(f) == f = [n \in 0 .. len |-> IF n = 0 THEN 0 ELSE f[n - 1] + Slots(text[n])]
<1>1. add \in [1 .. len -> Nat]
  OBVIOUS
<1>2. PICK g \in [0 .. len -> Nat] : g[0] = 0 /\ \A n \in 1 .. len : g[n] = g[n - 1] + add[n]
  <2>1. len \in Nat
    OBVIOUS
  <2>2. step \in [1 .. len -> [Nat -> Nat]]
    <3> HIDE DEF add, len
    <3> QED BY <1>1
  <2>3. PICK g \in Recursions(len, Nat, 0, step) : TRUE
    <3> HIDE DEF step
    <3>1. Recursions(len, Nat, 0, step) # {}
      <4>1. 0 \in Nat
        OBVIOUS
      <4> HIDE DEF len
      <4> QED BY <2>1, <2>2, <4>1, RecursionUpTo
    <3> QED BY <3>1
  <2>4. g \in [0 .. len -> Nat] /\ g[0] = 0 /\ \A n \in 1 .. len : g[n] = step[n][g[n - 1]]
    BY <2>3 DEF Recursions
  <2> HIDE DEF add, len
  <2>5. \A n \in 1 .. len : g[n - 1] \in Nat
    BY <2>1, <2>4
  <2> QED BY <2>4, <2>5
<1>3. IsCount(g)
  <2>1. \A n \in 0 .. len : g[n] = IF n = 0 THEN 0 ELSE g[n - 1] + Slots(text[n])
    BY <1>2
  <2> QED BY <1>2, <2>1
<1> DEFINE c == SlotsThrough(text)
<1>4. IsCount(c)
  <2>1. c = CHOOSE f : f = [n \in 0 .. len |-> IF n = 0 THEN 0 ELSE f[n - 1] + Slots(text[n])]
    BY DEF SlotsThrough
  <2> HIDE DEF c, len
  <2> QED BY <1>3, <2>1
<1>5. DOMAIN c = 0 .. len /\ c[0] = 0 /\ \A n \in 1 .. len : c[n] = c[n - 1] + add[n]
  <2>1. c = [n \in 0 .. len |-> IF n = 0 THEN 0 ELSE c[n - 1] + Slots(text[n])]
    BY <1>4
  <2> HIDE DEF c
  <2> QED BY <2>1
<1>6. \A n \in 0 .. len : c[n] \in Nat
  <2> DEFINE T == {n \in 0 .. len : c[n] \in Nat}
  <2>1. 0 \in T
    BY <1>5
  <2>2. \A n \in 1 .. len : n - 1 \in T => n \in T
    <3> HIDE DEF add, c
    <3> QED BY <1>1, <1>5
  <2>3. 0 .. len \subseteq T
    <3> HIDE DEF T
    <3> QED BY <2>1, <2>2, InductionUpTo
  <2> QED BY <2>3
<1>7. c \in [0 .. len -> Nat]
  <2>1. c = [n \in 0 .. len |-> IF n = 0 THEN 0 ELSE c[n - 1] + Slots(text[n])]
    BY <1>4
  <2>2. c = [n \in 0 .. len |-> c[n]]
    <3> HIDE DEF add, c
    <3> QED BY <2>1
  <2> QED BY <1>6, <2>2
<1>8. ASSUME NEW i \in 0 .. len PROVE \A j \in 0 .. len : i <= j => c[i] <= c[j]
  <2> DEFINE T == {j \in 0 .. len : i <= j => c[i] <= c[j]}
  <2> HIDE DEF add, c
  <2>1. 0 \in T
    BY <1>7
  <2>2. ASSUME NEW j \in 1 .. len, j - 1 \in T PROVE j \in T
    <3>1. add[j] \in Nat /\ c[j] \in Nat /\ c[i] \in Nat /\ c[j - 1] \in Nat
      <4>1. j \in 0 .. len /\ j - 1 \in 0 .. len
        OBVIOUS
      <4> HIDE DEF len
      <4> QED BY <1>1, <1>7, <4>1
    <3>2. c[j] = c[j - 1] + add[j]
      BY <1>5
    <3>3. i <= j - 1 => c[i] <= c[j - 1]
      BY <2>2
    <3>4. i <= j => i = j \/ i <= j - 1
      OBVIOUS
    <3> QED BY <3>1, <3>2, <3>3, <3>4
  <2>3. 0 .. len \subseteq T
    <3> HIDE DEF T
    <3> QED BY <2>1, <2>2, InductionUpTo
  <2> QED BY <2>3
<1> HIDE DEF c
<1>9. \A i \in 1 .. len : c[i] = c[i - 1] + Slots(text[i])
  BY <1>5
<1> QED BY <1>5, <1>7, <1>8, <1>9 DEF c

LEMMA TextOfSource ==
    ASSUME TypeInv, NEW s \in Sources
    PROVE  /\ Sources = 1 .. Len(paths) /\ Len(paths) \in Nat
           /\ paths[s] \in DOMAIN project.text /\ IsReadable(paths[s])
           /\ Len(Text(s)) \in Nat
           /\ \A i \in 1 .. Len(Text(s)) : Slots(Text(s)[i]) \in Nat
           /\ SlotsThrough(Text(s)) \in [0 .. Len(Text(s)) -> Nat]
           /\ SlotsThrough(Text(s))[0] = 0
           /\ \A i \in 1 .. Len(Text(s)) :
                 SlotsThrough(Text(s))[i] = SlotsThrough(Text(s))[i - 1] + Slots(Text(s)[i])
           /\ \A i, j \in 0 .. Len(Text(s)) : i <= j => SlotsThrough(Text(s))[i] <= SlotsThrough(Text(s))[j]
<1>1. paths \in Seq(DOMAIN project.text)
  BY DEF TypeInv
<1>2. Sources = 1 .. Len(paths) /\ Len(paths) \in Nat
  BY <1>1 DEF Sources
<1>3. paths[s] \in DOMAIN project.text
  BY <1>1, <1>2
<1>4. Len(Text(s)) \in Nat /\ \A i \in 1 .. Len(Text(s)) : Slots(Text(s)[i]) \in Nat
  BY <1>3, SlotsAreCounted DEF Text
<1> QED BY <1>2, <1>3, <1>4, SlotsThroughText DEF IsReadable

(* A file that is known has one number. *)
LEMMA Lookup ==
    ASSUME Unique, NEW file
    PROVE  /\ Known(file) => IdOf(file) \in Sources /\ paths[IdOf(file)] = file /\ IdOf(file) = SourceOf(file)
           /\ \A s \in Sources : paths[s] = file => Known(file) /\ IdOf(file) = s
           /\ ~Known(file) => IdOf(file) = NoSource
<1>1. ASSUME NEW s \in Sources, paths[s] = file PROVE Known(file) /\ SourceOf(file) = s
  BY <1>1 DEF Known, SourceOf, Unique
<1>2. Known(file) => \E s \in Sources : paths[s] = file
  BY DEF Known
<1> QED BY <1>1, <1>2 DEF IdOf

(* A source more, maybe, and no error less. *)
Grows ==
    /\ project' = project /\ errors \subseteq errors'
    /\ \/ paths' = paths
       \/ wanted \in DOMAIN project.text /\ ~Known(wanted) /\ paths' = Append(paths, wanted)

LEMMA Grown ==
    ASSUME TypeInv, Unique, Grows
    PROVE  /\ paths' \in Seq(DOMAIN project'.text) /\ Unique'
           /\ \A s \in Sources : s \in Sources' /\ paths'[s] = paths[s] /\ Text(s)' = Text(s)
           /\ \A file : IsServed(file) => IsServed(file)' /\ IdOf(file)' = IdOf(file)
<1>1. paths \in Seq(DOMAIN project.text) /\ Sources = 1 .. Len(paths) /\ Len(paths) \in Nat
  BY DEF TypeInv, Sources
<1>2. project' = project /\ errors \subseteq errors'
  BY DEF Grows
<1>3. /\ paths' \in Seq(DOMAIN project.text)
      /\ \A s \in Sources : s \in Sources' /\ paths'[s] = paths[s]
      /\ Unique'
  <2>1. CASE paths' = paths
    BY <1>1, <2>1 DEF Unique, Sources
  <2>2. CASE wanted \in DOMAIN project.text /\ ~Known(wanted) /\ paths' = Append(paths, wanted)
    <3>1. /\ paths' \in Seq(DOMAIN project.text) /\ Len(paths') = Len(paths) + 1
          /\ \A s \in 1 .. Len(paths) : paths'[s] = paths[s]
          /\ paths'[Len(paths) + 1] = wanted
      BY <1>1, <2>2, AppendProperties
    <3>2. Sources' = 1 .. Len(paths) + 1
      BY <3>1 DEF Sources
    <3>3. \A s \in Sources : paths[s] # wanted
      BY <2>2 DEF Known
    <3>4. ASSUME NEW s \in Sources', NEW t \in Sources', paths'[s] = paths'[t] PROVE s = t
      <4>1. s \in Sources \/ s = Len(paths) + 1
        BY <1>1, <3>2
      <4>2. t \in Sources \/ t = Len(paths) + 1
        BY <1>1, <3>2
      <4> QED BY <1>1, <3>1, <3>3, <3>4, <4>1, <4>2 DEF Unique
    <3> QED BY <1>1, <3>1, <3>2, <3>4 DEF Unique
  <2> QED BY <2>1, <2>2 DEF Grows
<1>4. ASSUME NEW file, IsServed(file)
      PROVE  IsServed(file)' /\ IdOf(file)' = IdOf(file)
  <2>1. IsReadable(file)' = IsReadable(file)
    BY <1>2 DEF IsReadable
  <2>2. CASE IsReadable(file)
    <3>1. Known(file)
      BY <1>4, <2>2 DEF IsServed
    <3>2. IdOf(file) \in Sources /\ paths[IdOf(file)] = file
      BY <3>1, Lookup
    <3>3. PICK s : s = IdOf(file)
      OBVIOUS
    <3>4. s \in Sources' /\ paths'[s] = file
      BY <1>3, <3>2, <3>3
    <3>5. Known(file)' /\ SourceOf(file)' = s
      BY <1>3, <3>4 DEF Known, SourceOf, Unique
    <3> QED BY <2>1, <2>2, <3>3, <3>5 DEF IsServed, IdOf
  <2>3. CASE ~IsReadable(file)
    <3>1. Unreadable(file) \in errors'
      BY <1>2, <1>4, <2>3 DEF IsServed
    <3>2. ~Known(file)
      BY <1>1, <2>3 DEF Known, IsReadable
    <3>3. ~Known(file)'
      BY <1>2, <1>3, <2>3 DEF Known, IsReadable, Sources
    <3> QED BY <2>1, <2>3, <3>1, <3>2, <3>3 DEF IsServed, IdOf, Unreadable, Error
  <2> QED BY <2>2, <2>3
<1>5. \A s \in Sources : Text(s)' = Text(s)
  BY <1>2, <1>3 DEF Text
<1> QED BY <1>2, <1>3, <1>4, <1>5

(* What was asked for and what was resolved stays so. *)
LEMMA NeedsStay ==
    ASSUME TypeInv, Unique, Grows, NEW s \in Sources, IsAskedFor(s)
    PROVE  IsAskedFor(s)'
<1>1. project' = project
  BY DEF Grows
<1>2. paths'[s] = paths[s]
  BY Grown
<1>3. ASSUME NEW t \in 1 .. s - 1, NEW i \in 1 .. Len(Text(t)), LeadsTo(t, i, paths[s])
      PROVE  i \in 1 .. Len(Text(t)') /\ LeadsTo(t, i, paths[s])'
  <2>1. t \in Sources
    BY TextOfSource
  <2>2. Text(t)' = Text(t)
    BY <2>1, Grown
  <2> QED BY <1>2, <1>3, <2>2 DEF LeadsTo
<1> QED BY <1>1, <1>2, <1>3 DEF IsAskedFor

LEMMA ResolvedStays ==
    ASSUME TypeInv, Unique, Grows, NEW s \in Sources, NEW i, ImportIsResolved(s, i), SlotsOf(s, i)' = SlotsOf(s, i)
    PROVE  ImportIsResolved(s, i)'
<1>1. PICK def : def = Text(s)[i]
  OBVIOUS
<1>2. Text(s)'[i] = def
  BY <1>1, Grown
<1>3. CASE Leads(def)
  <2>1. IsServed(FileOf(def)) /\ SlotsOf(s, i) = FileImports(def, i, IdOf(FileOf(def)))
    BY <1>1, <1>3 DEF ImportIsResolved
  <2>2. IsServed(FileOf(def))' /\ IdOf(FileOf(def))' = IdOf(FileOf(def))
    BY <2>1, Grown
  <2> QED BY <1>2, <1>3, <2>1, <2>2 DEF ImportIsResolved
<1>4. CASE ~Leads(def)
  <2>1. Error(Why(def), s, <<i>>) \in errors' /\ SlotsOf(s, i)' = FileImports(def, i, NoSource)
    BY <1>1, <1>4 DEF ImportIsResolved, Grows
  <2> QED BY <1>2, <1>4, <2>1 DEF ImportIsResolved
<1> QED BY <1>3, <1>4

LEMMA CoreStays ==
    ASSUME TypeInv, Unique, Grows, NEW n, CoreIsFound(n), core'[n] = core[n]
    PROVE  CoreIsFound(n)'
<1>1. project' = project
  BY DEF Grows
<1>2. CASE project.core[n] \in DOMAIN Canonical
  <2>1. PICK file : file = Canonical[project.core[n]]
    OBVIOUS
  <2>2. IsServed(file) /\ core[n] = IdOf(file)
    BY <1>2, <2>1 DEF CoreIsFound
  <2>3. IsServed(file)' /\ IdOf(file)' = IdOf(file)
    BY <2>2, Grown
  <2> QED BY <1>1, <1>2, <2>1, <2>2, <2>3 DEF CoreIsFound
<1>3. CASE project.core[n] \notin DOMAIN Canonical
  BY <1>1, <1>3 DEF CoreIsFound
<1> QED BY <1>2, <1>3

(* An import has as many entries as slots. *)
LEMMA EntriesOfImport ==
    ASSUME NEW def, IsImport(def), Slots(def) \in Nat, NEW at, NEW id
    PROVE  FileImports(def, at, id) = [k \in 1 .. Slots(def) |-> FileImports(def, at, id)[k]]
<1>1. CASE id = NoSource
  BY <1>1 DEF FileImports
<1>2. CASE id # NoSource /\ def.kind = "import"
  BY <1>2 DEF FileImports, Slots
<1>3. CASE id # NoSource /\ def.kind = "group"
  BY <1>3 DEF FileImports, Slots
<1> QED BY <1>1, <1>2, <1>3 DEF IsImport

LEMMA MovedFrames ==
    ASSUME TypeInv, frames # <<>>, NEW n \in Nat, frames' = Move(n)
    PROVE  LET last == Len(frames) IN
           /\ last \in Nat \ {0} /\ Top = frames[last]
           /\ frames' \in Seq(Frames) /\ Len(frames') = last
           /\ \A k \in 1 .. last - 1 : frames'[k] = frames[k]
           /\ frames'[last].source = Top.source /\ frames'[last].def = Top.def + 1
           /\ frames'[last].slot = Top.slot + n
<1> DEFINE last == Len(frames)
<1>1. frames \in Seq(Frames)
  BY DEF TypeInv
<1>2. last \in Nat \ {0} /\ Top = frames[last]
  BY <1>1, FrontProperties DEF Top
<1> DEFINE f == frames[last]
<1>3. f \in Frames
  BY <1>1, <1>2
<1> DEFINE new == [f EXCEPT !.def = @ + 1, !.slot = @ + n]
<1>4. new \in Frames /\ new.source = f.source /\ new.def = f.def + 1 /\ new.slot = f.slot + n
  <2>1. ASSUME NEW g \in Frames
        PROVE  LET h == [g EXCEPT !.def = @ + 1, !.slot = @ + n]
               IN h \in Frames /\ h.source = g.source /\ h.def = g.def + 1 /\ h.slot = g.slot + n
    <3> DEFINE h == [g EXCEPT !.def = @ + 1, !.slot = @ + n]
    <3>1. g \in [{"source", "def", "slot"} -> Nat]
      BY DEF Frames
    <3>2. h.source = g.source /\ h.def = g.def + 1 /\ h.slot = g.slot + n
      BY <3>1
    <3>3. h = [x \in {"source", "def", "slot"} |-> h[x]]
      BY <3>1
    <3>4. h.source \in Nat /\ h.def \in Nat /\ h.slot \in Nat
      BY <3>1, <3>2
    <3>5. h \in Frames
      <4> HIDE DEF h
      <4>1. h = [source |-> h.source, def |-> h.def, slot |-> h.slot]
        BY <3>3
      <4> QED BY <3>4, <4>1 DEF Frames
    <3> QED BY <3>2, <3>5
  <2> QED BY <1>3, <2>1
<1>5. frames' = [frames EXCEPT ![last] = new]
  BY <1>1, <1>2, <1>3 DEF Move, Frames
<1> HIDE DEF new
<1> QED BY <1>1, <1>2, <1>4, <1>5

-----------------------------------------------------------------------------
(* A request stands as long as what it was made from is there. *)
LEMMA RequestStays ==
    ASSUME project' = project, phase' = phase, core' = core, NEW k,
           k = 0 \/ (frames'[k] = frames[k] /\ Text(frames[k].source)' = Text(frames[k].source)),
           NEW file, Asks(k, file)
    PROVE  Asks(k, file)'
<1>1. CASE k = 0
  BY <1>1 DEF Asks, RootAsks
<1>2. CASE k # 0
  <2>1. PICK f : f = frames[k]
    OBVIOUS
  <2>2. f.def \in 1 .. Len(Text(f.source)) /\ LeadsTo(f.source, f.def, file)
    BY <1>2, <2>1 DEF Asks
  <2>3. frames'[k] = f /\ Text(f.source)' = Text(f.source)
    BY <1>2, <2>1
  <2>4. f.def \in 1 .. Len(Text(f.source)') /\ LeadsTo(f.source, f.def, file)'
    BY <2>2, <2>3 DEF LeadsTo
  <2> QED BY <1>2, <2>3, <2>4 DEF Asks
<1> QED BY <1>1, <1>2

(* The reader passes the definition it is at. *)
LEMMA PassesOver ==
    ASSUME LoadInv, AtDef, frames' = Move(Slots(ThisDef)),
           UNCHANGED <<project, phase, wanted, paths, parsed, core>>,
           errors \subseteq errors', reply' = NoReply,
           slots' \in Seq(Seq(SlotValues)), Len(slots') = Len(slots),
           \A s \in Sources : Len(slots'[s]) = Len(slots[s]),
           \A s \in Sources : \A i \in 1 .. Len(Text(s)) :
               (s = Top.source /\ i = Top.def) \/ SlotsOf(s, i)' = SlotsOf(s, i),
           \A s, i : s = Top.source /\ i = Top.def /\ IsImport(ThisDef) => ImportIsResolved(s, i)'
    PROVE  LoadInv'
<1> DEFINE last == Len(frames)
           src == Top.source
           d == Top.def
<1>1. TypeInv /\ Unique /\ StackInv /\ RootInv /\ SlotsInv /\ NeedInv /\ CoreInv
  BY DEF LoadInv
<1>2. frames # <<>> /\ wanted = NoFile /\ d <= Len(Text(src)) /\ last \in Nat \ {0} /\ Top = frames[last]
  <2>1. frames # <<>> /\ wanted = NoFile /\ d <= Len(Text(src))
    BY DEF AtDef
  <2>2. frames \in Seq(Frames)
    BY <1>1 DEF TypeInv
  <2> QED BY <2>1, <2>2, FrontProperties DEF Top
<1>3. src \in Sources /\ src \notin parsed /\ d \in 1 .. Len(Text(src)) /\ Len(Text(src)) \in Nat
      /\ Top.slot = SlotsThrough(Text(src))[d - 1] + 1
  <2>1. FrameIsAt(last)
    BY <1>1, <1>2 DEF StackInv
  <2>2. src \in Sources /\ src \notin parsed /\ d \in 1 .. Len(Text(src)) + 1
        /\ Top.slot = SlotsThrough(Text(src))[d - 1] + 1
    BY <1>2, <2>1 DEF FrameIsAt
  <2>3. Len(Text(src)) \in Nat
    BY <1>1, <2>2, TextOfSource
  <2> QED BY <1>2, <2>2, <2>3
<1>4. Grows
  BY DEF Grows
<1>5. Slots(ThisDef) \in Nat /\ ThisDef = Text(src)[d]
  BY <1>1, <1>3, TextOfSource DEF ThisDef
<1>6. /\ frames' \in Seq(Frames) /\ Len(frames') = last
      /\ \A k \in 1 .. last - 1 : frames'[k] = frames[k]
      /\ frames'[last].source = src /\ frames'[last].def = d + 1
      /\ frames'[last].slot = Top.slot + Slots(ThisDef)
  BY <1>1, <1>2, <1>5, MovedFrames
<1>7. /\ Sources' = Sources /\ \A s : Text(s)' = Text(s)
  BY DEF Sources, Text
<1>8. \A k \in 1 .. last : frames'[k].source = frames[k].source
  BY <1>2, <1>6
<1>9. TypeInv'
  BY <1>1, <1>6, <1>7 DEF TypeInv, SlotValues
<1>10. Unique'
  BY <1>1, <1>7 DEF Unique
<1>11. StackInv'
  <2>1. ASSUME NEW k \in 1 .. last PROVE FrameIsAt(k)'
    <3>1. FrameIsAt(k)
      BY <1>1 DEF StackInv
    <3>2. CASE k # last
      <4>1. frames'[k] = frames[k]
        BY <1>2, <1>6, <3>2
      <4> QED BY <1>7, <3>1, <4>1 DEF FrameIsAt
    <3>3. CASE k = last
      <4>1. SlotsThrough(Text(src))[d] = SlotsThrough(Text(src))[d - 1] + Slots(Text(src)[d])
        BY <1>1, <1>3, TextOfSource
      <4>2. SlotsThrough(Text(src))[d - 1] \in Nat
        <5>1. d - 1 \in 0 .. Len(Text(src))
          BY <1>3
        <5> QED BY <1>1, <1>3, <5>1, TextOfSource
      <4>3. frames'[k].slot = SlotsThrough(Text(src))[frames'[k].def - 1] + 1
        <5>1. frames'[k].def - 1 = d
          BY <1>3, <1>6, <3>3
        <5> QED BY <1>3, <1>5, <1>6, <3>3, <4>1, <4>2, <5>1
      <4>4. frames'[k].source = src /\ frames'[k].def \in 1 .. Len(Text(src)) + 1
        BY <1>3, <1>6, <3>3
      <4> QED BY <1>3, <1>7, <4>3, <4>4 DEF FrameIsAt
    <3> QED BY <3>2, <3>3
  <2>2. ASSUME NEW k \in 0 .. last - 1, NEW file, file = paths'[frames'[k + 1].source] PROVE Asks(k, file)'
    <3>0. k + 1 \in 1 .. last /\ (k # 0 => k \in 1 .. last - 1)
      BY <1>2
    <3>1. file = paths[frames[k + 1].source]
      BY <1>8, <2>2, <3>0
    <3>2. Asks(k, file)
      BY <1>1, <3>1 DEF StackInv
    <3>3. k = 0 \/ frames'[k] = frames[k]
      BY <1>6, <3>0
    <3> QED BY <1>7, <3>2, <3>3, RequestStays
  <2>3. \A k, m \in 1 .. last : frames'[k].source = frames'[m].source => k = m
    BY <1>1, <1>8 DEF StackInv
  <2>4. \A s \in Sources : s \in parsed \/ \E k \in 1 .. last : frames'[k].source = s
    BY <1>1, <1>8 DEF StackInv
  <2> QED BY <1>2, <1>6, <1>7, <2>1, <2>2, <2>3, <2>4 DEF StackInv
<1>12. RootInv'
  <2>1. frames' # <<>>
    BY <1>2, <1>6
  <2> QED BY <1>1, <1>2, <2>1 DEF RootInv, Idle, Loading
<1>13. SlotsInv'
  <2>1. ASSUME NEW s \in Sources, NEW i \in 1 .. Len(Text(s)), IsImport(Text(s)[i])
        PROVE  IF IsPassed(s, i)' THEN ImportIsResolved(s, i)'
               ELSE SlotsOf(s, i)' = FileImports(Text(s)[i], i, NoSource)
    <3>1. CASE s = src /\ i = d
      <4>1. IsPassed(s, i)'
        BY <1>2, <1>3, <1>6, <3>1 DEF IsPassed
      <4> QED BY <1>5, <2>1, <3>1, <4>1
    <3>2. CASE s = src /\ i # d
      <4>1. \A k \in 1 .. last : frames[k].source = src => k = last
        BY <1>1, <1>2 DEF StackInv
      <4>2. IsPassed(s, i) <=> i < d
        BY <1>2, <1>3, <3>2, <4>1 DEF IsPassed
      <4>3. IsPassed(s, i)' <=> i < d + 1
        BY <1>2, <1>3, <1>6, <1>8, <3>2, <4>1 DEF IsPassed
      <4>4. i < d <=> i < d + 1
        BY <1>3, <3>2
      <4>5. SlotsOf(s, i)' = SlotsOf(s, i)
        BY <3>2
      <4> QED BY <1>1, <1>4, <2>1, <4>2, <4>3, <4>4, <4>5, ResolvedStays DEF SlotsInv
    <3>3. CASE s # src
      <4>0. \A k \in 1 .. last : frames[k].source = s \/ frames'[k].source = s => frames'[k] = frames[k]
        BY <1>2, <1>6, <1>8, <3>3
      <4>1. IsPassed(s, i)' <=> IsPassed(s, i)
        BY <1>2, <1>6, <1>8, <4>0 DEF IsPassed
      <4>2. SlotsOf(s, i)' = SlotsOf(s, i)
        BY <3>3
      <4> QED BY <1>1, <1>4, <2>1, <4>1, <4>2, ResolvedStays DEF SlotsInv
    <3> QED BY <3>1, <3>2, <3>3
  <2>2. \A s \in Sources : Len(slots'[s]) = Total(s)
    BY <1>1 DEF SlotsInv
  <2> QED BY <1>7, <2>1, <2>2 DEF SlotsInv, Total
<1>14. NeedInv'
  BY <1>1, <1>4, <1>7, NeedsStay DEF NeedInv
<1>15. CoreInv'
  BY <1>1, <1>4, CoreStays DEF CoreInv
<1> QED BY <1>9, <1>10, <1>11, <1>12, <1>13, <1>14, <1>15 DEF LoadInv

(* Each definition has slots of its own. *)
LEMMA SlotsAreApart ==
    ASSUME TypeInv, NEW s \in Sources, NEW i \in 1 .. Len(Text(s)), NEW k \in 1 .. Slots(Text(s)[i])
    PROVE  LET before == SlotsThrough(Text(s)) IN
           /\ before[i - 1] \in Nat /\ before[i - 1] + k \in 1 .. Total(s)
           /\ \A j \in 1 .. Len(Text(s)) :
                 /\ before[j - 1] \in Nat /\ Slots(Text(s)[j]) \in Nat
                 /\ j < i => before[j - 1] + Slots(Text(s)[j]) < before[i - 1] + k
                 /\ i < j => before[i - 1] + k <= before[j - 1]
<1> DEFINE before == SlotsThrough(Text(s))
           len == Len(Text(s))
<1>1. /\ len \in Nat /\ \A j \in 1 .. len : Slots(Text(s)[j]) \in Nat
      /\ before \in [0 .. len -> Nat]
      /\ \A j \in 1 .. len : before[j] = before[j - 1] + Slots(Text(s)[j])
      /\ \A j, m \in 0 .. len : j <= m => before[j] <= before[m]
  BY TextOfSource
<1>2. Total(s) = before[len]
  BY DEF Total
<1>3. i \in 0 .. len /\ i - 1 \in 0 .. len /\ len \in 0 .. len /\ i <= len
  BY <1>1
<1>4. k \in Nat /\ k >= 1 /\ k <= Slots(Text(s)[i])
  BY <1>1
<1> HIDE DEF before, len
<1>5. before[i - 1] \in Nat /\ before[i] \in Nat /\ before[len] \in Nat
  BY <1>1, <1>3
<1>6. before[i - 1] + k <= before[i] /\ before[i] <= before[len]
  <2>1. before[i] = before[i - 1] + Slots(Text(s)[i])
    BY <1>1 DEF len
  <2>2. before[i] <= before[len]
    BY <1>1, <1>3
  <2> QED BY <1>1, <1>4, <1>5, <2>1, <2>2 DEF len
<1>7. ASSUME NEW j \in 1 .. len
      PROVE  /\ before[j - 1] \in Nat /\ Slots(Text(s)[j]) \in Nat
             /\ j < i => before[j - 1] + Slots(Text(s)[j]) < before[i - 1] + k
             /\ i < j => before[i - 1] + k <= before[j - 1]
  <2>1. j \in 0 .. len /\ j - 1 \in 0 .. len
    BY <1>1
  <2>2. before[j - 1] \in Nat /\ before[j] \in Nat /\ Slots(Text(s)[j]) \in Nat
    BY <1>1, <2>1
  <2>3. before[j] = before[j - 1] + Slots(Text(s)[j])
    BY <1>1
  <2>4. ASSUME j < i PROVE before[j] <= before[i - 1]
    <3>1. j <= i - 1
      BY <1>3, <2>1, <2>4
    <3> QED BY <1>1, <1>3, <2>1, <3>1
  <2>5. ASSUME i < j PROVE before[i] <= before[j - 1]
    <3>1. i <= j - 1
      BY <1>3, <2>1, <2>5
    <3> QED BY <1>1, <1>3, <2>1, <3>1
  <2>6. ASSUME j < i PROVE before[j - 1] + Slots(Text(s)[j]) < before[i - 1] + k
    <3>1. before[j] < before[i - 1] + k
      BY <1>4, <1>5, <2>2, <2>4, <2>6
    <3> QED BY <2>3, <3>1
  <2>7. ASSUME i < j PROVE before[i - 1] + k <= before[j - 1]
    BY <1>4, <1>5, <1>6, <2>2, <2>5, <2>7
  <2> QED BY <2>2, <2>6, <2>7
<1>8. before[i - 1] + k \in 1 .. before[len]
  BY <1>4, <1>5, <1>6
<1> QED BY <1>2, <1>5, <1>7, <1>8 DEF before, len

LEMMA Filled ==
    ASSUME LoadInv, AtDef, IsImport(ThisDef), NEW id \in Nat, Fill(id), project' = project, paths' = paths
    PROVE  /\ slots' \in Seq(Seq(SlotValues)) /\ Len(slots') = Len(slots)
           /\ \A s \in Sources : Len(slots'[s]) = Len(slots[s])
           /\ \A s \in Sources : \A i \in 1 .. Len(Text(s)) :
                 IF s = Top.source /\ i = Top.def THEN SlotsOf(s, i)' = FileImports(ThisDef, i, id)
                 ELSE SlotsOf(s, i)' = SlotsOf(s, i)
<1> DEFINE src == Top.source
           d == Top.def
           n == Slots(ThisDef)
           row == [i \in DOMAIN slots[src] |->
                      IF i \in Top.slot .. Top.slot + n - 1
                      THEN FileImports(ThisDef, d, id)[i - Top.slot + 1] ELSE slots[src][i]]
<1>1. TypeInv /\ StackInv /\ SlotsInv
  BY DEF LoadInv
<1>2. src \in Sources /\ d \in 1 .. Len(Text(src)) /\ Top.slot = SlotsThrough(Text(src))[d - 1] + 1
      /\ ThisDef = Text(src)[d]
  <2>1. frames \in Seq(Frames) /\ frames # <<>> /\ d <= Len(Text(src))
    BY <1>1 DEF TypeInv, AtDef
  <2>2. Len(frames) \in 1 .. Len(frames) /\ Top = frames[Len(frames)]
    BY <2>1, FrontProperties DEF Top
  <2>3. FrameIsAt(Len(frames))
    BY <1>1, <2>2 DEF StackInv
  <2>4. src \in Sources /\ d \in 1 .. Len(Text(src)) + 1 /\ Top.slot = SlotsThrough(Text(src))[d - 1] + 1
    BY <2>2, <2>3 DEF FrameIsAt
  <2>5. Len(Text(src)) \in Nat
    BY <1>1, <2>4, TextOfSource
  <2> QED BY <2>1, <2>4, <2>5 DEF ThisDef
<1>3. Sources = 1 .. Len(slots) /\ slots \in Seq(Seq(SlotValues))
  BY <1>1, <1>2, TextOfSource DEF TypeInv
<1>4. slots[src] \in Seq(SlotValues) /\ DOMAIN slots[src] = 1 .. Total(src) /\ Len(slots[src]) = Total(src)
  BY <1>1, <1>2, <1>3 DEF SlotsInv
<1>5. n \in Nat /\ Top.slot \in Nat /\ Total(src) \in Nat
  <2>1. Len(Text(src)) \in Nat /\ SlotsThrough(Text(src)) \in [0 .. Len(Text(src)) -> Nat]
    BY <1>1, <1>2, TextOfSource
  <2>2. n \in Nat
    BY <1>1, <1>2, TextOfSource
  <2>3. d - 1 \in 0 .. Len(Text(src)) /\ Len(Text(src)) \in 0 .. Len(Text(src))
    BY <1>2, <2>1
  <2>4. SlotsThrough(Text(src))[d - 1] \in Nat /\ Total(src) \in Nat
    BY <2>1, <2>3 DEF Total
  <2> QED BY <1>2, <2>2, <2>4
<1>6. slots' = [slots EXCEPT ![src] = row]
  BY DEF Fill
<1>7. row \in Seq(SlotValues) /\ Len(row) = Total(src)
  <2>1. ASSUME NEW k \in Nat PROVE FileImports(ThisDef, d, id)[k] \in SlotValues
    <3>1. paths[src] \in DOMAIN project.text /\ ThisDef = project.text[paths[src]][d] /\ d \in Nat
      BY <1>1, <1>2, TextOfSource DEF Text
    <3> QED BY <3>1 DEF SlotValues
  <2>2. ASSUME NEW i \in 1 .. Total(src) PROVE row[i] \in SlotValues
    <3>1. CASE i \in Top.slot .. Top.slot + n - 1
      <4>1. i - Top.slot + 1 \in Nat
        BY <1>5, <3>1
      <4>2. row[i] = FileImports(ThisDef, d, id)[i - Top.slot + 1]
        BY <1>4, <3>1
      <4> QED BY <2>1, <4>1, <4>2
    <3>2. CASE i \notin Top.slot .. Top.slot + n - 1
      BY <1>4, <3>2
    <3> QED BY <3>1, <3>2
  <2>3. DOMAIN row = 1 .. Total(src) /\ row = [i \in 1 .. Total(src) |-> row[i]]
    BY <1>4
  <2> HIDE DEF row
  <2> QED BY <1>5, <2>2, <2>3, SequenceOf
<1>8. slots'[src] = row /\ \A s \in Sources : s # src => slots'[s] = slots[s]
  <2> HIDE DEF row
  <2> QED BY <1>2, <1>3, <1>6
<1>9. slots' \in Seq(Seq(SlotValues)) /\ Len(slots') = Len(slots)
  <2> HIDE DEF row
  <2> QED BY <1>2, <1>3, <1>6, <1>7
<1>10. ASSUME NEW s \in Sources PROVE Len(slots'[s]) = Len(slots[s])
  BY <1>4, <1>7, <1>8
<1>11. ASSUME NEW s \in Sources, NEW i \in 1 .. Len(Text(s))
       PROVE  IF s = src /\ i = d THEN SlotsOf(s, i)' = FileImports(ThisDef, i, id)
              ELSE SlotsOf(s, i)' = SlotsOf(s, i)
  <2> DEFINE before == SlotsThrough(Text(s))
  <2>1. Text(s)' = Text(s)
    BY DEF Text
  <2>2. SlotsOf(s, i)' = [k \in 1 .. Slots(Text(s)[i]) |-> slots'[s][before[i - 1] + k]]
    BY <2>1 DEF SlotsOf
  <2>3. CASE s = src /\ i = d
    <3>1. ASSUME NEW k \in 1 .. n
          PROVE  slots'[s][before[i - 1] + k] = FileImports(ThisDef, d, id)[k]
      <4>1. before[i - 1] \in Nat /\ before[i - 1] + k \in 1 .. Total(src)
        BY <1>1, <1>2, <2>3, SlotsAreApart
      <4>2. Top.slot = before[i - 1] + 1
        BY <1>2, <2>3
      <4>3. PICK b : b = before[i - 1]
        OBVIOUS
      <4> HIDE DEF before, n
      <4>4. PICK m : m = b + k
        OBVIOUS
      <4>5. m \in Top.slot .. Top.slot + n - 1 /\ m - Top.slot + 1 = k
        <5>1. b \in Nat /\ Top.slot = b + 1
          BY <4>1, <4>2, <4>3
        <5>2. n \in Nat /\ k \in Nat /\ 1 <= k /\ k <= n
          BY <1>5
        <5>3. PICK t : t = Top.slot
          OBVIOUS
        <5>4. m \in t .. t + n - 1 /\ m - t + 1 = k
          BY <4>4, <5>1, <5>2, <5>3
        <5> QED BY <5>3, <5>4
      <4>6. row[m] = FileImports(ThisDef, d, id)[k]
        <5>1. m \in DOMAIN slots[src]
          BY <1>4, <4>1, <4>3, <4>4
        <5>2. row[m] = FileImports(ThisDef, d, id)[m - Top.slot + 1]
          BY <4>5, <5>1
        <5> QED BY <4>5, <5>2
      <4> HIDE DEF row
      <4> QED BY <1>8, <2>3, <4>3, <4>4, <4>6
    <3>2. FileImports(ThisDef, d, id) = [k \in 1 .. n |-> FileImports(ThisDef, d, id)[k]]
      BY <1>5, EntriesOfImport
    <3>3. SlotsOf(s, i)' = [k \in 1 .. n |-> FileImports(ThisDef, d, id)[k]]
      BY <1>2, <2>2, <2>3, <3>1
    <3> QED BY <2>3, <3>2, <3>3
  <2>4. CASE s = src /\ i # d
    <3>1. ASSUME NEW k \in 1 .. Slots(Text(s)[i])
          PROVE  slots'[s][before[i - 1] + k] = slots[s][before[i - 1] + k]
      <4>1. /\ before[i - 1] + k \in 1 .. Total(s) /\ before[i - 1] \in Nat
            /\ before[d - 1] \in Nat
            /\ d < i => before[d - 1] + Slots(Text(s)[d]) < before[i - 1] + k
            /\ i < d => before[i - 1] + k <= before[d - 1]
        BY <1>1, <1>2, <2>4, SlotsAreApart
      <4>2. Top.slot = before[d - 1] + 1 /\ n = Slots(Text(s)[d])
        BY <1>2, <2>4
      <4>3. d < i \/ i < d
        BY <1>2, <2>4
      <4> HIDE DEF before, n
      <4>4. before[i - 1] + k \notin Top.slot .. Top.slot + n - 1
        <5>1. PICK b : b = before[i - 1]
          OBVIOUS
        <5>2. PICK a : a = before[d - 1]
          OBVIOUS
        <5>3. a \in Nat /\ b + k \in Nat /\ Top.slot = a + 1
          BY <4>1, <4>2, <5>1, <5>2
        <5>4. a + n < b + k \/ b + k <= a
          BY <4>1, <4>2, <4>3, <5>1, <5>2
        <5> QED BY <1>5, <5>1, <5>3, <5>4
      <4> QED BY <1>4, <1>8, <2>4, <4>1, <4>4
    <3> QED BY <2>2, <2>4, <3>1 DEF SlotsOf
  <2>5. CASE s # src
    <3>1. slots'[s] = slots[s]
      BY <1>8, <2>5
    <3> QED BY <2>2, <2>5, <3>1 DEF SlotsOf
  <2> QED BY <2>3, <2>4, <2>5
<1> QED BY <1>9, <1>10, <1>11

(* The definition at hand lies before the reader. *)
LEMMA ThisIsNotPassed ==
    ASSUME LoadInv, AtDef, NEW s, NEW i, s = Top.source, i = Top.def
    PROVE  s \in Sources /\ i \in 1 .. Len(Text(s)) /\ ~IsPassed(s, i)
<1>1. TypeInv /\ StackInv
  BY DEF LoadInv
<1>2. frames \in Seq(Frames) /\ frames # <<>> /\ i <= Len(Text(s))
  BY <1>1 DEF TypeInv, AtDef
<1>3. Len(frames) \in 1 .. Len(frames) /\ Top = frames[Len(frames)]
  BY <1>2, FrontProperties DEF Top
<1>4. FrameIsAt(Len(frames))
  BY <1>1, <1>3 DEF StackInv
<1>5. s \in Sources /\ s \notin parsed /\ i \in 1 .. Len(Text(s)) + 1
  BY <1>3, <1>4 DEF FrameIsAt
<1>6. Len(Text(s)) \in Nat
  BY <1>1, <1>5, TextOfSource
<1>7. \A k \in 1 .. Len(frames) : frames[k].source = s => k = Len(frames)
  BY <1>1, <1>3 DEF StackInv
<1>8. ~IsPassed(s, i)
  BY <1>3, <1>5, <1>7 DEF IsPassed
<1> QED BY <1>2, <1>5, <1>6, <1>8

(* Filling the slots of the import at hand with what its file has become. *)
LEMMA FillPasses ==
    ASSUME LoadInv, AtDef, IsImport(ThisDef), Leads(ThisDef), NEW id \in Nat, Fill(id),
           UNCHANGED <<project, phase, wanted, paths, parsed, core, errors>>, reply' = NoReply,
           IsServed(FileOf(ThisDef)), id = IdOf(FileOf(ThisDef))
    PROVE  LoadInv'
<1>1. /\ slots' \in Seq(Seq(SlotValues)) /\ Len(slots') = Len(slots)
      /\ \A s \in Sources : Len(slots'[s]) = Len(slots[s])
      /\ \A s \in Sources : \A i \in 1 .. Len(Text(s)) :
            IF s = Top.source /\ i = Top.def THEN SlotsOf(s, i)' = FileImports(ThisDef, i, id)
            ELSE SlotsOf(s, i)' = SlotsOf(s, i)
  BY Filled
<1>2. ASSUME NEW s, NEW i, s = Top.source, i = Top.def
      PROVE  ImportIsResolved(s, i)'
  <2>1. s \in Sources /\ i \in 1 .. Len(Text(s))
    BY <1>2, ThisIsNotPassed
  <2>2. SlotsOf(s, i)' = FileImports(ThisDef, i, id)
    BY <1>1, <1>2, <2>1
  <2>3. Text(s)'[i] = ThisDef
    BY <1>2 DEF ThisDef, Text
  <2>4. PICK file : file = FileOf(ThisDef)
    OBVIOUS
  <2>5. IsServed(file)' /\ IdOf(file)' = id
    BY <2>4 DEF IsServed, IsReadable, IdOf, Known, SourceOf, Sources
  <2> QED BY <2>2, <2>3, <2>4, <2>5 DEF ImportIsResolved
<1>3. frames' = Move(Slots(ThisDef))
  BY DEF Fill
<1> QED BY <1>1, <1>2, <1>3, PassesOver

LEMMA PassDefKeeps ==
    ASSUME LoadInv, PassDef
    PROVE  LoadInv'
<1>1. TypeInv /\ StackInv
  BY DEF LoadInv
<1>2. AtDef /\ ~IsImport(ThisDef) /\ frames' = Move(0)
      /\ UNCHANGED <<project, phase, wanted, reply, paths, slots, parsed, core, errors>>
  BY DEF PassDef
<1>3. Slots(ThisDef) = 0
  BY <1>2 DEF Slots, IsImport
<1>4. reply = NoReply
  <2> SUFFICES ASSUME reply # NoReply PROVE FALSE
    OBVIOUS
  <2>1. PICK k, file : k = Len(frames) /\ Asks(k, file)
    BY <1>1 DEF StackInv
  <2>2. Len(frames) \in Nat \ {0} /\ Top = frames[Len(frames)]
    BY <1>1, <1>2, FrontProperties DEF TypeInv, AtDef, Top
  <2>3. IsImport(Text(Top.source)[Top.def])
    BY <2>1, <2>2 DEF Asks, LeadsTo
  <2> QED BY <1>2, <2>3 DEF ThisDef
<1>5. \A s, i : SlotsOf(s, i)' = SlotsOf(s, i)
  BY <1>2 DEF SlotsOf, Text
<1>6. slots' \in Seq(Seq(SlotValues))
  BY <1>1, <1>2 DEF TypeInv
<1> QED BY <1>2, <1>3, <1>4, <1>5, <1>6, PassesOver

LEMMA ImportFailsKeeps ==
    ASSUME LoadInv, ImportFails
    PROVE  LoadInv'
<1>1. TypeInv /\ StackInv /\ SlotsInv
  BY DEF LoadInv
<1>2. AtDef /\ IsImport(ThisDef) /\ reply = NoReply /\ ~Leads(ThisDef) /\ frames' = Move(Slots(ThisDef))
      /\ errors' = errors \cup {Error(Why(ThisDef), Top.source, <<Top.def>>)}
      /\ UNCHANGED <<project, phase, wanted, reply, paths, slots, parsed, core>>
  BY DEF ImportFails
<1>3. \A s, i : SlotsOf(s, i)' = SlotsOf(s, i)
  BY <1>2 DEF SlotsOf, Text
<1>4. slots' \in Seq(Seq(SlotValues))
  BY <1>1, <1>2 DEF TypeInv
<1>5. ASSUME NEW s, NEW i, s = Top.source, i = Top.def
      PROVE  ImportIsResolved(s, i)'
  <2>1. ThisDef = Text(s)[i] /\ Text(s)' = Text(s)
    BY <1>2, <1>5 DEF ThisDef, Text
  <2>2. SlotsOf(s, i) = FileImports(ThisDef, i, NoSource)
    BY <1>1, <1>2, <1>5, <2>1, ThisIsNotPassed DEF SlotsInv
  <2>3. Error(Why(ThisDef), s, <<i>>) \in errors'
    BY <1>2, <1>5
  <2> QED BY <1>2, <1>3, <2>1, <2>2, <2>3 DEF ImportIsResolved
<1> QED BY <1>2, <1>3, <1>4, <1>5, PassesOver

LEMMA ImportKnownKeeps ==
    ASSUME LoadInv, ImportKnown
    PROVE  LoadInv'
<1>1. TypeInv /\ Unique
  BY DEF LoadInv
<1>2. PICK id, file : id = SourceOf(file) /\ file = FileOf(ThisDef)
  OBVIOUS
<1>3. AtDef /\ IsImport(ThisDef) /\ reply = NoReply /\ Leads(ThisDef) /\ Known(file) /\ Fill(id)
      /\ UNCHANGED <<project, phase, wanted, reply, paths, parsed, core, errors>>
  BY <1>2 DEF ImportKnown
<1>4. id \in Nat /\ IdOf(file) = id /\ IsReadable(file)
  BY <1>1, <1>2, <1>3, Lookup, TextOfSource
<1>5. id = IdOf(FileOf(ThisDef)) /\ IsServed(FileOf(ThisDef))
  BY <1>2, <1>3, <1>4 DEF IsServed
<1> QED BY <1>3, <1>4, <1>5, FillPasses

(* What a read ends with is the number of the file that was asked for. *)
LEMMA RepliesAreRight ==
    ASSUME LoadInv, NEW file, NEW id, Replies(file, id)
    PROVE  id \in Nat /\ IsServed(file) /\ IdOf(file) = id
<1>1. TypeInv /\ Unique
  BY DEF LoadInv
<1>2. CASE id \in Sources /\ paths[id] = file
  <2>1. id \in Nat /\ IsReadable(file)
    BY <1>1, <1>2, TextOfSource
  <2>2. Known(file) /\ IdOf(file) = id
    BY <1>1, <1>2, Lookup
  <2> QED BY <2>1, <2>2 DEF IsServed
<1>3. CASE id = NoSource /\ ~IsReadable(file) /\ Unreadable(file) \in errors
  <2>1. ~Known(file)
    BY <1>1, <1>3, TextOfSource DEF Known
  <2>2. IdOf(file) = NoSource
    BY <2>1 DEF IdOf
  <2> QED BY <1>3, <2>2 DEF IsServed, NoSource
<1> QED BY <1>2, <1>3 DEF Replies

LEMMA ImportReturnsKeeps ==
    ASSUME LoadInv, ImportReturns
    PROVE  LoadInv'
<1>1. TypeInv /\ StackInv
  BY DEF LoadInv
<1>2. PICK id : id = reply
  OBVIOUS
<1>3. AtDef /\ reply # NoReply /\ Fill(id) /\ reply' = NoReply
      /\ UNCHANGED <<project, phase, wanted, paths, parsed, core, errors>>
  BY <1>2 DEF ImportReturns
<1>4. PICK k, file : k = Len(frames) /\ Asks(k, file) /\ Replies(file, id)
  BY <1>1, <1>2, <1>3 DEF StackInv
<1>5. Len(frames) \in Nat \ {0} /\ Top = frames[Len(frames)]
  BY <1>1, <1>3, FrontProperties DEF TypeInv, AtDef, Top
<1>6. LeadsTo(Top.source, Top.def, file)
  BY <1>4, <1>5 DEF Asks
<1>7. IsImport(ThisDef) /\ Leads(ThisDef) /\ FileOf(ThisDef) = file
  BY <1>6 DEF LeadsTo, ThisDef
<1>8. id \in Nat /\ IsServed(file) /\ IdOf(file) = id
  BY <1>4, RepliesAreRight
<1> QED BY <1>3, <1>7, <1>8, FillPasses

-----------------------------------------------------------------------------
(* Steps that neither read a file nor pass a definition. *)
LEMMA NothingIsRead ==
    ASSUME LoadInv, UNCHANGED <<project, frames, paths, slots, parsed>>, errors \subseteq errors'
    PROVE  /\ Grows /\ Sources' = Sources /\ Unique' /\ SlotsInv' /\ NeedInv'
           /\ \A file : Known(file)' <=> Known(file)
           /\ \A k \in 1 .. Len(frames) : FrameIsAt(k)'
           /\ \A n : CoreIsFound(n) /\ core'[n] = core[n] => CoreIsFound(n)'
<1>1. TypeInv /\ Unique /\ StackInv /\ SlotsInv /\ NeedInv
  BY DEF LoadInv
<1>2. Grows
  BY DEF Grows
<1>3. Sources' = Sources /\ \A s : Text(s)' = Text(s)
  BY DEF Sources, Text
<1>4. Unique'
  BY <1>1, <1>3 DEF Unique
<1>5. NeedInv'
  BY <1>1, <1>2, <1>3, NeedsStay DEF NeedInv
<1>6. ASSUME NEW s \in Sources, NEW i \in 1 .. Len(Text(s)), IsImport(Text(s)[i])
      PROVE  IF IsPassed(s, i)' THEN ImportIsResolved(s, i)'
             ELSE SlotsOf(s, i)' = FileImports(Text(s)[i], i, NoSource)
  <2>1. SlotsOf(s, i)' = SlotsOf(s, i)
    BY <1>3 DEF SlotsOf
  <2>2. IsPassed(s, i)' <=> IsPassed(s, i)
    BY DEF IsPassed
  <2>3. IF IsPassed(s, i) THEN ImportIsResolved(s, i) ELSE SlotsOf(s, i) = FileImports(Text(s)[i], i, NoSource)
    BY <1>1, <1>6 DEF SlotsInv
  <2> QED BY <1>1, <1>2, <2>1, <2>2, <2>3, ResolvedStays
<1>7. SlotsInv'
  <2>1. \A s \in Sources : Len(slots'[s]) = Total(s)
    BY <1>1 DEF SlotsInv
  <2> QED BY <1>3, <1>6, <2>1 DEF SlotsInv, Total
<1>8. \A file : Known(file)' <=> Known(file)
  BY <1>3 DEF Known
<1>9. ASSUME NEW k \in 1 .. Len(frames) PROVE FrameIsAt(k)'
  <2>1. FrameIsAt(k)
    BY <1>1 DEF StackInv
  <2> QED BY <1>3, <2>1 DEF FrameIsAt
<1>10. \A n : CoreIsFound(n) /\ core'[n] = core[n] => CoreIsFound(n)'
  BY <1>1, <1>2, CoreStays
<1> QED BY <1>2, <1>3, <1>4, <1>5, <1>7, <1>8, <1>9, <1>10

LEMMA ImportReadsKeeps ==
    ASSUME LoadInv, ImportReads
    PROVE  LoadInv'
<1>1. TypeInv /\ StackInv /\ RootInv /\ CoreInv
  BY DEF LoadInv
<1>2. AtDef /\ IsImport(ThisDef) /\ reply = NoReply /\ Leads(ThisDef) /\ ~Known(FileOf(ThisDef))
      /\ wanted' = FileOf(ThisDef)
      /\ UNCHANGED <<project, phase, frames, reply, paths, slots, parsed, core, errors>>
  BY DEF ImportReads
<1>3. /\ Grows /\ Sources' = Sources /\ Unique' /\ SlotsInv' /\ NeedInv'
      /\ \A file : Known(file)' <=> Known(file)
      /\ \A k \in 1 .. Len(frames) : FrameIsAt(k)'
      /\ \A n : CoreIsFound(n) /\ core'[n] = core[n] => CoreIsFound(n)'
  BY <1>2, NothingIsRead
<1>4. Len(frames) \in Nat \ {0} /\ Top = frames[Len(frames)] /\ Top.def <= Len(Text(Top.source))
  BY <1>1, <1>2, FrontProperties DEF TypeInv, AtDef, Top
<1>5. TypeInv'
  BY <1>1, <1>2 DEF TypeInv, SlotValues, Sources
<1>6. \A k, file : Asks(k, file) => Asks(k, file)'
  BY <1>2 DEF Asks, RootAsks, LeadsTo, Text
<1>7. ASSUME NEW k, NEW file, k = Len(frames), file = wanted' PROVE Asks(k, file)'
  <2>1. Top.source \in Sources /\ Top.def \in 1 .. Len(Text(Top.source)) + 1
    BY <1>1, <1>4 DEF StackInv, FrameIsAt
  <2>2. Len(Text(Top.source)) \in Nat
    BY <1>1, <2>1, TextOfSource
  <2>3. Top.def \in 1 .. Len(Text(Top.source))
    BY <1>4, <2>1, <2>2
  <2>4. LeadsTo(Top.source, Top.def, file)
    BY <1>2, <1>7 DEF LeadsTo, ThisDef
  <2>5. Asks(k, file)
    BY <1>4, <1>7, <2>3, <2>4 DEF Asks
  <2> QED BY <1>6, <2>5
<1>8. StackInv'
  <2>1. \A k \in 0 .. Len(frames) - 1 : \A file : file = paths[frames[k + 1].source] => Asks(k, file)'
    BY <1>1, <1>6 DEF StackInv
  <2>2. ~Known(wanted)'
    <3>1. PICK file : file = wanted'
      OBVIOUS
    <3>2. ~Known(file)'
      BY <1>2, <1>3, <3>1
    <3> QED BY <3>1, <3>2 DEF Known
  <2>3. /\ \A k, m \in 1 .. Len(frames) : frames[k].source = frames[m].source => k = m
        /\ \A s \in Sources : s \in parsed \/ \E k \in 1 .. Len(frames) : frames[k].source = s
    BY <1>1 DEF StackInv
  <2> QED BY <1>2, <1>3, <1>7, <2>1, <2>2, <2>3 DEF StackInv
<1>9. RootInv'
  BY <1>1, <1>2, <1>4 DEF RootInv, Idle, Loading, AtDef
<1>10. CoreInv'
  BY <1>1, <1>2, <1>3 DEF CoreInv
<1> QED BY <1>3, <1>5, <1>8, <1>9, <1>10 DEF LoadInv

-----------------------------------------------------------------------------
(* Between two files of the entry and the core modules. *)
LEMMA IdleKeeps ==
    ASSUME LoadInv, frames = <<>>, UNCHANGED <<project, frames, paths, slots, parsed>>, errors \subseteq errors',
           wanted' # NoFile => reply' = NoReply /\ ~Known(wanted') /\ \A file : file = wanted' => RootAsks(file)',
           reply' = NoReply, core' \in Seq(Nat), RootInv', CoreInv'
    PROVE  LoadInv'
<1>1. TypeInv /\ StackInv
  BY DEF LoadInv
<1>2. /\ Sources' = Sources /\ Unique' /\ SlotsInv' /\ NeedInv'
      /\ \A file : Known(file)' <=> Known(file)
  BY NothingIsRead
<1>3. Len(frames) = 0
  BY EmptySeq
<1>4. TypeInv'
  BY <1>1 DEF TypeInv, SlotValues, Sources
<1>5. StackInv'
  <2>1. \A s \in Sources : s \in parsed
    BY <1>1, <1>3 DEF StackInv
  <2>2. ASSUME wanted' # NoFile
        PROVE  /\ reply' = NoReply /\ ~Known(wanted)'
               /\ \A k, file : k = Len(frames) /\ file = wanted' => Asks(k, file)'
    <3>1. PICK file : file = wanted'
      OBVIOUS
    <3>2. ~Known(file)'
      BY <1>2, <2>2, <3>1
    <3>3. RootAsks(file)'
      BY <2>2, <3>1
    <3>4. \A k : k = 0 => Asks(k, file)'
      BY <3>3 DEF Asks
    <3> QED BY <1>3, <3>1, <3>2, <3>4 DEF Known
  <2> QED BY <1>2, <1>3, <2>1, <2>2 DEF StackInv
<1> QED BY <1>2, <1>4, <1>5 DEF LoadInv

LEMMA OpenEntryKeeps ==
    ASSUME LoadInv, OpenEntry
    PROVE  LoadInv'
<1>1. TypeInv /\ RootInv /\ CoreInv
  BY DEF LoadInv
<1>2. /\ phase = "entry" /\ Idle /\ reply = NoReply
      /\ UNCHANGED <<project, frames, reply, paths, slots, parsed, core>>
  BY DEF OpenEntry
<1>3. paths = <<>> /\ frames = <<>>
  BY <1>1, <1>2 DEF RootInv, Idle
<1>4. \A file : ~Known(file)
  BY <1>3, EmptySeq DEF Known, Sources
<1>5. CASE project.entry \in DOMAIN Canonical
  <2>1. wanted' = Canonical[project.entry] /\ UNCHANGED <<phase, errors>>
    BY <1>5 DEF OpenEntry
  <2>2. wanted' # NoFile
    BY <1>5, <2>1, LoadingAssumption DEF NoFile
  <2>3. \A file : file = wanted' => RootAsks(file)'
    BY <1>2, <1>5, <2>1 DEF RootAsks
  <2>4. RootInv'
    BY <1>1, <1>2, <1>3, <2>1, <2>2 DEF RootInv, Idle, Loading
  <2>5. CoreInv'
    BY <1>1, <1>2, <2>1, NothingIsRead DEF CoreInv
  <2> QED BY <1>1, <1>2, <1>3, <1>4, <2>1, <2>3, <2>4, <2>5, IdleKeeps DEF TypeInv
<1>6. CASE project.entry \notin DOMAIN Canonical
  <2>1. phase' = "refused" /\ errors \subseteq errors' /\ UNCHANGED wanted
    BY <1>6 DEF OpenEntry
  <2>2. RootInv'
    BY <1>1, <1>2, <1>3, <2>1 DEF RootInv, Idle, Loading
  <2>3. CoreInv'
    BY <1>1, <1>2, <2>1, NothingIsRead DEF CoreInv
  <2>4. wanted' = NoFile
    BY <1>2, <2>1 DEF Idle
  <2> QED BY <1>1, <1>2, <1>3, <2>1, <2>2, <2>3, <2>4, IdleKeeps DEF TypeInv
<1> QED BY <1>5, <1>6

LEMMA EntryReturnsKeeps ==
    ASSUME LoadInv, EntryReturns
    PROVE  LoadInv'
<1>1. TypeInv /\ RootInv /\ CoreInv
  BY DEF LoadInv
<1>2. /\ phase = "entry" /\ Idle /\ reply # NoReply /\ reply' = NoReply
      /\ phase' = IF reply = NoSource THEN "refused" ELSE "core"
      /\ UNCHANGED <<project, frames, wanted, paths, slots, parsed, core, errors>>
  BY DEF EntryReturns
<1>3. reply # NoSource => paths # <<>>
  BY <1>1, <1>2, EmptySeq DEF TypeInv, Sources
<1>4. RootInv'
  BY <1>1, <1>2, <1>3 DEF RootInv, Idle, Loading
<1>5. CoreInv'
  BY <1>1, <1>2, NothingIsRead DEF CoreInv
<1> QED BY <1>1, <1>2, <1>4, <1>5, IdleKeeps DEF TypeInv, Idle

(* A core module more. *)
LEMMA CoreGrows ==
    ASSUME LoadInv, phase = "core", Idle, Len(core) < Len(project.core), reply' = NoReply,
           UNCHANGED <<project, phase, frames, wanted, paths, slots, parsed, errors>>,
           NEW id \in Nat, core' = Append(core, id),
           LET path == project.core[Len(core) + 1]
           IN IF path \in DOMAIN Canonical
              THEN \A file : file = Canonical[path] => IsServed(file) /\ id = IdOf(file)
              ELSE id = NoSource
    PROVE  LoadInv'
<1>1. TypeInv /\ Unique /\ RootInv /\ CoreInv
  BY DEF LoadInv
<1>2. /\ core \in Seq(Nat) /\ Len(core) \in Nat /\ Len(project.core) \in Nat
  BY <1>1 DEF TypeInv, IsProject
<1>3. /\ core' \in Seq(Nat) /\ Len(core') = Len(core) + 1
      /\ \A n \in 1 .. Len(core) : core'[n] = core[n]
      /\ core'[Len(core) + 1] = id
  BY <1>2, AppendProperties
<1>4. RootInv'
  BY <1>1, <1>2, <1>3 DEF RootInv, Idle, Loading
<1>5. Grows /\ \A n : CoreIsFound(n) /\ core'[n] = core[n] => CoreIsFound(n)'
  BY NothingIsRead
<1>6. ASSUME NEW n, n = Len(core) + 1 PROVE CoreIsFound(n)'
  <2>1. PICK path : path = project.core[n]
    OBVIOUS
  <2>2. CASE path \in DOMAIN Canonical
    <3>1. PICK file : file = Canonical[path]
      OBVIOUS
    <3>2. IsServed(file) /\ id = IdOf(file)
      BY <1>6, <2>1, <2>2, <3>1
    <3>3. IsServed(file)' /\ IdOf(file)' = id
      BY <1>1, <1>5, <3>2, Grown
    <3> QED BY <1>3, <1>6, <2>1, <2>2, <3>1, <3>3 DEF CoreIsFound
  <2>3. CASE path \notin DOMAIN Canonical
    BY <1>3, <1>6, <2>1, <2>3 DEF CoreIsFound
  <2> QED BY <2>2, <2>3
<1>7. CoreInv'
  <2>1. ASSUME NEW n \in 1 .. Len(core') PROVE CoreIsFound(n)'
    <3>1. n \in 1 .. Len(core) \/ n = Len(core) + 1
      BY <1>2, <1>3
    <3> QED BY <1>1, <1>3, <1>5, <1>6, <3>1 DEF CoreInv
  <2> QED BY <2>1 DEF CoreInv
<1>8. frames = <<>> /\ wanted' = NoFile
  BY DEF Idle
<1> QED BY <1>3, <1>4, <1>7, <1>8, IdleKeeps

LEMMA OpenCoreKeeps ==
    ASSUME LoadInv, OpenCore
    PROVE  LoadInv'
<1>1. TypeInv /\ Unique /\ RootInv /\ CoreInv
  BY DEF LoadInv
<1>2. /\ phase = "core" /\ Idle /\ reply = NoReply /\ Len(core) < Len(project.core)
      /\ UNCHANGED <<project, phase, frames, reply, paths, slots, parsed, errors>>
  BY DEF OpenCore
<1>3. PICK path : path = project.core[Len(core) + 1]
  OBVIOUS
<1>4. CASE path \notin DOMAIN Canonical
  <2>1. core' = Append(core, NoSource) /\ UNCHANGED wanted
    BY <1>3, <1>4 DEF OpenCore
  <2>2. NoSource \in Nat
    BY DEF NoSource
  <2> QED BY <1>2, <1>3, <1>4, <2>1, <2>2, CoreGrows
<1>5. CASE path \in DOMAIN Canonical /\ Known(Canonical[path])
  <2>1. PICK file, id : file = Canonical[path] /\ id = SourceOf(file)
    OBVIOUS
  <2>2. core' = Append(core, id) /\ UNCHANGED wanted
    BY <1>3, <1>5, <2>1 DEF OpenCore
  <2>3. id \in Nat /\ IdOf(file) = id /\ IsServed(file)
    BY <1>1, <1>5, <2>1, Lookup, TextOfSource DEF IsServed
  <2> QED BY <1>2, <1>3, <1>5, <2>1, <2>2, <2>3, CoreGrows
<1>6. CASE path \in DOMAIN Canonical /\ ~Known(Canonical[path])
  <2>1. wanted' = Canonical[path] /\ UNCHANGED core
    BY <1>3, <1>6 DEF OpenCore
  <2>2. wanted' # NoFile
    BY <1>6, <2>1, LoadingAssumption DEF NoFile
  <2>3. \A file : file = wanted' => RootAsks(file)'
    BY <1>2, <1>3, <1>6, <2>1 DEF RootAsks
  <2>4. RootInv'
    BY <1>1, <1>2, <2>1, <2>2 DEF RootInv, Idle, Loading
  <2>5. CoreInv'
    BY <1>1, <1>2, <2>1, NothingIsRead DEF CoreInv
  <2>6. ~Known(wanted')
    BY <1>6, <2>1
  <2> QED BY <1>1, <1>2, <2>1, <2>3, <2>4, <2>5, <2>6, IdleKeeps DEF TypeInv, Idle
<1> QED BY <1>4, <1>5, <1>6

LEMMA CoreReturnsKeeps ==
    ASSUME LoadInv, CoreReturns
    PROVE  LoadInv'
<1>1. TypeInv /\ StackInv /\ RootInv
  BY DEF LoadInv
<1>2. PICK id : id = reply
  OBVIOUS
<1>3. /\ phase = "core" /\ Idle /\ reply # NoReply /\ reply' = NoReply /\ core' = Append(core, id)
      /\ UNCHANGED <<project, phase, frames, wanted, paths, slots, parsed, errors>>
  BY <1>2 DEF CoreReturns
<1>4. PICK k, file : k = Len(frames) /\ Asks(k, file) /\ Replies(file, id)
  BY <1>1, <1>2, <1>3 DEF StackInv
<1>5. k = 0
  BY <1>3, <1>4, EmptySeq DEF Idle
<1>6. /\ Len(core) < Len(project.core) /\ project.core[Len(core) + 1] \in DOMAIN Canonical
      /\ file = Canonical[project.core[Len(core) + 1]]
  BY <1>3, <1>4, <1>5 DEF Asks, RootAsks
<1>7. id \in Nat /\ IsServed(file) /\ IdOf(file) = id
  BY <1>4, RepliesAreRight
<1> QED BY <1>3, <1>6, <1>7, CoreGrows

LEMMA UseLoadedKeeps ==
    ASSUME LoadInv, UseLoaded
    PROVE  LoadInv'
<1>1. TypeInv /\ RootInv /\ CoreInv
  BY DEF LoadInv
<1>2. /\ Loaded \/ ~Loading
      /\ ~Loading' /\ errors \subseteq errors'
      /\ UNCHANGED <<project, frames, wanted, reply, paths, slots, parsed, core>>
  BY DEF UseLoaded
<1>3. Idle /\ reply = NoReply /\ Len(core) = Len(project.core) /\ paths # <<>>
  BY <1>1, <1>2 DEF Loaded, Loading, RootInv
<1>4. RootInv'
  BY <1>1, <1>2, <1>3 DEF RootInv, Idle, Loading
<1>5. CoreInv'
  BY <1>1, <1>2, NothingIsRead DEF CoreInv
<1> QED BY <1>1, <1>2, <1>3, <1>4, <1>5, IdleKeeps DEF TypeInv, Idle

-----------------------------------------------------------------------------
LEMMA FinishSourceKeeps ==
    ASSUME LoadInv, FinishSource
    PROVE  LoadInv'
<1> DEFINE last == Len(frames)
           src == Top.source
<1>1. TypeInv /\ Unique /\ StackInv /\ RootInv /\ SlotsInv /\ NeedInv /\ CoreInv
  BY DEF LoadInv
<1>2. /\ frames # <<>> /\ wanted = NoFile /\ Top.def > Len(Text(src))
      /\ parsed' = parsed \cup {src} /\ reply' = src /\ frames' = Front(frames)
      /\ UNCHANGED <<project, phase, wanted, paths, slots, core, errors>>
  BY DEF FinishSource
<1>3. /\ last \in Nat \ {0} /\ Top = frames[last]
      /\ frames' \in Seq(Frames) /\ Len(frames') = last - 1
      /\ \A k \in 1 .. last - 1 : frames'[k] = frames[k]
  BY <1>1, <1>2, FrontProperties, FrontHas DEF TypeInv, Top
<1>4. /\ src \in Sources /\ src \notin parsed /\ src \in Nat
      /\ \A k \in 1 .. last - 1 : frames[k].source # src
  <2>1. last \in 1 .. last
    BY <1>3
  <2>2. src \in Sources /\ src \notin parsed
    BY <1>1, <1>3, <2>1 DEF StackInv, FrameIsAt
  <2>3. src \in Nat
    BY <1>1, <2>2, TextOfSource
  <2>4. \A k \in 1 .. last - 1 : k \in 1 .. last /\ k # last
    BY <1>3
  <2> QED BY <1>1, <1>3, <2>1, <2>2, <2>3, <2>4 DEF StackInv
<1>5. Grows /\ Sources' = Sources /\ \A s : Text(s)' = Text(s)
  BY <1>2 DEF Grows, Sources, Text
<1>6. TypeInv'
  BY <1>1, <1>2, <1>3, <1>4, <1>5 DEF TypeInv, SlotValues
<1>7. StackInv'
  <2>1. ASSUME NEW k \in 1 .. last - 1 PROVE FrameIsAt(k)'
    <3>1. FrameIsAt(k) /\ frames'[k] = frames[k] /\ frames[k].source # src
      BY <1>1, <1>3, <1>4 DEF StackInv
    <3> QED BY <1>2, <1>5, <3>1 DEF FrameIsAt
  <2>2. ASSUME NEW k \in 0 .. last - 1, NEW file, file = paths[frames[k + 1].source] PROVE Asks(k, file)'
    <3>1. Asks(k, file)
      BY <1>1, <2>2 DEF StackInv
    <3>2. k = 0 \/ frames'[k] = frames[k]
      BY <1>3
    <3> QED BY <1>2, <1>5, <3>1, <3>2, RequestStays
  <2>3. \A k \in 0 .. last - 2 : \A file : file = paths'[frames'[k + 1].source] => Asks(k, file)'
    <3>1. \A k \in 0 .. last - 2 : k \in 0 .. last - 1 /\ k + 1 \in 1 .. last - 1
      BY <1>3
    <3> QED BY <1>2, <1>3, <2>2, <3>1
  <2>4. \A k, m \in 1 .. last - 1 : frames'[k].source = frames'[m].source => k = m
    BY <1>1, <1>3 DEF StackInv
  <2>5. ASSUME NEW s \in Sources PROVE s \in parsed' \/ \E k \in 1 .. last - 1 : frames'[k].source = s
    <3>1. s \in parsed \/ \E k \in 1 .. last : frames[k].source = s
      BY <1>1 DEF StackInv
    <3>2. \A k \in 1 .. last : k \in 1 .. last - 1 \/ k = last
      BY <1>3
    <3> QED BY <1>2, <1>3, <3>1, <3>2
  <2>6. \E k, file : k = Len(frames') /\ Asks(k, file)' /\ Replies(file, reply)'
    <3>1. PICK k, file, id : k = last - 1 /\ file = paths[src] /\ id = src
      OBVIOUS
    <3>2. k \in 0 .. last - 1 /\ k + 1 = last
      BY <1>3, <3>1
    <3>3. Asks(k, file)'
      BY <1>3, <2>2, <3>1, <3>2
    <3>4. reply' = id /\ id \in Sources' /\ paths'[id] = file
      BY <1>2, <1>4, <1>5, <3>1
    <3>5. Replies(file, reply)'
      BY <3>4 DEF Replies
    <3> QED BY <1>3, <3>1, <3>3, <3>5
  <2> QED BY <1>2, <1>3, <1>5, <2>1, <2>3, <2>4, <2>5, <2>6 DEF StackInv
<1>8. RootInv'
  BY <1>1, <1>2, <1>4 DEF RootInv, Idle, Loading, NoReply
<1>9. SlotsInv'
  <2>1. ASSUME NEW s \in Sources, NEW i \in 1 .. Len(Text(s)), IsImport(Text(s)[i])
        PROVE  IF IsPassed(s, i)' THEN ImportIsResolved(s, i)'
               ELSE SlotsOf(s, i)' = FileImports(Text(s)[i], i, NoSource)
    <3>1. SlotsOf(s, i)' = SlotsOf(s, i)
      BY <1>2, <1>5 DEF SlotsOf
    <3>2. IF IsPassed(s, i) THEN ImportIsResolved(s, i) ELSE SlotsOf(s, i) = FileImports(Text(s)[i], i, NoSource)
      BY <1>1, <2>1 DEF SlotsInv
    <3>3. IsPassed(s, i)' <=> IsPassed(s, i)
      <4>1. \A k : k \in 1 .. last <=> k \in 1 .. last - 1 \/ k = last
        BY <1>3
      <4>2. CASE s = src
        <5>1. i < Top.def
          <6>1. Top.def \in Nat
            <7>1. frames[last] \in Frames
              BY <1>1, <1>3 DEF TypeInv
            <7> QED BY <1>3, <7>1 DEF Frames
          <6>2. Len(Text(src)) \in Nat
            BY <1>1, <1>4, TextOfSource
          <6> QED BY <1>2, <4>2, <6>1, <6>2
        <5>2. IsPassed(s, i)
          BY <1>3, <4>1, <4>2, <5>1 DEF IsPassed
        <5>3. IsPassed(s, i)'
          BY <1>2, <4>2 DEF IsPassed
        <5> QED BY <5>2, <5>3
      <4>3. CASE s # src
        BY <1>2, <1>3, <4>1, <4>3 DEF IsPassed
      <4> QED BY <4>2, <4>3
    <3> QED BY <1>1, <1>5, <3>1, <3>2, <3>3, ResolvedStays
  <2>2. \A s \in Sources : Len(slots'[s]) = Total(s)
    BY <1>1, <1>2 DEF SlotsInv
  <2> QED BY <1>5, <2>1, <2>2 DEF SlotsInv, Total
<1>10. Unique'
  BY <1>1, <1>2, <1>5 DEF Unique
<1>11. NeedInv'
  BY <1>1, <1>5, NeedsStay DEF NeedInv
<1>12. CoreInv'
  BY <1>1, <1>2, <1>5, CoreStays DEF CoreInv
<1> QED BY <1>6, <1>7, <1>8, <1>9, <1>10, <1>11, <1>12 DEF LoadInv

(* A file that cannot be read. *)
LEMMA ReadFailsKeeps ==
    ASSUME LoadInv, ReadSource, wanted \notin DOMAIN project.text
    PROVE  LoadInv'
<1>1. TypeInv /\ StackInv /\ RootInv /\ CoreInv
  BY DEF LoadInv
<1>2. PICK file : file = wanted
  OBVIOUS
<1>3. /\ file # NoFile /\ wanted' = NoFile /\ reply' = NoSource /\ errors' = errors \cup {Unreadable(file)}
      /\ UNCHANGED <<project, phase, parsed, core, paths, slots, frames>>
  BY <1>2 DEF ReadSource
<1>4. /\ Sources' = Sources /\ Unique' /\ SlotsInv' /\ NeedInv'
      /\ \A k \in 1 .. Len(frames) : FrameIsAt(k)'
      /\ \A n : CoreIsFound(n) /\ core'[n] = core[n] => CoreIsFound(n)'
  BY <1>3, NothingIsRead
<1>5. TypeInv'
  BY <1>1, <1>3 DEF TypeInv, SlotValues, Sources
<1>6. \A k, f : Asks(k, f) => Asks(k, f)'
  BY <1>3 DEF Asks, RootAsks, LeadsTo, Text
<1>7. StackInv'
  <2>1. \A k \in 0 .. Len(frames) - 1 : \A f : f = paths[frames[k + 1].source] => Asks(k, f)'
    BY <1>1, <1>6 DEF StackInv
  <2>2. /\ \A k, m \in 1 .. Len(frames) : frames[k].source = frames[m].source => k = m
        /\ \A s \in Sources : s \in parsed \/ \E k \in 1 .. Len(frames) : frames[k].source = s
    BY <1>1 DEF StackInv
  <2>3. \E k, f : k = Len(frames) /\ Asks(k, f)' /\ Replies(f, reply)'
    <3>1. \A k : k = Len(frames) => Asks(k, file)
      BY <1>1, <1>2, <1>3 DEF StackInv
    <3>2. PICK k : k = Len(frames)
      OBVIOUS
    <3>3. Asks(k, file)'
      BY <1>6, <3>1, <3>2
    <3>4. Replies(file, reply)'
      BY <1>2, <1>3 DEF Replies, IsReadable, Unreadable, Error
    <3> QED BY <3>2, <3>3, <3>4
  <2> QED BY <1>3, <1>4, <2>1, <2>2, <2>3 DEF StackInv
<1>8. RootInv'
  BY <1>1, <1>2, <1>3 DEF RootInv, Idle, Loading, NoSource, NoReply
<1>9. CoreInv'
  BY <1>1, <1>3, <1>4 DEF CoreInv
<1> QED BY <1>4, <1>5, <1>7, <1>8, <1>9 DEF LoadInv

(* A file that can be read becomes the next source. *)
LEMMA ReadSucceedsKeeps ==
    ASSUME LoadInv, ReadSource, wanted \in DOMAIN project.text
    PROVE  LoadInv'
<1> DEFINE last == Len(frames)
           new == Len(paths) + 1
<1>1. TypeInv /\ Unique /\ StackInv /\ RootInv /\ SlotsInv /\ NeedInv /\ CoreInv
  BY DEF LoadInv
<1>2. PICK file, text, total : /\ file = wanted /\ text = project.text[file]
                               /\ total = SlotsThrough(text)[Len(text)]
  OBVIOUS
<1> DEFINE row == [i \in 1 .. total |-> Empty]
           frame == [source |-> new, def |-> 1, slot |-> 1]
<1>3. /\ file # NoFile /\ file \in DOMAIN project.text /\ wanted' = NoFile
      /\ paths' = Append(paths, file) /\ slots' = Append(slots, row) /\ frames' = Append(frames, frame)
      /\ UNCHANGED <<project, phase, parsed, core, reply, errors>>
  BY <1>2 DEF ReadSource
<1>4. /\ reply = NoReply /\ ~Known(file) /\ \A k : k = last => Asks(k, file)
  BY <1>1, <1>2, <1>3 DEF StackInv
<1>5. Grows
  BY <1>2, <1>3, <1>4 DEF Grows
<1>6. /\ paths \in Seq(DOMAIN project.text) /\ Len(paths) \in Nat /\ Sources = 1 .. Len(paths)
      /\ slots \in Seq(Seq(SlotValues)) /\ Len(slots) = Len(paths)
      /\ frames \in Seq(Frames) /\ last \in Nat /\ parsed \subseteq Sources
  BY <1>1 DEF TypeInv, Sources
<1>7. /\ paths' \in Seq(DOMAIN project.text) /\ Len(paths') = new /\ paths'[new] = file
      /\ \A s \in Sources : paths'[s] = paths[s]
      /\ Sources' = 1 .. new /\ \A s \in Sources' : s \in Sources \/ s = new
  <2>1. /\ paths' \in Seq(DOMAIN project.text) /\ Len(paths') = new /\ paths'[new] = file
        /\ \A s \in 1 .. Len(paths) : paths'[s] = paths[s]
    BY <1>3, <1>6, AppendProperties
  <2>2. Sources' = 1 .. new
    BY <2>1 DEF Sources
  <2> QED BY <1>6, <2>1, <2>2
<1>8. /\ Len(text) \in Nat /\ \A i \in 1 .. Len(text) : Slots(text[i]) \in Nat
      /\ SlotsThrough(text) \in [0 .. Len(text) -> Nat] /\ SlotsThrough(text)[0] = 0
      /\ \A i \in 1 .. Len(text) : SlotsThrough(text)[i] = SlotsThrough(text)[i - 1] + Slots(text[i])
      /\ \A i, j \in 0 .. Len(text) : i <= j => SlotsThrough(text)[i] <= SlotsThrough(text)[j]
  BY <1>1, <1>2, <1>3, SlotsAreCounted, SlotsThroughText
<1>9. total \in Nat
  BY <1>2, <1>8
<1>10. row \in Seq(SlotValues) /\ Len(row) = total
  <2>1. DOMAIN row = 1 .. total /\ \A i \in 1 .. total : row[i] \in SlotValues
    BY DEF SlotValues
  <2> QED BY <1>9, <2>1, SequenceOf
<1>11. /\ slots' \in Seq(Seq(SlotValues)) /\ Len(slots') = new /\ slots'[new] = row
       /\ \A s \in Sources : slots'[s] = slots[s]
  <2> HIDE DEF row
  <2> QED BY <1>3, <1>6, <1>10, AppendProperties
<1>12. /\ frames' \in Seq(Frames) /\ Len(frames') = last + 1 /\ frames'[last + 1] = frame
       /\ \A k \in 1 .. last : frames'[k] = frames[k]
  <2>1. frame \in Frames
    BY <1>6 DEF Frames
  <2> HIDE DEF frame
  <2> QED BY <1>3, <1>6, <2>1, AppendProperties
<1>13. \A s \in Sources : Text(s)' = Text(s)
  BY <1>1, <1>5, Grown
<1>14. \A s : s = new => Text(s)' = text
  BY <1>2, <1>3, <1>7 DEF Text
<1>15. \A k \in 1 .. last : frames[k].source \in Sources
  BY <1>1 DEF StackInv, FrameIsAt
<1>16. new \notin Sources /\ \A s \in Sources : s # new
  BY <1>6
<1>17. TypeInv'
  <2>1. parsed' \subseteq Sources' /\ reply' = NoReply
    BY <1>3, <1>4, <1>6, <1>7
  <2>2. SlotValues' = SlotValues
    BY <1>3 DEF SlotValues
  <2>3. project' = project /\ core' = core /\ IsProject(project) /\ core \in Seq(Nat)
    BY <1>1, <1>3 DEF TypeInv
  <2> HIDE DEF new, row, frame, last
  <2> QED BY <1>7, <1>11, <1>12, <2>1, <2>2, <2>3 DEF TypeInv
<1>18. Unique'
  BY <1>1, <1>5, Grown
<1>19. StackInv'
  <2>1. ASSUME NEW k \in 1 .. last + 1 PROVE FrameIsAt(k)'
    <3>1. CASE k \in 1 .. last
      <4>1. FrameIsAt(k) /\ frames'[k] = frames[k] /\ frames[k].source \in Sources
        BY <1>1, <1>12, <1>15, <3>1 DEF StackInv
      <4>2. PICK s \in Sources : s = frames[k].source
        BY <4>1
      <4>3. Text(s)' = Text(s)
        BY <1>13
      <4>4. /\ s \in Sources \ parsed /\ frames[k].def \in 1 .. Len(Text(s)) + 1
            /\ frames[k].slot = SlotsThrough(Text(s))[frames[k].def - 1] + 1
        BY <4>1, <4>2 DEF FrameIsAt
      <4>5. s \in Sources' /\ parsed' = parsed
        BY <1>3, <1>6, <1>7
      <4>6. /\ frames'[k].source \in Sources' \ parsed'
            /\ frames'[k].source = s
        BY <4>1, <4>2, <4>4, <4>5
      <4>7. frames'[k].def = frames[k].def /\ frames'[k].slot = frames[k].slot
        BY <4>1
      <4> QED BY <4>3, <4>4, <4>6, <4>7 DEF FrameIsAt
    <3>2. CASE k = last + 1
      <4>1. frames'[k].source = new /\ frames'[k].def = 1 /\ frames'[k].slot = 1
        BY <1>12, <3>2
      <4>2. new \in Sources' \ parsed'
        BY <1>3, <1>6, <1>7, <1>16
      <4>3. 1 \in 1 .. Len(text) + 1 /\ SlotsThrough(text)[1 - 1] + 1 = 1
        BY <1>8
      <4> QED BY <1>14, <4>1, <4>2, <4>3 DEF FrameIsAt
    <3> QED BY <1>6, <3>1, <3>2
  <2>2. ASSUME NEW k \in 0 .. last, NEW f, f = paths'[frames'[k + 1].source] PROVE Asks(k, f)'
    <3>1. Asks(k, f)
      <4>1. CASE k = last
        <5>1. f = file
          BY <1>7, <1>12, <2>2, <4>1
        <5> QED BY <1>4, <4>1, <5>1
      <4>2. CASE k # last
        <5>1. k \in 0 .. last - 1 /\ k + 1 \in 1 .. last
          BY <1>6, <4>2
        <5>2. f = paths[frames[k + 1].source]
          BY <1>7, <1>12, <1>15, <2>2, <5>1
        <5> QED BY <1>1, <5>1, <5>2 DEF StackInv
      <4> QED BY <4>1, <4>2
    <3>2. k = 0 \/ (frames'[k] = frames[k] /\ frames[k].source \in Sources)
      <4>1. k = 0 \/ k \in 1 .. last
        BY <1>6
      <4> QED BY <1>12, <1>15, <4>1
    <3>3. k = 0 \/ (frames'[k] = frames[k] /\ Text(frames[k].source)' = Text(frames[k].source))
      <4>1. CASE k # 0
        <5>1. PICK s : s = frames[k].source
          OBVIOUS
        <5>2. frames'[k].source = s /\ paths'[s] = paths[s]
          BY <1>7, <3>2, <4>1, <5>1
        <5> QED BY <1>3, <3>2, <4>1, <5>1, <5>2 DEF Text
      <4> QED BY <4>1
    <3> QED BY <1>3, <3>1, <3>3, RequestStays
  <2>3. ASSUME NEW k \in 1 .. last + 1, NEW m \in 1 .. last + 1, frames'[k].source = frames'[m].source
        PROVE  k = m
    <3>1. (k \in 1 .. last \/ k = last + 1) /\ (m \in 1 .. last \/ m = last + 1)
      BY <1>6
    <3>2. \A j \in 1 .. last : frames'[j].source = frames[j].source /\ frames'[j].source # new
      BY <1>12, <1>15, <1>16
    <3>3. frames'[last + 1].source = new
      BY <1>12
    <3> QED BY <1>1, <2>3, <3>1, <3>2, <3>3 DEF StackInv
  <2>4. ASSUME NEW s \in Sources' PROVE s \in parsed \/ \E k \in 1 .. last + 1 : frames'[k].source = s
    <3>1. CASE s \in Sources
      <4>1. s \in parsed \/ \E k \in 1 .. last : frames[k].source = s
        BY <1>1, <3>1 DEF StackInv
      <4>2. \A k \in 1 .. last : k \in 1 .. last + 1
        BY <1>6
      <4> QED BY <1>12, <4>1, <4>2
    <3>2. CASE s = new
      <4>1. last + 1 \in 1 .. last + 1
        BY <1>6
      <4> QED BY <1>12, <3>2, <4>1
    <3> QED BY <1>7, <3>1, <3>2
  <2>5. (last + 1) - 1 = last
    BY <1>6
  <2> QED BY <1>3, <1>4, <1>12, <2>1, <2>2, <2>3, <2>4, <2>5 DEF StackInv
<1>20. RootInv'
  <2>1. frames' # <<>> /\ paths' # <<>>
    BY <1>6, <1>7, <1>12, EmptySeq
  <2>2. phase \in {"entry", "core"}
    BY <1>1, <1>2, <1>3 DEF RootInv, Idle
  <2>3. CASE paths # <<>>
    <3>1. 1 \in Sources
      BY <1>6, <2>3, EmptySeq
    <3>2. paths'[1] = paths[1]
      BY <1>7, <3>1
    <3> QED BY <1>1, <1>3, <2>1, <2>2, <2>3, <3>2 DEF RootInv, Idle, Loading, ROOT
  <2>4. CASE paths = <<>>
    <3>1. Len(paths) = 0 /\ Sources = {}
      BY <1>6, <2>4, EmptySeq
    <3>2. last = 0
      <4>1. last # 0 => 1 \in 1 .. last
        BY <1>6
      <4> QED BY <1>15, <3>1, <4>1
    <3>3. RootAsks(file)
      BY <1>4, <3>2 DEF Asks
    <3>4. phase = "entry"
      BY <1>1, <2>2, <2>4 DEF RootInv
    <3>5. project.entry \in DOMAIN Canonical /\ file = Canonical[project.entry]
      BY <3>3, <3>4 DEF RootAsks
    <3>6. paths'[1] = file
      BY <1>7, <3>1
    <3> QED BY <1>1, <1>3, <2>1, <2>2, <3>4, <3>5, <3>6 DEF RootInv, Idle, Loading, ROOT
  <2> QED BY <2>3, <2>4
<1>21. SlotsInv'
  <2>1. ASSUME NEW s \in Sources, NEW i \in 1 .. Len(Text(s)), IsImport(Text(s)[i])
        PROVE  IF IsPassed(s, i)' THEN ImportIsResolved(s, i)'
               ELSE SlotsOf(s, i)' = FileImports(Text(s)[i], i, NoSource)
    <3>1. SlotsOf(s, i)' = SlotsOf(s, i)
      BY <1>11, <1>13 DEF SlotsOf
    <3>2. IF IsPassed(s, i) THEN ImportIsResolved(s, i) ELSE SlotsOf(s, i) = FileImports(Text(s)[i], i, NoSource)
      BY <1>1, <2>1 DEF SlotsInv
    <3>3. IsPassed(s, i)' <=> IsPassed(s, i)
      <4>1. \A k : k \in 1 .. last + 1 <=> k \in 1 .. last \/ k = last + 1
        BY <1>6
      <4>2. frames'[last + 1].source # s
        BY <1>12, <1>16
      <4> QED BY <1>3, <1>12, <4>1, <4>2 DEF IsPassed
    <3> QED BY <1>1, <1>5, <3>1, <3>2, <3>3, ResolvedStays
  <2>2. ASSUME NEW s, s = new, NEW i \in 1 .. Len(text), IsImport(text[i])
        PROVE  ~IsPassed(s, i)' /\ SlotsOf(s, i)' = FileImports(text[i], i, NoSource)
    <3>1. s \notin parsed'
      BY <1>3, <1>6, <1>16, <2>2
    <3>2. \A k \in 1 .. last + 1 : frames'[k].source = s => frames'[k].def = 1
      <4>1. \A k \in 1 .. last + 1 : k \in 1 .. last \/ k = last + 1
        BY <1>6
      <4>2. \A k \in 1 .. last : frames'[k].source # s
        BY <1>12, <1>15, <1>16, <2>2
      <4>3. frames'[last + 1].def = 1
        BY <1>12
      <4> QED BY <4>1, <4>2, <4>3
    <3>3. ~IsPassed(s, i)'
      <4>1. ~(i < 1)
        BY <1>8
      <4> QED BY <1>12, <3>1, <3>2, <4>1 DEF IsPassed
    <3>4. ASSUME NEW k \in 1 .. Slots(text[i]) PROVE SlotsThrough(text)[i - 1] + k \in 1 .. total
      <4>1. i \in 0 .. Len(text) /\ i - 1 \in 0 .. Len(text) /\ Len(text) \in 0 .. Len(text) /\ i <= Len(text)
        BY <1>8
      <4>2. PICK a, b, n : a = SlotsThrough(text)[i - 1] /\ b = SlotsThrough(text)[i] /\ n = Slots(text[i])
        OBVIOUS
      <4>3. a \in Nat /\ b \in Nat /\ n \in Nat /\ b = a + n /\ b <= total
        BY <1>2, <1>8, <4>1, <4>2
      <4>4. k \in 1 .. n
        BY <4>2
      <4>5. a + k \in 1 .. total
        BY <1>9, <4>3, <4>4
      <4> QED BY <4>2, <4>5
    <3>5. SlotsOf(s, i)' = [k \in 1 .. Slots(text[i]) |-> slots'[s][SlotsThrough(text)[i - 1] + k]]
      BY <1>14, <2>2 DEF SlotsOf
    <3>6. SlotsOf(s, i)' = [k \in 1 .. Slots(text[i]) |-> Empty]
      <4>1. \A j \in 1 .. total : slots'[s][j] = Empty
        BY <1>11, <2>2
      <4> QED BY <3>4, <3>5, <4>1
    <3>7. FileImports(text[i], i, NoSource) = [k \in 1 .. Slots(text[i]) |-> Empty]
      BY DEF FileImports
    <3> QED BY <3>3, <3>6, <3>7
  <2>3. ASSUME NEW s \in Sources'
        PROVE  /\ Len(slots'[s]) = Total(s)'
               /\ \A i \in 1 .. Len(Text(s)') : IsImport(Text(s)'[i]) =>
                     IF IsPassed(s, i)' THEN ImportIsResolved(s, i)'
                     ELSE SlotsOf(s, i)' = FileImports(Text(s)'[i], i, NoSource)
    <3>1. CASE s \in Sources
      <4>1. Text(s)' = Text(s) /\ slots'[s] = slots[s] /\ Len(slots[s]) = Total(s)
        BY <1>1, <1>11, <1>13, <3>1 DEF SlotsInv
      <4> QED BY <2>1, <3>1, <4>1 DEF Total
    <3>2. CASE s = new
      <4>1. Text(s)' = text /\ Len(slots'[s]) = total
        BY <1>10, <1>11, <1>14, <3>2
      <4> QED BY <1>2, <2>2, <3>2, <4>1 DEF Total
    <3> QED BY <1>7, <3>1, <3>2
  <2> QED BY <2>3 DEF SlotsInv
<1>22. NeedInv'
  <2>1. ASSUME NEW s, s = new PROVE IsAskedFor(s)'
    <3>1. PICK k : k = last
      OBVIOUS
    <3>2. Asks(k, file) /\ paths'[s] = file
      BY <1>4, <1>7, <2>1, <3>1
    <3>3. CASE k = 0
      <4>1. RootAsks(file)
        BY <3>2, <3>3 DEF Asks
      <4>2. phase = "core" /\ Len(core) < Len(project.core) => Len(core) + 1 \in 1 .. Len(project.core)
        BY <1>1 DEF TypeInv, IsProject
      <4> QED BY <1>3, <3>2, <4>1, <4>2 DEF RootAsks, IsAskedFor
    <3>4. CASE k # 0
      <4>1. k \in 1 .. last
        BY <1>6, <3>1, <3>4
      <4>2. PICK t, i : t = frames[k].source /\ i = frames[k].def
        OBVIOUS
      <4>3. t \in Sources /\ i \in 1 .. Len(Text(t)) /\ LeadsTo(t, i, file)
        BY <1>15, <3>2, <3>4, <4>1, <4>2 DEF Asks
      <4>4. t \in 1 .. s - 1
        BY <1>6, <2>1, <4>3
      <4>5. Text(t)' = Text(t)
        BY <1>13, <4>3
      <4>6. i \in 1 .. Len(Text(t)') /\ LeadsTo(t, i, file)'
        BY <4>3, <4>5 DEF LeadsTo
      <4>7. \E u \in 1 .. s - 1 : \E j \in 1 .. Len(Text(u)') : LeadsTo(u, j, paths[s])'
        BY <3>2, <4>4, <4>6 DEF LeadsTo
      <4> QED BY <4>7 DEF IsAskedFor
    <3> QED BY <3>3, <3>4
  <2>2. \A s \in Sources : IsAskedFor(s)'
    BY <1>1, <1>5, NeedsStay DEF NeedInv
  <2> QED BY <1>7, <2>1, <2>2 DEF NeedInv
<1>23. CoreInv'
  BY <1>1, <1>3, <1>5, CoreStays DEF CoreInv
<1> QED BY <1>17, <1>18, <1>19, <1>20, <1>21, <1>22, <1>23 DEF LoadInv

-----------------------------------------------------------------------------
LEMMA LoadingStarts ==
    ASSUME LoadInit
    PROVE  LoadInv
<1>1. /\ project \in Projects /\ phase = "entry"
      /\ frames = <<>> /\ wanted = NoFile /\ reply = NoReply
      /\ paths = <<>> /\ slots = <<>> /\ parsed = {} /\ core = <<>> /\ errors = {}
  BY DEF LoadInit
<1>2. Sources = {} /\ Len(paths) = 0 /\ Len(slots) = 0 /\ Len(frames) = 0 /\ Len(core) = 0
  BY <1>1, EmptySeq DEF Sources
<1>3. IsProject(project) /\ Len(project.core) \in Nat
  BY <1>1, LoadingAssumption DEF IsProject
<1>4. TypeInv
  BY <1>1, <1>2, <1>3 DEF TypeInv
<1>5. StackInv
  BY <1>1, <1>2 DEF StackInv
<1>6. RootInv
  BY <1>1, <1>2, <1>3 DEF RootInv, Loading
<1> QED BY <1>2, <1>4, <1>5, <1>6 DEF LoadInv, Unique, SlotsInv, NeedInv, CoreInv

LEMMA LoadingKeeps ==
    ASSUME LoadInv, [LoadNext \/ UseLoaded]_loadVars
    PROVE  LoadInv'
<1>1. CASE UNCHANGED loadVars
  <2>1. TypeInv' /\ Unique'
    BY <1>1 DEF loadVars, LoadInv, TypeInv, Unique, SlotValues, Sources
  <2>2. SlotsInv' /\ NeedInv' /\ (\A k \in 1 .. Len(frames) : FrameIsAt(k)')
        /\ Sources' = Sources /\ \A n : CoreIsFound(n) /\ core'[n] = core[n] => CoreIsFound(n)'
    BY <1>1, NothingIsRead DEF loadVars
  <2>3. CoreInv'
    BY <1>1, <2>2 DEF loadVars, LoadInv, CoreInv
  <2>4. RootInv'
    BY <1>1 DEF loadVars, LoadInv, RootInv, Idle, Loading
  <2>5. StackInv'
    <3>1. UNCHANGED <<project, phase, frames, wanted, reply, paths, parsed, core, errors>>
      BY <1>1 DEF loadVars
    <3>2. \A k, file : Asks(k, file)' <=> Asks(k, file)
      BY <3>1 DEF Asks, RootAsks, LeadsTo, Text
    <3>3. \A file, id : Replies(file, id)' <=> Replies(file, id)
      BY <3>1 DEF Replies, IsReadable, Sources, Unreadable, Error
    <3>4. Known(wanted)' <=> Known(wanted)
      BY <3>1 DEF Known, Sources
    <3>5. reply # NoReply => \E k, file : k = Len(frames') /\ Asks(k, file)' /\ Replies(file, reply)'
      <4>1. PICK id : id = reply
        OBVIOUS
      <4>2. \A file : Replies(file, id)' => Replies(file, reply)'
        BY <3>1, <4>1 DEF Replies
      <4>3. reply # NoReply => \E k, file : k = Len(frames) /\ Asks(k, file) /\ Replies(file, id)
        BY <4>1 DEF LoadInv, StackInv
      <4> QED BY <3>1, <3>2, <3>3, <4>2, <4>3
    <3> QED BY <2>2, <3>1, <3>2, <3>4, <3>5 DEF LoadInv, StackInv
  <2> QED BY <2>1, <2>2, <2>3, <2>4, <2>5 DEF LoadInv
<1>2. CASE ReadSource
  BY <1>2, ReadFailsKeeps, ReadSucceedsKeeps
<1>3. CASE PassDef
  BY <1>3, PassDefKeeps
<1>4. CASE ImportFails
  BY <1>4, ImportFailsKeeps
<1>5. CASE ImportKnown
  BY <1>5, ImportKnownKeeps
<1>6. CASE ImportReads
  BY <1>6, ImportReadsKeeps
<1>7. CASE ImportReturns
  BY <1>7, ImportReturnsKeeps
<1>8. CASE FinishSource
  BY <1>8, FinishSourceKeeps
<1>9. CASE OpenEntry
  BY <1>9, OpenEntryKeeps
<1>10. CASE EntryReturns
  BY <1>10, EntryReturnsKeeps
<1>11. CASE OpenCore
  BY <1>11, OpenCoreKeeps
<1>12. CASE CoreReturns
  BY <1>12, CoreReturnsKeeps
<1>13. CASE UseLoaded
  BY <1>13, UseLoadedKeeps
<1> QED
  BY <1>1, <1>2, <1>3, <1>4, <1>5, <1>6, <1>7, <1>8, <1>9, <1>10, <1>11, <1>12, <1>13 DEF LoadNext

LEMMA InvariantLoads ==
    ASSUME LoadInv
    PROVE  FilesAreLoaded
<1>1. TypeInv /\ Unique /\ StackInv /\ RootInv /\ SlotsInv /\ NeedInv /\ CoreInv
  BY DEF LoadInv
<1>2. \A s, t \in Sources : paths[s] = paths[t] => s = t
  BY <1>1 DEF Unique
<1>3. \A s \in Sources : IsReadable(paths[s]) /\ IsAskedFor(s)
  BY <1>1, TextOfSource DEF NeedInv
<1>4. Len(slots) = Len(paths) /\ parsed \subseteq Sources /\ reply \in Sources \cup {NoSource, NoReply}
  BY <1>1 DEF TypeInv
<1>5. /\ \A k \in 1 .. Len(frames) : frames[k].source \in Sources \ parsed
      /\ \A k, m \in 1 .. Len(frames) : frames[k].source = frames[m].source => k = m
  BY <1>1 DEF StackInv, FrameIsAt
<1>6. \A s \in Sources : \A i \in 1 .. Len(Text(s)) : IsImport(Text(s)[i]) =>
          IF IsPassed(s, i) THEN ImportIsResolved(s, i) ELSE SlotsOf(s, i) = FileImports(Text(s)[i], i, NoSource)
  BY <1>1 DEF SlotsInv
<1>7. frames = <<>> => parsed = Sources
  <2>1. frames = <<>> => Len(frames) = 0
    BY EmptySeq
  <2> QED BY <1>1, <1>4, <2>1 DEF StackInv
<1>8. \A n \in 1 .. Len(core) : CoreIsFound(n)
  BY <1>1 DEF CoreInv
<1>9. /\ phase \notin {"entry", "refused"} => paths # <<>> /\ paths[ROOT] = Canonical[project.entry]
      /\ ~Loading => Idle /\ Len(core) = Len(project.core)
  BY <1>1 DEF RootInv, Loading
<1> QED BY <1>2, <1>3, <1>4, <1>5, <1>6, <1>7, <1>8, <1>9 DEF FilesAreLoaded

(* Whatever the project, its imports and their order: at every step of     *)
(* loading each file has one number and is there because it was asked for, *)
(* and each import that was passed has the number of its own file in its   *)
(* slots, or is reported.                                                  *)
THEOREM LoadingIsExact == LoadSpec => []FilesAreLoaded
<1>1. LoadInit => LoadInv
  BY LoadingStarts
<1>2. LoadInv /\ [LoadNext \/ UseLoaded]_loadVars => LoadInv'
  BY LoadingKeeps
<1>3. LoadInv => FilesAreLoaded
  BY InvariantLoads
<1> QED BY <1>1, <1>2, <1>3, PTL DEF LoadSpec
=============================================================================
