------------------------ MODULE ReleaseBackendProofs ------------------------
(***************************************************************************)
(* The emitter finds the memory it asks for and no two uses share a byte,  *)
(* for every program, with any number of blocks, functions and             *)
(* allocations.                                                            *)
(*                                                                         *)
(* The allocator and the emitter walk the program by work lists of their   *)
(* own.  The invariant says of every block that the allocator has seen     *)
(* that it waits, is being walked or has all it needs (CollectInv); when   *)
(* the lists are empty the blocks seen are a set that no jump and no call  *)
(* leaves, with all its memory laid out (Served).  The emitter, whatever   *)
(* its order, stays within that set (EmitInv).                             *)
(***************************************************************************)
EXTENDS ReleaseBackend, SequenceLemmas

WorkLists(S) == [todo : Seq(S), seen : SUBSET S]

MemoryType ==
    [next : Nat, freePointer : Nat \cup {None}, switchStore : Nat \cup {None},
     start : [Allocs -> Nat \cup {None}], zeroing : SUBSET Allocs]

Stages == {"memory", "runtime_datas", "code", "assemble", "refused", "panic"}

TypeInv ==
    /\ ir \in Programs
    /\ target \in {"init", "main"}
    /\ target = "main" => ir.main # None
    /\ stage \in Stages
    /\ memory \in MemoryType
    /\ at \in Blocks \cup {None}
    /\ ops \in Seq(StackOps)
    /\ retMarks \in Seq([call : Nat, mark : Nat])
    /\ nextMark \in Nat
    /\ stage \in {"memory", "code"} => work \in WorkLists(Blocks)
    /\ stage = "memory" => fns \in WorkLists(Functions)
    /\ stage = "runtime_datas" => at = None

(* Slots one behind the other, below next. *)
Fits(S, next) ==
    /\ \A s \in S : s.start \in Nat /\ s.size \in Nat /\ s.start + s.size <= next
    /\ \A s, t \in S : s # t => s.start + s.size <= t.start \/ t.start + t.size <= s.start

IsLayout(mem) == mem \in MemoryType /\ Fits(Slots(mem), mem.next)

Provided(mem, op) ==
    /\ op.op \in {"store", "load", "alloc"} => mem.start[op.alloc] # None
    /\ op.op = "dyn_alloc" => mem.freePointer # None

(* A later layout has what an earlier one has. *)
Keeps(mem, later) ==
    /\ \A a \in Allocs : mem.start[a] # None => later.start[a] # None
    /\ mem.freePointer # None => later.freePointer # None
    /\ mem.switchStore # None => later.switchStore # None

-----------------------------------------------------------------------------
(* The allocator's walk. *)

SettledOp(op) == Provided(memory, op) /\ (IsCall(op) => op.fn \in fns.seen)
Settled(b) ==
    /\ \A i \in 1 .. Len(ir.ops[b]) : SettledOp(ir.ops[b][i])
    /\ \A k \in 1 .. Len(Successors(ir.control[b])) : Successors(ir.control[b])[k] \in work.seen
    /\ ir.control[b].kind = "switch" => memory.switchStore # None

(* A load that is still to come finds its word, or comes after its store.  *)
LoadsAreProvided ==
    \A j \in 1 .. Len(ops) : ops[j].op = "load" =>
        \/ memory.start[ops[j].alloc] # None
        \/ \E i \in 1 .. j - 1 : ops[i].op = "store" /\ ops[i].alloc = ops[j].alloc

CollectInv ==
    /\ EntryPoint \in fns.seen
    /\ \A f \in fns.seen : Has(fns.todo, f) \/ ir.entry[f] \in work.seen
    /\ \A b \in work.seen : Has(work.todo, b) \/ b = at \/ Settled(b)
    /\ at # None =>
          /\ \A i \in 1 .. Len(ir.ops[at]) : SettledOp(ir.ops[at][i]) \/ Has(ops, ir.ops[at][i])
          /\ \A j \in 1 .. Len(ops) : ops[j] = Ignored \/ ops[j] \in AllOps
          /\ LoadsAreProvided

(* The emitter's walk. *)

Served(V) ==
    /\ ir.entry[EntryPoint] \in V
    /\ \A b \in V :
          /\ \A i \in 1 .. Len(ir.ops[b]) :
                /\ Provided(memory, ir.ops[b][i])
                /\ IsCall(ir.ops[b][i]) => ir.entry[ir.ops[b][i].fn] \in V
          /\ \A k \in 1 .. Len(Successors(ir.control[b])) : Successors(ir.control[b])[k] \in V
          /\ ir.control[b].kind = "switch" => memory.switchStore # None

(* The return mark of a call that is still to come is pushed and not yet   *)
(* taken, or will be.                                                      *)
ReturnsArePushed ==
    \A j \in 1 .. Len(ops) : ops[j].op = "icall" =>
        \/ \E i \in 1 .. j - 1 :
              /\ ops[i].op = "ret_push" /\ ops[i].call = ops[j].call
              /\ \A k \in i .. j - 1 : ~IsCallOf(ops[k], ops[j].call)
        \/ /\ \E r \in 1 .. Len(retMarks) : retMarks[r].call = ops[j].call
           /\ \A k \in 1 .. j - 1 : ~IsCallOf(ops[k], ops[j].call)

StaysIn(V) ==
    /\ work.seen \subseteq V
    /\ \A i \in 1 .. Len(work.todo) : work.todo[i] \in V
    /\ at # None => at \in V /\ \A j \in 1 .. Len(ops) : Has(ir.ops[at], ops[j])

EmitInv ==
    /\ \E V \in SUBSET Blocks : Served(V) /\ StaysIn(V)
    /\ at # None => ReturnsArePushed

BackendInv ==
    /\ TypeInv
    /\ IsLayout(memory)
    /\ stage # "panic"
    /\ stage = "memory" => CollectInv
    /\ stage = "runtime_datas" => \E V \in SUBSET Blocks : Served(V)
    /\ stage = "code" => EmitInv
-----------------------------------------------------------------------------
(* The program. *)

LEMMA Program ==
    ASSUME ir \in Programs
    PROVE  /\ ir.entry \in [Functions -> Blocks]
           /\ ir.init \in Functions /\ ir.main \in Functions \cup {None}
           /\ \A b \in Blocks :
                 /\ ir.ops[b] \in Seq(StackOps) /\ Len(ir.ops[b]) \in Nat
                 /\ \A i \in 1 .. Len(ir.ops[b]) : ir.ops[b][i] \in StackOps /\ ir.ops[b][i] \in AllOps
                 /\ ir.control[b] \in Controls
                 /\ IsScheduled(ir.ops[b])
           /\ \A b, c \in Blocks : SizesAgree(ir.ops[b], ir.ops[c])
           /\ AllOps \subseteq StackOps
  <1>1. IsProgram(ir)
    BY ProgramsAssumption
  <1>2. \A b \in Blocks : ir.ops[b] \in Seq(StackOps)
    BY <1>1 DEF IsProgram
  <1>3. \A b \in Blocks : Len(ir.ops[b]) \in Nat /\ DOMAIN ir.ops[b] = 1 .. Len(ir.ops[b])
    BY <1>2, LenProperties
  <1>4. \A b \in Blocks : \A i \in 1 .. Len(ir.ops[b]) : ir.ops[b][i] \in StackOps
    BY <1>2, ElementOfSeq
  <1>5. \A b \in Blocks : \A i \in 1 .. Len(ir.ops[b]) : ir.ops[b][i] \in AllOps
    BY <1>3 DEF AllOps, Range
  <1>6. AllOps \subseteq StackOps
    BY <1>3, <1>4 DEF AllOps, Range
  <1> QED
    BY <1>1, <1>2, <1>3, <1>4, <1>5, <1>6 DEF IsProgram

LEMMA OpFields ==
    ASSUME NEW op \in StackOps
    PROVE  /\ op.op \in {"store", "load", "alloc"} => op.alloc \in Allocs
           /\ op.op = "alloc" => op.size \in Nat
           /\ IsCall(op) => op.fn \in Functions
           /\ op.op \in {"icall", "ret_push"} => op.call \in Nat
BY DEF StackOps, IsCall

LEMMA IgnoredIsOp ==
    /\ Ignored \in StackOps /\ Ignored.op = "bytes" /\ ~IsCall(Ignored)
BY DEF Ignored, StackOps, IsCall

LEMMA SuccessorsAreBlocks ==
    ASSUME NEW c \in Controls
    PROVE  Successors(c) \in Seq(Blocks)
  <1>1. CASE c.kind \in {"terminates", "return"}
    BY <1>1 DEF Successors
  <1>2. CASE c.kind = "continues"
    <2>1. c.to \in Blocks
      BY <1>2 DEF Controls
    <2> QED
      BY <1>2, <2>1 DEF Successors
  <1>3. CASE c.kind = "branches"
    <2>1. c.zero \in Blocks /\ c.nonZero \in Blocks
      BY <1>3 DEF Controls
    <2> QED
      BY <1>3, <2>1 DEF Successors
  <1>4. CASE c.kind = "switch"
    <2>1. c.cases \in Seq([value : Nat, to : Blocks]) /\ c.fallback \in Blocks \cup {None}
      BY <1>4 DEF Controls
    <2>2. /\ Len(c.cases) \in Nat /\ DOMAIN c.cases = 1 .. Len(c.cases)
          /\ \A i \in 1 .. Len(c.cases) : c.cases[i].to \in Blocks
      <3>1. \A i \in 1 .. Len(c.cases) : c.cases[i] \in [value : Nat, to : Blocks]
        BY <2>1, ElementOfSeq
      <3> QED
        BY <2>1, <3>1, LenProperties
    <2>3. Targets(c.cases) \in [1 .. Len(c.cases) -> Blocks]
      BY <2>2 DEF Targets
    <2>4. Targets(c.cases) \in Seq(Blocks)
      BY <2>2, <2>3, SeqDef
    <2>5. (IF c.fallback = None THEN <<>> ELSE <<c.fallback>>) \in Seq(Blocks)
      BY <2>1
    <2>6. Successors(c) = Targets(c.cases) \o (IF c.fallback = None THEN <<>> ELSE <<c.fallback>>)
      BY <1>4 DEF Successors
    <2> QED
      BY <2>4, <2>5, <2>6, ConcatProperties
  <1> QED
    BY <1>1, <1>2, <1>3, <1>4 DEF Controls

(* All operations that touch an allocation agree on its size. *)
LEMMA SizeOfTaken ==
    ASSUME ir \in Programs, NEW o \in AllOps, NEW a, Takes(o, a)
    PROVE  SizeOf(a) = SizeAsked(o) /\ SizeAsked(o) \in Nat
  <1>1. \A x \in AllOps : \E b \in Blocks : \E i \in 1 .. Len(ir.ops[b]) : x = ir.ops[b][i]
    <2>1. \A b \in Blocks : DOMAIN ir.ops[b] = 1 .. Len(ir.ops[b])
      BY Program, LenProperties
    <2> QED
      BY <2>1 DEF AllOps, Range
  <1>2. ASSUME NEW x \in AllOps, Takes(x, a) PROVE SizeAsked(x) = SizeAsked(o)
    <2>1. PICK b \in Blocks : \E i \in 1 .. Len(ir.ops[b]) : x = ir.ops[b][i]
      BY <1>1
    <2>2. PICK i \in 1 .. Len(ir.ops[b]) : x = ir.ops[b][i]
      BY <2>1
    <2>3. PICK c \in Blocks : \E j \in 1 .. Len(ir.ops[c]) : o = ir.ops[c][j]
      BY <1>1
    <2>4. PICK j \in 1 .. Len(ir.ops[c]) : o = ir.ops[c][j]
      BY <2>3
    <2>5. SizesAgree(ir.ops[b], ir.ops[c])
      BY Program
    <2>6. x.op \in {"alloc", "store"} /\ x.alloc = a
      BY <1>2 DEF Takes
    <2> QED
      BY <2>2, <2>4, <2>5, <2>6 DEF SizesAgree
  <1>3. {SizeAsked(x) : x \in {y \in AllOps : Takes(y, a)}} = {SizeAsked(o)}
    BY <1>2
  <1>4. SizeAsked(o) \in Nat
    <2>1. o \in StackOps
      BY Program
    <2> QED
      BY <2>1, OpFields, NumbersAssumption DEF SizeAsked
  <1> QED
    BY <1>3, <1>4 DEF SizeOf

-----------------------------------------------------------------------------
(* Work lists. *)

LEMMA EnqueueOne ==
    ASSUME NEW S, NEW w \in WorkLists(S), NEW x \in S
    PROVE  /\ Enqueue(w, x) \in WorkLists(S)
           /\ Enqueue(w, x).seen = w.seen \cup {x}
           /\ \A y : Has(Enqueue(w, x).todo, y) <=> Has(w.todo, y) \/ (y = x /\ x \notin w.seen)
  <1>1. w.todo \in Seq(S) /\ w.seen \in SUBSET S /\ w = [todo |-> w.todo, seen |-> w.seen]
    BY DEF WorkLists
  <1>2. CASE x \in w.seen
    BY <1>1, <1>2 DEF Enqueue
  <1>3. CASE x \notin w.seen
    <2>1. Append(w.todo, x) \in Seq(S) /\ \A y : Has(Append(w.todo, x), y) <=> Has(w.todo, y) \/ y = x
      BY <1>1, AppendHas
    <2>2. Enqueue(w, x) = [todo |-> Append(w.todo, x), seen |-> w.seen \cup {x}]
      BY <1>3 DEF Enqueue
    <2> QED
      BY <1>1, <1>3, <2>1, <2>2 DEF WorkLists
  <1> QED
    BY <1>2, <1>3

(* What EnqueueAll does: everything is seen, and what was not waits. *)
LEMMA EnqueueMany ==
    ASSUME NEW S, NEW w \in WorkLists(S), NEW xs \in Seq(S)
    PROVE  /\ EnqueueAll(w, xs) \in WorkLists(S)
           /\ EnqueueAll(w, xs).seen = w.seen \cup {xs[i] : i \in 1 .. Len(xs)}
           /\ \A y : Has(EnqueueAll(w, xs).todo, y)
                     <=> Has(w.todo, y) \/ (y \notin w.seen /\ \E i \in 1 .. Len(xs) : y = xs[i])
  <1> DEFINE n == Len(xs)
             W == WorkLists(S)
             step == [i \in 1 .. n |-> [v \in W |-> Enqueue(v, xs[i])]]
             after[i \in 0 .. Len(xs)] == IF i = 0 THEN w ELSE Enqueue(after[i - 1], xs[i])
  <1>1. n \in Nat /\ \A i \in 1 .. n : xs[i] \in S
    BY LenProperties, ElementOfSeq
  <1>2. step \in [1 .. n -> [W -> W]]
    <2>1. \A i \in 1 .. n : \A v \in W : Enqueue(v, xs[i]) \in W
      BY <1>1, EnqueueOne
    <2> QED
      BY <2>1
  <1>3. PICK f \in [0 .. n -> W] : f[0] = w /\ \A i \in 1 .. n : f[i] = step[i][f[i - 1]]
    <2> HIDE DEF step, n, W
    <2>1. w \in W
      BY DEF W
    <2>2. Recursions(n, W, w, step) # {}
      BY <1>1, <1>2, <2>1, RecursionUpTo
    <2> QED
      BY <2>2 DEF Recursions
  <1>4. ASSUME NEW i \in 1 .. n PROVE f[i - 1] \in W /\ f[i] = Enqueue(f[i - 1], xs[i])
    <2>1. i - 1 \in 0 .. n
      BY <1>1
    <2>2. f[i - 1] \in W /\ f[i] = step[i][f[i - 1]]
      BY <1>3, <2>1
    <2>3. step[i] = [v \in W |-> Enqueue(v, xs[i])]
      OBVIOUS
    <2> QED
      BY <2>2, <2>3
  <1>5. f = [i \in 0 .. n |-> IF i = 0 THEN w ELSE Enqueue(f[i - 1], xs[i])]
    BY <1>1, <1>3, <1>4
  <1>6. after = [i \in 0 .. n |-> IF i = 0 THEN w ELSE Enqueue(after[i - 1], xs[i])]
    <2>1. after = CHOOSE g : g = [i \in 0 .. n |-> IF i = 0 THEN w ELSE Enqueue(g[i - 1], xs[i])]
      BY DEF after
    <2> HIDE DEF after
    <2> QED
      BY <1>5, <2>1
  <1> HIDE DEF after
  <1> DEFINE Good(i) ==
                 /\ after[i] \in W
                 /\ after[i].seen = w.seen \cup {xs[k] : k \in 1 .. i}
                 /\ \A y : Has(after[i].todo, y)
                           <=> Has(w.todo, y) \/ (y \notin w.seen /\ \E k \in 1 .. i : y = xs[k])
             T == {i \in 0 .. n : Good(i)}
  <1>7. 0 \in T
    <2>1. after[0] = w
      BY <1>1, <1>6
    <2>2. Good(0)
      BY <2>1
    <2> QED
      BY <1>1, <2>2
  <1>8. ASSUME NEW i \in 1 .. n, i - 1 \in T PROVE i \in T
    <2>0. Good(i - 1)
      BY <1>8
    <2>1. after[i] = Enqueue(after[i - 1], xs[i]) /\ after[i - 1] \in W /\ xs[i] \in S
      BY <1>1, <1>6, <2>0
    <2>2. /\ after[i] \in W
          /\ after[i].seen = after[i - 1].seen \cup {xs[i]}
          /\ \A y : Has(after[i].todo, y) <=> Has(after[i - 1].todo, y) \/ (y = xs[i] /\ xs[i] \notin after[i - 1].seen)
      <3>1. PICK v, x : v = after[i - 1] /\ x = xs[i]
        OBVIOUS
      <3>2. v \in WorkLists(S) /\ x \in S /\ after[i] = Enqueue(v, x)
        BY <2>1, <3>1
      <3>3. /\ Enqueue(v, x) \in WorkLists(S)
            /\ Enqueue(v, x).seen = v.seen \cup {x}
            /\ \A y : Has(Enqueue(v, x).todo, y) <=> Has(v.todo, y) \/ (y = x /\ x \notin v.seen)
        BY <3>2, EnqueueOne, Zenon
      <3> QED
        BY <3>1, <3>2, <3>3, Zenon
    <2>3. /\ after[i - 1].seen = w.seen \cup {xs[k] : k \in 1 .. i - 1}
          /\ \A y : Has(after[i - 1].todo, y)
                    <=> Has(w.todo, y) \/ (y \notin w.seen /\ \E k \in 1 .. i - 1 : y = xs[k])
      BY <2>0
    <2>4. 1 .. i = (1 .. i - 1) \cup {i}
      BY <1>1
    <2>5. after[i].seen = w.seen \cup {xs[k] : k \in 1 .. i}
      BY <2>2, <2>3, <2>4
    <2>6. \A y : Has(after[i].todo, y)
                <=> Has(w.todo, y) \/ (y \notin w.seen /\ \E k \in 1 .. i : y = xs[k])
      <3> HIDE DEF Good, T, W, step
      <3>1. xs[i] \notin after[i - 1].seen <=> (xs[i] \notin w.seen /\ ~ \E k \in 1 .. i - 1 : xs[i] = xs[k])
        BY <2>3
      <3>2. \A y : (\E k \in 1 .. i : y = xs[k]) <=> (\E k \in 1 .. i - 1 : y = xs[k]) \/ y = xs[i]
        BY <2>4
      <3> QED
        BY <2>2, <2>3, <3>1, <3>2
    <2>7. Good(i)
      BY <2>2, <2>5, <2>6
    <2> QED
      BY <1>1, <2>7
  <1>9. Good(n)
    <2> HIDE DEF T
    <2>1. 0 .. n \subseteq T
      BY <1>1, <1>7, <1>8, InductionUpTo
    <2>2. n \in T
      BY <1>1, <2>1
    <2> QED
      BY <2>2 DEF T
  <1>10. EnqueueAll(w, xs) = after[n]
    BY DEF EnqueueAll, after
  <1> QED
    BY <1>9, <1>10

-----------------------------------------------------------------------------
(* The layout. *)

LEMMA OneMoreFits ==
    ASSUME NEW S, NEW next \in Nat, Fits(S, next), NEW n \in Nat, NEW for,
           NEW T, T \subseteq S \cup {Slot(for, next, n)}
    PROVE  Fits(T, next + n)
  <1>1. Slot(for, next, n).start = next /\ Slot(for, next, n).size = n
    BY DEF Slot
  <1>2. ASSUME NEW s \in T PROVE s.start \in Nat /\ s.size \in Nat /\ s.start + s.size <= next + n
    <2>1. CASE s \in S
      BY <2>1 DEF Fits
    <2>2. CASE s = Slot(for, next, n)
      BY <1>1, <2>2
    <2> QED
      BY <2>1, <2>2
  <1>3. ASSUME NEW s \in T, NEW t \in T, s # t
        PROVE  s.start + s.size <= t.start \/ t.start + t.size <= s.start
    <2>1. CASE s \in S /\ t \in S
      BY <1>3, <2>1 DEF Fits
    <2>2. CASE s = Slot(for, next, n) /\ t \in S
      BY <1>1, <2>2 DEF Fits
    <2>3. CASE s \in S /\ t = Slot(for, next, n)
      BY <1>1, <2>3 DEF Fits
    <2> QED
      BY <1>3, <2>1, <2>2, <2>3
  <1> QED
    BY <1>2, <1>3 DEF Fits

LEMMA BumpFields ==
    ASSUME NEW mem \in MemoryType, NEW n \in Nat
    PROVE  /\ Bump(mem, n) \in MemoryType
           /\ Bump(mem, n) = [next |-> mem.next + n, freePointer |-> mem.freePointer,
                              switchStore |-> mem.switchStore, start |-> mem.start, zeroing |-> mem.zeroing]
BY DEF Bump, MemoryType

LEMMA NoMemoryIsLayout == IsLayout(NoMemory)
  <1>1. NoMemory \in MemoryType
    BY DEF NoMemory, MemoryType
  <1>2. Slots(NoMemory) = {}
    BY DEF NoMemory, Slots
  <1> QED
    BY <1>1, <1>2 DEF IsLayout, Fits

LEMMA AllocStaticLayout ==
    ASSUME NEW mem, IsLayout(mem), NEW a \in Allocs, NEW n, n = SizeOf(a), n \in Nat, NEW z
    PROVE  /\ IsLayout(AllocStatic(mem, a, n, z))
           /\ Keeps(mem, AllocStatic(mem, a, n, z))
           /\ AllocStatic(mem, a, n, z).start[a] # None
  <1>1. CASE mem.start[a] # None
    BY <1>1 DEF AllocStatic, Keeps
  <1>2. CASE mem.start[a] = None
    <2>1. PICK later : later = AllocStatic(mem, a, n, z)
      OBVIOUS
    <2>2. /\ mem.next \in Nat /\ mem.start \in [Allocs -> Nat \cup {None}] /\ mem \in MemoryType
      BY DEF IsLayout, MemoryType
    <2>3. /\ later.next = mem.next + n /\ later.start = [mem.start EXCEPT ![a] = mem.next]
          /\ later.freePointer = mem.freePointer /\ later.switchStore = mem.switchStore
          /\ later \in MemoryType
      <3>1. PICK bumped : bumped = Bump(mem, n)
        OBVIOUS
      <3>2. /\ bumped \in MemoryType
            /\ bumped = [next |-> mem.next + n, freePointer |-> mem.freePointer,
                         switchStore |-> mem.switchStore, start |-> mem.start, zeroing |-> mem.zeroing]
        BY <2>2, <3>1, BumpFields
      <3>3. PICK zeroed : later = [bumped EXCEPT !.start[a] = mem.next, !.zeroing = zeroed]
                           /\ zeroed \in {bumped.zeroing, bumped.zeroing \cup {a}}
        BY <1>2, <2>1, <3>1 DEF AllocStatic
      <3>4. /\ later.next = bumped.next /\ later.start = [bumped.start EXCEPT ![a] = mem.next]
            /\ later.freePointer = bumped.freePointer /\ later.switchStore = bumped.switchStore
            /\ later \in MemoryType
        BY <2>2, <3>2, <3>3 DEF MemoryType
      <3> QED
        BY <3>2, <3>4
    <2>4. Slots(later) \subseteq Slots(mem) \cup {Slot(<<"alloc", a>>, mem.next, n)}
      <3>1. ASSUME NEW b \in Allocs, later.start[b] # None
            PROVE  Slot(<<"alloc", b>>, later.start[b], SizeOf(b))
                     \in Slots(mem) \cup {Slot(<<"alloc", a>>, mem.next, n)}
        <4>1. CASE b = a
          BY <2>2, <2>3, <4>1
        <4>2. CASE b # a
          BY <2>2, <2>3, <3>1, <4>2 DEF Slots
        <4> QED
          BY <4>1, <4>2
      <3> QED
        BY <2>3, <3>1 DEF Slots
    <2>5. Fits(Slots(later), later.next)
      BY <2>2, <2>3, <2>4, OneMoreFits DEF IsLayout
    <2>6. Keeps(mem, later) /\ later.start[a] # None
      BY <2>2, <2>3, NoneAssumption DEF Keeps
    <2> QED
      BY <2>1, <2>3, <2>5, <2>6 DEF IsLayout
  <1> QED
    BY <1>1, <1>2

LEMMA FreePointerLayout ==
    ASSUME NEW mem, IsLayout(mem), mem.freePointer = None,
           NEW later, later = [Bump(mem, WordSize) EXCEPT !.freePointer = mem.next]
    PROVE  IsLayout(later) /\ Keeps(mem, later) /\ later.freePointer # None
  <1>1. mem \in MemoryType /\ mem.next \in Nat
    BY DEF IsLayout, MemoryType
  <1>2. /\ later.next = mem.next + WordSize /\ later.freePointer = mem.next
        /\ later.start = mem.start /\ later.switchStore = mem.switchStore /\ later \in MemoryType
    <2>1. PICK bumped : bumped = Bump(mem, WordSize)
      OBVIOUS
    <2>2. /\ bumped \in MemoryType
          /\ bumped = [next |-> mem.next + WordSize, freePointer |-> mem.freePointer,
                       switchStore |-> mem.switchStore, start |-> mem.start, zeroing |-> mem.zeroing]
      BY <1>1, <2>1, BumpFields, NumbersAssumption
    <2>3. later = [bumped EXCEPT !.freePointer = mem.next]
      BY <2>1
    <2> QED
      BY <1>1, <2>2, <2>3 DEF MemoryType
  <1>3. Slots(later) \subseteq Slots(mem) \cup {Slot(<<"free pointer">>, mem.next, WordSize)}
    BY <1>2 DEF Slots
  <1>4. Fits(Slots(later), later.next)
    <2>1. Fits(Slots(mem), mem.next)
      BY DEF IsLayout
    <2>2. Fits(Slots(later), mem.next + WordSize)
      BY <1>1, <1>3, <2>1, OneMoreFits, NumbersAssumption
    <2> QED
      BY <1>2, <2>2
  <1> QED
    BY <1>1, <1>2, <1>4, NoneAssumption DEF IsLayout, Keeps

LEMMA SwitchStoreLayout ==
    ASSUME NEW mem, IsLayout(mem), mem.switchStore = None,
           NEW later, later = [Bump(mem, WordSize) EXCEPT !.switchStore = mem.next]
    PROVE  IsLayout(later) /\ Keeps(mem, later) /\ later.switchStore # None
  <1>1. mem \in MemoryType /\ mem.next \in Nat
    BY DEF IsLayout, MemoryType
  <1>2. /\ later.next = mem.next + WordSize /\ later.switchStore = mem.next
        /\ later.start = mem.start /\ later.freePointer = mem.freePointer /\ later \in MemoryType
    <2>1. PICK bumped : bumped = Bump(mem, WordSize)
      OBVIOUS
    <2>2. /\ bumped \in MemoryType
          /\ bumped = [next |-> mem.next + WordSize, freePointer |-> mem.freePointer,
                       switchStore |-> mem.switchStore, start |-> mem.start, zeroing |-> mem.zeroing]
      BY <1>1, <2>1, BumpFields, NumbersAssumption
    <2>3. later = [bumped EXCEPT !.switchStore = mem.next]
      BY <2>1
    <2> QED
      BY <1>1, <2>2, <2>3 DEF MemoryType
  <1>3. Slots(later) \subseteq Slots(mem) \cup {Slot(<<"switch">>, mem.next, WordSize)}
    BY <1>2 DEF Slots
  <1>4. Fits(Slots(later), later.next)
    <2>1. Fits(Slots(mem), mem.next)
      BY DEF IsLayout
    <2>2. Fits(Slots(later), mem.next + WordSize)
      BY <1>1, <1>3, <2>1, OneMoreFits, NumbersAssumption
    <2> QED
      BY <1>2, <2>2
  <1> QED
    BY <1>1, <1>2, <1>4, NoneAssumption DEF IsLayout, Keeps

(* What the allocator does for an operation. *)
LEMMA CollectedLayout ==
    ASSUME ir \in Programs, NEW mem, IsLayout(mem), NEW op, op = Ignored \/ op \in AllOps
    PROVE  /\ IsLayout(Collected(mem, op))
           /\ Keeps(mem, Collected(mem, op))
           /\ op.op # "load" => Provided(Collected(mem, op), op)
  <1>1. op \in StackOps
    BY Program, IgnoredIsOp
  <1>2. CASE op.op = "dyn_alloc" /\ mem.freePointer = None
    <2>1. PICK later : later = [Bump(mem, WordSize) EXCEPT !.freePointer = mem.next]
      OBVIOUS
    <2>2. Collected(mem, op) = later
      BY <1>2, <2>1 DEF Collected
    <2>3. IsLayout(later) /\ Keeps(mem, later) /\ later.freePointer # None
      BY <1>2, <2>1, FreePointerLayout
    <2> QED
      BY <1>2, <2>2, <2>3 DEF Provided
  <1>3. CASE op.op \in {"alloc", "store"}
    <2>1. op \in AllOps /\ op.alloc \in Allocs
      BY <1>1, <1>3, IgnoredIsOp, OpFields
    <2>2. SizeOf(op.alloc) = SizeAsked(op) /\ SizeAsked(op) \in Nat
      BY <1>3, <2>1, SizeOfTaken DEF Takes
    <2>3. PICK z : Collected(mem, op) = AllocStatic(mem, op.alloc, SizeAsked(op), z)
      BY <1>3 DEF Collected, SizeAsked
    <2>4. PICK a, n : a = op.alloc /\ n = SizeAsked(op)
      OBVIOUS
    <2>5. /\ IsLayout(AllocStatic(mem, a, n, z)) /\ Keeps(mem, AllocStatic(mem, a, n, z))
          /\ AllocStatic(mem, a, n, z).start[a] # None
      BY <2>1, <2>2, <2>4, AllocStaticLayout
    <2> QED
      BY <1>3, <2>3, <2>4, <2>5 DEF Provided
  <1>4. CASE ~(op.op = "dyn_alloc" /\ mem.freePointer = None) /\ op.op \notin {"alloc", "store"}
    <2>1. Collected(mem, op) = mem
      BY <1>4 DEF Collected
    <2> QED
      BY <1>4, <2>1 DEF Provided, Keeps
  <1> QED
    BY <1>2, <1>3, <1>4

LEMMA ProvidedIsKept ==
    ASSUME NEW mem, NEW later, Keeps(mem, later), NEW op \in StackOps, Provided(mem, op)
    PROVE  Provided(later, op)
BY OpFields DEF Keeps, Provided

LEMMA LayoutStays ==
    ASSUME ir' = ir, NEW mem, memory' = mem, IsLayout(mem)
    PROVE  IsLayout(memory)'
  <1>1. \A a : SizeOf(a)' = SizeOf(a)
    BY DEF SizeOf, AllOps
  <1>2. Slots(memory)' = Slots(mem)
    BY <1>1 DEF Slots
  <1> QED
    BY <1>2 DEF IsLayout

-----------------------------------------------------------------------------
(* The allocator's steps. *)

LEMMA NoWorkIsEmpty ==
    ASSUME NEW S
    PROVE  NoWork \in WorkLists(S) /\ NoWork.seen = {} /\ \A y : ~Has(NoWork.todo, y)
BY DEF NoWork, WorkLists, Has

LEMMA PopOne ==
    ASSUME NEW S, NEW w \in WorkLists(S), w.todo # <<>>
    PROVE  /\ Pop(w) \in WorkLists(S) /\ Pop(w).seen = w.seen
           /\ Last(w.todo) \in S
           /\ \A y : Has(w.todo, y) <=> Has(Pop(w).todo, y) \/ y = Last(w.todo)
  <1>1. w.todo \in Seq(S) /\ w.seen \in SUBSET S
    BY DEF WorkLists
  <1>2. Pop(w) = [todo |-> Front(w.todo), seen |-> w.seen]
    BY DEF Pop, WorkLists
  <1>3. /\ Front(w.todo) \in Seq(S) /\ Last(w.todo) \in S
        /\ \A y : Has(w.todo, y) <=> Has(Front(w.todo), y) \/ y = Last(w.todo)
    BY <1>1, FrontHas
  <1> QED
    BY <1>1, <1>2, <1>3 DEF WorkLists

(* What is settled stays so, as the walk goes on. *)
Grows ==
    /\ ir' = ir /\ Keeps(memory, memory')
    /\ fns.seen \subseteq fns'.seen /\ work.seen \subseteq work'.seen

LEMMA SettledOpStays ==
    ASSUME Grows, NEW op \in StackOps, SettledOp(op)
    PROVE  SettledOp(op)'
  <1>1. PICK mem, later : mem = memory /\ later = memory'
    OBVIOUS
  <1>2. Provided(later, op)
    BY <1>1, ProvidedIsKept DEF Grows, SettledOp
  <1>3. Provided(memory, op)'
    BY <1>1, <1>2 DEF Provided
  <1> QED
    BY <1>3 DEF Grows, SettledOp

LEMMA SettledStays ==
    ASSUME TypeInv, Grows, NEW b \in Blocks, Settled(b)
    PROVE  Settled(b)'
  <1>1. ASSUME NEW i \in 1 .. Len(ir.ops[b]) PROVE SettledOp(ir.ops[b][i])'
    <2>1. PICK op : op = ir.ops[b][i]
      OBVIOUS
    <2>2. op \in StackOps /\ SettledOp(op)
      BY <2>1, Program DEF TypeInv, Settled
    <2>3. SettledOp(op)'
      BY <2>2, SettledOpStays
    <2> QED
      BY <2>1, <2>3 DEF Grows, SettledOp, Provided, IsCall
  <1>2. Successors(ir.control[b])' = Successors(ir.control[b])
    BY DEF Grows
  <1> QED
    BY <1>1, <1>2 DEF Settled, Grows, Keeps

LEMMA BlocksSeen ==
    ASSUME TypeInv, stage = "memory"
    PROVE  /\ work \in WorkLists(Blocks) /\ work.todo \in Seq(Blocks) /\ work.seen \subseteq Blocks
           /\ fns \in WorkLists(Functions) /\ fns.todo \in Seq(Functions) /\ fns.seen \subseteq Functions
           /\ None \notin Blocks
BY NoneAssumption, NumbersAssumption DEF TypeInv, WorkLists, Blocks

LEMMA CollectFunctionStep ==
    ASSUME BackendInv, CollectFunction
    PROVE  BackendInv'
  <1>1. /\ stage = "memory" /\ stage' = "memory" /\ ir' = ir /\ memory' = memory /\ target' = target
        /\ at = None /\ at' = None /\ ops' = ops /\ retMarks' = retMarks /\ nextMark' = nextMark
        /\ work.todo = <<>> /\ fns.todo # <<>> /\ fns' = Pop(fns)
        /\ TypeInv /\ CollectInv
    BY DEF CollectFunction, BackendInv
  <1>2. PICK entry : entry = ir.entry[Last(fns.todo)]
    OBVIOUS
  <1>3. work' = [todo |-> <<entry>>, seen |-> work.seen \cup {entry}]
    BY <1>2 DEF CollectFunction
  <1>4. PICK w : w = fns
    OBVIOUS
  <1>5. /\ fns' \in WorkLists(Functions) /\ fns'.seen = fns.seen /\ Last(fns.todo) \in Functions
        /\ \A y : Has(fns.todo, y) <=> Has(fns'.todo, y) \/ y = Last(fns.todo)
    <2>1. w \in WorkLists(Functions) /\ w.todo # <<>>
      BY <1>1, <1>4, BlocksSeen
    <2>2. /\ Pop(w) \in WorkLists(Functions) /\ Pop(w).seen = w.seen /\ Last(w.todo) \in Functions
          /\ \A y : Has(w.todo, y) <=> Has(Pop(w).todo, y) \/ y = Last(w.todo)
      BY <2>1, PopOne
    <2> QED
      BY <1>1, <1>4, <2>2
  <1>6. entry \in Blocks
    BY <1>1, <1>2, <1>5, Program DEF TypeInv
  <1>7. work' \in WorkLists(Blocks) /\ Has(work'.todo, entry) /\ work'.seen = work.seen \cup {entry}
    BY <1>1, <1>3, <1>6, BlocksSeen DEF WorkLists, Has
  <1>8. TypeInv'
    BY <1>1, <1>5, <1>7 DEF TypeInv
  <1>9. Grows
    BY <1>1, <1>5, <1>7 DEF Grows, Keeps
  <1>10. CollectInv'
    <2>1. ASSUME NEW f \in fns.seen PROVE Has(fns'.todo, f) \/ ir.entry[f] \in work'.seen
      BY <1>1, <1>2, <1>5, <1>7 DEF CollectInv
    <2>2. ASSUME NEW b \in work'.seen PROVE Has(work'.todo, b) \/ Settled(b)'
      <3>1. CASE b = entry
        BY <1>7, <3>1
      <3>2. CASE b \in work.seen
        <4>1. ~Has(work.todo, b) /\ b # at /\ b \in Blocks
          BY <1>1, <3>2, BlocksSeen DEF Has
        <4>2. Settled(b)
          BY <1>1, <3>2, <4>1 DEF CollectInv
        <4> QED
          BY <1>1, <1>9, <4>1, <4>2, SettledStays
      <3> QED
        BY <1>7, <3>1, <3>2
    <2> QED
      BY <1>1, <1>5, <2>1, <2>2 DEF CollectInv, EntryPoint
  <1>11. IsLayout(memory)'
    <2>1. PICK mem : mem = memory
      OBVIOUS
    <2> QED
      BY <1>1, <2>1, LayoutStays DEF BackendInv
  <1> QED
    BY <1>1, <1>8, <1>10, <1>11 DEF BackendInv

(* The operations come first, then the loads and stores in their order. *)
LEMMA AllocationOrderParts ==
    ASSUME ir \in Programs, NEW b \in Blocks
    PROVE  /\ AllocationOrder(b) \in Seq(StackOps)
           /\ \A i \in 1 .. Len(ir.ops[b]) : Has(AllocationOrder(b), ir.ops[b][i])
           /\ \A j \in 1 .. Len(AllocationOrder(b)) :
                 /\ AllocationOrder(b)[j] = Ignored \/ AllocationOrder(b)[j] \in AllOps
                 /\ AllocationOrder(b)[j].op = "load" =>
                       \E i \in 1 .. j - 1 : /\ AllocationOrder(b)[i].op = "store"
                                             /\ AllocationOrder(b)[i].alloc = AllocationOrder(b)[j].alloc
  <1>1. PICK s : s = ir.ops[b]
    OBVIOUS
  <1>2. /\ s \in Seq(StackOps) /\ Len(s) \in Nat
        /\ \A i \in 1 .. Len(s) : s[i] \in StackOps /\ s[i] \in AllOps
        /\ IsScheduled(s)
    BY <1>1, Program
  <1>3. PICK first : first = [i \in 1 .. Len(s) |-> IF IsSpill(s[i]) THEN Ignored ELSE s[i]]
    OBVIOUS
  <1>4. PICK second : second = [i \in 1 .. Len(s) |-> IF IsSpill(s[i]) THEN s[i] ELSE Ignored]
    OBVIOUS
  <1>5. PICK order : order = AllocationOrder(b)
    OBVIOUS
  <1>6. order = first \o second
    BY <1>1, <1>3, <1>4, <1>5 DEF AllocationOrder
  <1>7. first \in [1 .. Len(s) -> StackOps] /\ second \in [1 .. Len(s) -> StackOps]
    BY <1>2, <1>3, <1>4, IgnoredIsOp
  <1>8. first \in Seq(StackOps) /\ second \in Seq(StackOps) /\ Len(first) = Len(s) /\ Len(second) = Len(s)
    BY <1>2, <1>7, SeqDef, LenProperties
  <1>9. /\ order \in Seq(StackOps) /\ Len(order) = Len(s) + Len(s)
        /\ \A i \in 1 .. Len(s) + Len(s) : order[i] = IF i <= Len(s) THEN first[i] ELSE second[i - Len(s)]
    <2>1. first \o second \in Seq(StackOps)
      BY <1>8, ConcatProperties
    <2>2. Len(first \o second) = Len(first) + Len(second)
      BY <1>8, ConcatProperties
    <2>3. \A i \in 1 .. Len(first) + Len(second) :
             (first \o second)[i] = IF i <= Len(first) THEN first[i] ELSE second[i - Len(first)]
      BY <1>8, ConcatProperties
    <2> QED
      BY <1>6, <1>8, <2>1, <2>2, <2>3
  <1>10. \A i \in 1 .. Len(s) :
            /\ order[i] = IF IsSpill(s[i]) THEN Ignored ELSE s[i]
            /\ Len(s) + i \in 1 .. Len(order)
            /\ order[Len(s) + i] = IF IsSpill(s[i]) THEN s[i] ELSE Ignored
    <2>1. ASSUME NEW i \in 1 .. Len(s)
          PROVE  /\ order[i] = first[i]
                 /\ Len(s) + i \in 1 .. Len(order) /\ order[Len(s) + i] = second[i]
      <3>1. i \in 1 .. Len(s) + Len(s) /\ i <= Len(s)
        BY <1>2
      <3>2. Len(s) + i \in 1 .. Len(s) + Len(s) /\ ~(Len(s) + i <= Len(s)) /\ (Len(s) + i) - Len(s) = i
        BY <1>2
      <3> QED
        BY <1>9, <3>1, <3>2
    <2> QED
      BY <1>3, <1>4, <2>1
  <1>11. ASSUME NEW i \in 1 .. Len(s) PROVE Has(order, s[i])
    <2>1. i \in 1 .. Len(order)
      BY <1>2, <1>9
    <2> QED
      BY <1>10, <2>1 DEF Has
  <1>12. ASSUME NEW j \in 1 .. Len(order)
         PROVE  \E i \in 1 .. Len(s) : /\ j = i \/ j = Len(s) + i
                                       /\ order[j] = Ignored \/ order[j] = s[i]
    <2>1. CASE j <= Len(s)
      BY <1>2, <1>10, <2>1
    <2>2. CASE ~(j <= Len(s))
      <3>1. j - Len(s) \in 1 .. Len(s) /\ j = Len(s) + (j - Len(s))
        BY <1>2, <1>9, <2>2
      <3> QED
        BY <1>10, <3>1
    <2> QED
      BY <2>1, <2>2
  <1>13. ASSUME NEW j \in 1 .. Len(order), order[j].op = "load"
         PROVE  \E i \in 1 .. j - 1 : order[i].op = "store" /\ order[i].alloc = order[j].alloc
    <2>1. PICK n \in 1 .. Len(s) : (j = n \/ j = Len(s) + n) /\ (order[j] = Ignored \/ order[j] = s[n])
      BY <1>12
    <2>2. order[j] = s[n] /\ s[n].op = "load"
      BY <1>13, <2>1, IgnoredIsOp
    <2>3. j = Len(s) + n
      BY <1>10, <1>13, <2>1, <2>2, IgnoredIsOp DEF IsSpill
    <2>4. PICK i \in 1 .. n - 1 : s[i].op = "store" /\ s[i].alloc = s[n].alloc
      BY <1>2, <2>2 DEF IsScheduled
    <2>5. i \in 1 .. Len(s) /\ Len(s) + i \in 1 .. j - 1
      BY <1>2, <2>3
    <2>6. order[Len(s) + i] = s[i]
      BY <1>10, <2>4, <2>5 DEF IsSpill
    <2> QED
      BY <2>2, <2>4, <2>5, <2>6
  <1>14. ASSUME NEW j \in 1 .. Len(order) PROVE order[j] = Ignored \/ order[j] \in AllOps
    BY <1>2, <1>12
  <1> QED
    BY <1>1, <1>5, <1>9, <1>11, <1>13, <1>14

LEMMA CollectBlockStep ==
    ASSUME BackendInv, CollectBlock
    PROVE  BackendInv'
  <1>1. /\ stage = "memory" /\ stage' = "memory" /\ ir' = ir /\ memory' = memory /\ target' = target
        /\ at = None /\ work.todo # <<>> /\ fns' = fns /\ retMarks' = retMarks /\ nextMark' = nextMark
        /\ at' = Last(work.todo) /\ ops' = AllocationOrder(Last(work.todo)) /\ work' = Pop(work)
        /\ TypeInv /\ CollectInv
    BY DEF CollectBlock, BackendInv
  <1>2. PICK w, b : w = work /\ b = Last(work.todo)
    OBVIOUS
  <1>3. /\ work' \in WorkLists(Blocks) /\ work'.seen = work.seen /\ b \in Blocks
        /\ \A y : Has(work.todo, y) <=> Has(work'.todo, y) \/ y = b
    <2>1. w \in WorkLists(Blocks) /\ w.todo # <<>>
      BY <1>1, <1>2, BlocksSeen
    <2>2. /\ Pop(w) \in WorkLists(Blocks) /\ Pop(w).seen = w.seen /\ Last(w.todo) \in Blocks
          /\ \A y : Has(w.todo, y) <=> Has(Pop(w).todo, y) \/ y = Last(w.todo)
      BY <2>1, PopOne
    <2> QED
      BY <1>1, <1>2, <2>2
  <1>4. PICK order : order = AllocationOrder(b)
    OBVIOUS
  <1>5. /\ order \in Seq(StackOps)
        /\ \A i \in 1 .. Len(ir.ops[b]) : Has(order, ir.ops[b][i])
        /\ \A j \in 1 .. Len(order) :
              /\ order[j] = Ignored \/ order[j] \in AllOps
              /\ order[j].op = "load" =>
                    \E i \in 1 .. j - 1 : order[i].op = "store" /\ order[i].alloc = order[j].alloc
    BY <1>1, <1>3, <1>4, AllocationOrderParts DEF TypeInv
  <1>6. ops' = order /\ at' = b
    BY <1>1, <1>2, <1>4
  <1>7. TypeInv'
    BY <1>1, <1>3, <1>5, <1>6 DEF TypeInv
  <1>8. Grows
    BY <1>1, <1>3 DEF Grows, Keeps
  <1>9. CollectInv'
    <2>1. ASSUME NEW c \in work'.seen PROVE Has(work'.todo, c) \/ c = at' \/ Settled(c)'
      <3>1. CASE Settled(c)
        <4>1. c \in Blocks
          BY <1>1, <1>3, BlocksSeen
        <4> QED
          BY <1>1, <1>8, <3>1, <4>1, SettledStays
      <3>2. c # at
        BY <1>1, <1>3, BlocksSeen
      <3> QED
        BY <1>1, <1>3, <1>6, <3>1, <3>2 DEF CollectInv
    <2>2. \A i \in 1 .. Len(ir'.ops[at']) : Has(ops', ir'.ops[at'][i])
      BY <1>1, <1>5, <1>6
    <2>3. \A j \in 1 .. Len(ops') : ops'[j] = Ignored \/ ops'[j] \in AllOps'
      BY <1>1, <1>5, <1>6 DEF AllOps
    <2>4. LoadsAreProvided'
      BY <1>5, <1>6 DEF LoadsAreProvided
    <2>5. \A f \in fns'.seen : Has(fns'.todo, f) \/ ir'.entry[f] \in work'.seen
      BY <1>1, <1>3 DEF CollectInv
    <2> QED
      BY <1>1, <2>1, <2>2, <2>3, <2>4, <2>5 DEF CollectInv, EntryPoint
  <1>10. IsLayout(memory)'
    <2>1. PICK mem : mem = memory
      OBVIOUS
    <2> QED
      BY <1>1, <2>1, LayoutStays DEF BackendInv
  <1> QED
    BY <1>1, <1>7, <1>9, <1>10 DEF BackendInv

LEMMA CollectOperationStep ==
    ASSUME BackendInv, CollectOperation
    PROVE  BackendInv'
  <1>1. /\ stage = "memory" /\ ir' = ir /\ target' = target /\ work' = work /\ at' = at
        /\ at # None /\ ops # <<>> /\ ops' = Tail(ops) /\ retMarks' = retMarks /\ nextMark' = nextMark
        /\ TypeInv /\ CollectInv
    BY DEF CollectOperation, BackendInv
  <1>2. PICK op, mem, later : op = Head(ops) /\ mem = memory /\ later = Collected(mem, op)
    OBVIOUS
  <1>3. /\ memory' = later
        /\ fns' = IF IsCall(op) THEN Enqueue(fns, op.fn) ELSE fns
        /\ stage' = IF op.op = "load" /\ memory.start[op.alloc] = None THEN "panic" ELSE stage
    BY <1>2 DEF CollectOperation
  <1>4. /\ op \in StackOps /\ op = ops[1] /\ Tail(ops) \in Seq(StackOps)
        /\ Len(ops) \in Nat \ {0} /\ Len(Tail(ops)) = Len(ops) - 1
        /\ \A i \in 1 .. Len(ops) - 1 : Tail(ops)[i] = ops[i + 1]
        /\ \A y : Has(ops, y) <=> Has(Tail(ops), y) \/ y = op
    <2>1. PICK s : s = ops
      OBVIOUS
    <2>2. s \in Seq(StackOps) /\ s # <<>>
      BY <1>1, <2>1 DEF TypeInv
    <2>3. /\ Head(s) \in StackOps /\ Tail(s) \in Seq(StackOps) /\ Head(s) = s[1]
          /\ Len(s) \in Nat \ {0} /\ Len(Tail(s)) = Len(s) - 1
          /\ \A i \in 1 .. Len(s) - 1 : Tail(s)[i] = s[i + 1]
          /\ \A y : Has(s, y) <=> Has(Tail(s), y) \/ y = Head(s)
      BY <2>2, TailHas
    <2> QED
      BY <1>2, <2>1, <2>3
  <1>5. op = Ignored \/ op \in AllOps
    BY <1>1, <1>4 DEF CollectInv
  <1>6. op.op = "load" => mem.start[op.alloc] # None
    BY <1>1, <1>2, <1>4 DEF CollectInv, LoadsAreProvided
  <1>7. stage' = "memory"
    BY <1>1, <1>2, <1>3, <1>6
  <1>8. IsLayout(later) /\ Keeps(mem, later) /\ Provided(later, op)
    <2>1. IsLayout(mem) /\ ir \in Programs
      BY <1>1, <1>2 DEF BackendInv, TypeInv
    <2>2. /\ IsLayout(Collected(mem, op)) /\ Keeps(mem, Collected(mem, op))
          /\ op.op # "load" => Provided(Collected(mem, op), op)
      BY <1>5, <2>1, CollectedLayout
    <2>3. op.op = "load" => Provided(mem, op)
      BY <1>6 DEF Provided
    <2> QED
      BY <1>2, <1>4, <2>2, <2>3, ProvidedIsKept
  <1>9. /\ fns' \in WorkLists(Functions) /\ fns.seen \subseteq fns'.seen
        /\ IsCall(op) => op.fn \in fns'.seen
        /\ \A f \in fns'.seen : Has(fns'.todo, f) \/ (f \in fns.seen /\ ~Has(fns.todo, f))
    <2>1. fns \in WorkLists(Functions)
      BY <1>1, BlocksSeen
    <2>2. CASE IsCall(op)
      <3>1. PICK w, f : w = fns /\ f = op.fn
        OBVIOUS
      <3>2. f \in Functions /\ w \in WorkLists(Functions)
        BY <1>4, <2>1, <2>2, <3>1, OpFields
      <3>3. /\ Enqueue(w, f) \in WorkLists(Functions) /\ Enqueue(w, f).seen = w.seen \cup {f}
            /\ \A y : Has(Enqueue(w, f).todo, y) <=> Has(w.todo, y) \/ (y = f /\ f \notin w.seen)
        BY <3>2, EnqueueOne
      <3>4. fns' = Enqueue(w, f)
        BY <1>3, <2>2, <3>1
      <3> QED
        BY <3>1, <3>3, <3>4
    <2>3. CASE ~IsCall(op)
      BY <1>3, <2>1, <2>3
    <2> QED
      BY <2>2, <2>3
  <1>10. TypeInv'
    BY <1>1, <1>3, <1>4, <1>7, <1>8, <1>9 DEF TypeInv, IsLayout
  <1>11. Grows
    BY <1>1, <1>2, <1>3, <1>8, <1>9 DEF Grows
  <1>12. SettledOp(op)'
    BY <1>3, <1>8, <1>9 DEF SettledOp, Provided, IsCall
  <1>13. CollectInv'
    <2>1. ASSUME NEW b \in work.seen PROVE Has(work'.todo, b) \/ b = at' \/ Settled(b)'
      <3>1. b \in Blocks
        BY <1>1, BlocksSeen
      <3> QED
        BY <1>1, <1>11, <3>1, SettledStays DEF CollectInv
    <2>2. ASSUME NEW i \in 1 .. Len(ir.ops[at])
          PROVE  SettledOp(ir.ops[at][i])' \/ Has(ops', ir.ops[at][i])
      <3>1. PICK x : x = ir.ops[at][i]
        OBVIOUS
      <3>2. x \in StackOps /\ (SettledOp(x) \/ Has(ops, x))
        BY <1>1, <3>1, Program DEF TypeInv, CollectInv
      <3>3. SettledOp(x)' \/ Has(ops', x)
        BY <1>1, <1>4, <1>11, <1>12, <3>2, SettledOpStays
      <3> QED
        BY <1>1, <3>1, <3>3 DEF SettledOp, Provided, IsCall
    <2>3. ASSUME NEW j \in 1 .. Len(ops') PROVE ops'[j] = Ignored \/ ops'[j] \in AllOps
      <3>1. j + 1 \in 1 .. Len(ops) /\ ops'[j] = ops[j + 1]
        BY <1>1, <1>4
      <3> QED
        BY <1>1, <3>1 DEF CollectInv
    <2>4. ASSUME NEW j \in 1 .. Len(ops'), ops'[j].op = "load"
          PROVE  \/ memory'.start[ops'[j].alloc] # None
                 \/ \E i \in 1 .. j - 1 : ops'[i].op = "store" /\ ops'[i].alloc = ops'[j].alloc
      <3>1. j + 1 \in 1 .. Len(ops) /\ ops'[j] = ops[j + 1]
        BY <1>1, <1>4
      <3>2. PICK load : load = ops'[j]
        OBVIOUS
      <3>3. load \in StackOps /\ load.alloc \in Allocs
        <4>1. load \in StackOps
          BY <1>1, <3>1, <3>2, ElementOfSeq DEF TypeInv
        <4> QED
          BY <2>4, <3>2, <4>1, OpFields
      <3>4. CASE memory.start[load.alloc] # None
        BY <1>2, <1>3, <1>8, <3>2, <3>3, <3>4 DEF Keeps
      <3>5. CASE \E i \in 1 .. j : ops[i].op = "store" /\ ops[i].alloc = load.alloc
        <4>1. PICK i \in 1 .. j : ops[i].op = "store" /\ ops[i].alloc = load.alloc
          BY <3>5
        <4>2. CASE i = 1
          <5>1. op.op = "store" /\ op.alloc = load.alloc
            BY <1>4, <4>1, <4>2
          <5> QED
            BY <1>3, <1>8, <3>2, <5>1 DEF Provided
        <4>3. CASE i # 1
          <5>1. i - 1 \in 1 .. j - 1 /\ ops'[i - 1] = ops[i]
            BY <1>1, <1>4, <3>1, <4>3
          <5> QED
            BY <3>2, <4>1, <5>1
        <4> QED
          BY <4>2, <4>3
      <3>6. \/ memory.start[load.alloc] # None
            \/ \E i \in 1 .. (j + 1) - 1 : ops[i].op = "store" /\ ops[i].alloc = load.alloc
        BY <1>1, <2>4, <3>1, <3>2 DEF CollectInv, LoadsAreProvided
      <3> QED
        BY <3>4, <3>5, <3>6
    <2>5. \A f \in fns'.seen : Has(fns'.todo, f) \/ ir'.entry[f] \in work'.seen
      BY <1>1, <1>9 DEF CollectInv
    <2>6. EntryPoint' \in fns'.seen
      BY <1>1, <1>9 DEF CollectInv, EntryPoint
    <2>7. AllOps' = AllOps
      BY <1>1 DEF AllOps
    <2>8. LoadsAreProvided'
      BY <2>4 DEF LoadsAreProvided
    <2> QED
      BY <1>1, <2>1, <2>2, <2>3, <2>5, <2>6, <2>7, <2>8 DEF CollectInv
  <1>14. IsLayout(memory)'
    BY <1>1, <1>3, <1>8, LayoutStays
  <1> QED
    BY <1>7, <1>10, <1>13, <1>14 DEF BackendInv

LEMMA CollectControlStep ==
    ASSUME BackendInv, CollectControl
    PROVE  BackendInv'
  <1>1. /\ stage = "memory" /\ stage' = "memory" /\ ir' = ir /\ target' = target /\ fns' = fns
        /\ at # None /\ at' = None /\ ops = <<>> /\ ops' = ops /\ retMarks' = retMarks /\ nextMark' = nextMark
        /\ TypeInv /\ CollectInv
    BY DEF CollectControl, BackendInv
  <1>2. PICK control, mem, later, w :
           /\ control = ir.control[at] /\ mem = memory /\ w = work
           /\ later = IF control.kind = "switch" /\ mem.switchStore = None
                      THEN [Bump(mem, WordSize) EXCEPT !.switchStore = mem.next]
                      ELSE mem
    OBVIOUS
  <1>3. memory' = later /\ work' = EnqueueAll(w, Successors(control))
    BY <1>2 DEF CollectControl
  <1>4. at \in Blocks /\ control \in Controls /\ Successors(control) \in Seq(Blocks)
    BY <1>1, <1>2, Program, SuccessorsAreBlocks DEF TypeInv
  <1>5. IsLayout(later) /\ Keeps(mem, later) /\ (control.kind = "switch" => later.switchStore # None)
    <2>1. IsLayout(mem)
      BY <1>2 DEF BackendInv
    <2>2. CASE control.kind = "switch" /\ mem.switchStore = None
      <3>1. later = [Bump(mem, WordSize) EXCEPT !.switchStore = mem.next]
        BY <1>2, <2>2
      <3> QED
        BY <2>1, <2>2, <3>1, SwitchStoreLayout
    <2>3. CASE ~(control.kind = "switch" /\ mem.switchStore = None)
      BY <1>2, <2>1, <2>3 DEF Keeps
    <2> QED
      BY <2>2, <2>3
  <1>6. /\ work' \in WorkLists(Blocks)
        /\ work'.seen = work.seen \cup {Successors(control)[k] : k \in 1 .. Len(Successors(control))}
        /\ \A y : Has(work'.todo, y)
                  <=> Has(work.todo, y)
                      \/ (y \notin work.seen /\ \E k \in 1 .. Len(Successors(control)) : y = Successors(control)[k])
    <2>1. PICK xs : xs = Successors(control)
      OBVIOUS
    <2>2. w \in WorkLists(Blocks) /\ xs \in Seq(Blocks)
      BY <1>1, <1>2, <1>4, <2>1, BlocksSeen
    <2>3. /\ EnqueueAll(w, xs) \in WorkLists(Blocks)
          /\ EnqueueAll(w, xs).seen = w.seen \cup {xs[i] : i \in 1 .. Len(xs)}
          /\ \A y : Has(EnqueueAll(w, xs).todo, y)
                    <=> Has(w.todo, y) \/ (y \notin w.seen /\ \E i \in 1 .. Len(xs) : y = xs[i])
      BY <2>2, EnqueueMany
    <2> QED
      BY <1>2, <1>3, <2>1, <2>3
  <1>7. TypeInv'
    BY <1>1, <1>3, <1>5, <1>6 DEF TypeInv, IsLayout
  <1>8. Grows
    BY <1>1, <1>2, <1>3, <1>5, <1>6 DEF Grows
  <1>9. PICK done : done = at
    OBVIOUS
  <1>10. Settled(done)'
    <2>1. ASSUME NEW i \in 1 .. Len(ir.ops[done]) PROVE SettledOp(ir.ops[done][i])'
      <3>1. PICK x : x = ir.ops[done][i]
        OBVIOUS
      <3>2. x \in StackOps /\ (SettledOp(x) \/ Has(ops, x))
        BY <1>1, <1>4, <1>9, <3>1, Program DEF TypeInv, CollectInv
      <3>3. ~Has(ops, x)
        BY <1>1 DEF Has
      <3>4. SettledOp(x)'
        BY <1>8, <3>2, <3>3, SettledOpStays
      <3> QED
        BY <1>1, <3>1, <3>4 DEF SettledOp, Provided, IsCall
    <2>2. Successors(control) = Successors(ir'.control[done]) /\ ir'.control[done] = control
      BY <1>1, <1>2, <1>9
    <2> QED
      BY <1>1, <1>3, <1>5, <1>6, <2>1, <2>2 DEF Settled
  <1>11. CollectInv'
    <2>1. ASSUME NEW b \in work'.seen PROVE Has(work'.todo, b) \/ Settled(b)'
      <3>1. CASE b \in work.seen /\ b # at
        <4>1. b \in Blocks
          BY <1>1, <3>1, BlocksSeen
        <4> QED
          BY <1>1, <1>6, <1>8, <3>1, <4>1, SettledStays DEF CollectInv
      <3>2. CASE b = at
        BY <1>9, <1>10, <3>2
      <3>3. CASE b \notin work.seen
        BY <1>6, <3>3
      <3> QED
        BY <3>1, <3>2, <3>3
    <2>2. \A f \in fns'.seen : Has(fns'.todo, f) \/ ir'.entry[f] \in work'.seen
      BY <1>1, <1>6 DEF CollectInv
    <2> QED
      BY <1>1, <2>1, <2>2 DEF CollectInv, EntryPoint
  <1>12. IsLayout(memory)'
    BY <1>1, <1>3, <1>5, LayoutStays
  <1> QED
    BY <1>1, <1>7, <1>11, <1>12 DEF BackendInv

(* When no function and no block waits, the blocks seen are what the       *)
(* emitter can reach, and have their memory.                               *)
LEMMA MemoryDoneServed ==
    ASSUME BackendInv, MemoryDone
    PROVE  work.seen \in SUBSET Blocks /\ Served(work.seen)
  <1>1. /\ stage = "memory" /\ at = None /\ work.todo = <<>> /\ fns.todo = <<>>
        /\ TypeInv /\ CollectInv
    BY DEF MemoryDone, BackendInv
  <1>2. \A x : ~Has(work.todo, x) /\ ~Has(fns.todo, x)
    BY <1>1 DEF Has
  <1>3. \A f \in fns.seen : ir.entry[f] \in work.seen
    BY <1>1, <1>2 DEF CollectInv
  <1>4. work.seen \subseteq Blocks /\ None \notin Blocks
    BY <1>1, BlocksSeen
  <1>5. \A b \in work.seen : Settled(b)
    BY <1>1, <1>2, <1>4 DEF CollectInv
  <1>6. ir.entry[EntryPoint] \in work.seen
    BY <1>1, <1>3 DEF CollectInv
  <1> QED
    BY <1>3, <1>4, <1>5, <1>6 DEF Served, Settled, SettledOp

-----------------------------------------------------------------------------
(* The emitter's steps. *)

LEMMA ServedStays ==
    ASSUME NEW V, Served(V), ir' = ir, memory' = memory, target' = target
    PROVE  Served(V)'
BY DEF Served, Provided, EntryPoint, IsCall

LEMMA EntryIsBlock ==
    ASSUME TypeInv
    PROVE  EntryPoint \in Functions /\ ir.entry[EntryPoint] \in Blocks
BY Program DEF TypeInv, EntryPoint

LEMMA StartRuntimeDatasStep ==
    ASSUME BackendInv, StartRuntimeDatas
    PROVE  BackendInv'
  <1>1. /\ MemoryDone /\ stage' = "runtime_datas" /\ ir' = ir /\ target' = target /\ memory' = memory
        /\ at' = at /\ ops' = ops /\ retMarks' = retMarks /\ nextMark' = nextMark /\ TypeInv
    BY DEF StartRuntimeDatas, BackendInv
  <1>2. TypeInv'
    BY <1>1 DEF TypeInv, MemoryDone, Stages
  <1>3. PICK V \in SUBSET Blocks : Served(V)
    BY <1>1, MemoryDoneServed
  <1>4. Served(V)'
    BY <1>1, <1>3, ServedStays
  <1>5. IsLayout(memory)'
    <2>1. PICK mem : mem = memory
      OBVIOUS
    <2> QED
      BY <1>1, <2>1, LayoutStays DEF BackendInv
  <1> QED
    BY <1>1, <1>2, <1>4, <1>5 DEF BackendInv, Blocks

LEMMA CollectRuntimeDatasStep ==
    ASSUME BackendInv, CollectRuntimeDatas
    PROVE  BackendInv'
  <1>1. /\ stage = "runtime_datas" /\ stage' = stage /\ ir' = ir /\ target' = target /\ memory' = memory
        /\ at' = at /\ ops' = ops /\ retMarks' = retMarks /\ nextMark' = nextMark /\ TypeInv
    BY DEF CollectRuntimeDatas, BackendInv
  <1>2. TypeInv'
    BY <1>1 DEF TypeInv
  <1>3. PICK V \in SUBSET Blocks : Served(V)
    BY <1>1 DEF BackendInv
  <1>4. Served(V)'
    BY <1>1, <1>3, ServedStays
  <1>5. IsLayout(memory)'
    <2>1. PICK mem : mem = memory
      OBVIOUS
    <2> QED
      BY <1>1, <2>1, LayoutStays DEF BackendInv
  <1> QED
    BY <1>1, <1>2, <1>4, <1>5 DEF BackendInv, Blocks

LEMMA StartCodeStep ==
    ASSUME BackendInv, NEW a, StartCode(a), at = None,
           NEW V \in SUBSET Blocks, Served(V)
    PROVE  BackendInv'
  <1>1. /\ stage' = "code" /\ ir' = ir /\ target' = target /\ memory' = memory
        /\ at' = None /\ ops' = ops /\ retMarks' = <<>> /\ nextMark' = nextMark + NumBlocks /\ TypeInv
    BY DEF StartCode, BackendInv
  <1>2. PICK entry : entry = ir.entry[EntryPoint]
    OBVIOUS
  <1>3. /\ work' \in WorkLists(Blocks) /\ work'.seen = {entry} /\ entry \in V
        /\ \A y : Has(work'.todo, y) => y = entry
    <2>1. entry \in Blocks /\ entry \in V
      BY <1>1, <1>2, EntryIsBlock DEF Served
    <2>2. PICK w : w = NoWork
      OBVIOUS
    <2>3. w \in WorkLists(Blocks) /\ w.seen = {} /\ \A y : ~Has(w.todo, y)
      BY <2>2, NoWorkIsEmpty
    <2>4. /\ Enqueue(w, entry) \in WorkLists(Blocks) /\ Enqueue(w, entry).seen = w.seen \cup {entry}
          /\ \A y : Has(Enqueue(w, entry).todo, y) <=> Has(w.todo, y) \/ (y = entry /\ entry \notin w.seen)
      BY <2>1, <2>3, EnqueueOne
    <2>5. work' = Enqueue(w, entry)
      BY <1>2, <2>2 DEF StartCode
    <2> QED
      BY <2>1, <2>3, <2>4, <2>5
  <1>4. nextMark' \in Nat /\ <<>> \in Seq([call : Nat, mark : Nat])
    BY <1>1, NumbersAssumption DEF TypeInv
  <1>5. TypeInv'
    BY <1>1, <1>3, <1>4 DEF TypeInv, Stages
  <1>6. Served(V)'
    BY <1>1, ServedStays
  <1>7. StaysIn(V)'
    BY <1>1, <1>3 DEF StaysIn, Has
  <1>8. IsLayout(memory)'
    <2>1. PICK mem : mem = memory
      OBVIOUS
    <2> QED
      BY <1>1, <2>1, LayoutStays DEF BackendInv
  <1> QED
    BY <1>1, <1>5, <1>6, <1>7, <1>8 DEF BackendInv, EmitInv, Blocks

LEMMA EmitBlockStep ==
    ASSUME BackendInv, EmitBlock
    PROVE  BackendInv'
  <1>1. /\ stage = "code" /\ stage' = "code" /\ ir' = ir /\ target' = target /\ memory' = memory
        /\ at = None /\ at' = Last(work.todo) /\ ops' = ir.ops[Last(work.todo)] /\ work' = Pop(work)
        /\ work.todo # <<>> /\ retMarks' = retMarks /\ nextMark' = nextMark
        /\ TypeInv /\ EmitInv
    BY DEF EmitBlock, BackendInv
  <1>2. PICK V \in SUBSET Blocks : Served(V) /\ StaysIn(V)
    BY <1>1 DEF EmitInv
  <1>3. PICK w, b : w = work /\ b = Last(work.todo)
    OBVIOUS
  <1>4. /\ work' \in WorkLists(Blocks) /\ work'.seen = work.seen /\ b \in Blocks
        /\ \A y : Has(work.todo, y) <=> Has(work'.todo, y) \/ y = b
    <2>1. w \in WorkLists(Blocks) /\ w.todo # <<>>
      BY <1>1, <1>3 DEF TypeInv
    <2>2. /\ Pop(w) \in WorkLists(Blocks) /\ Pop(w).seen = w.seen /\ Last(w.todo) \in Blocks
          /\ \A y : Has(w.todo, y) <=> Has(Pop(w).todo, y) \/ y = Last(w.todo)
      BY <2>1, PopOne
    <2> QED
      BY <1>1, <1>3, <2>2
  <1>5. b \in V /\ \A y : Has(work'.todo, y) => y \in V
    BY <1>2, <1>4 DEF StaysIn, Has
  <1>6. PICK s : s = ir.ops[b]
    OBVIOUS
  <1>7. s \in Seq(StackOps) /\ IsScheduled(s) /\ at' = b /\ ops' = s
    BY <1>1, <1>3, <1>4, <1>6, Program DEF TypeInv
  <1>8. TypeInv'
    BY <1>1, <1>4, <1>7 DEF TypeInv, Stages
  <1>9. Served(V)'
    BY <1>1, <1>2, ServedStays
  <1>10. StaysIn(V)'
    BY <1>1, <1>2, <1>4, <1>5, <1>6, <1>7 DEF StaysIn, Has
  <1>11. ReturnsArePushed'
    BY <1>7 DEF ReturnsArePushed, IsScheduled, IsCallOf, IsReturnOf
  <1>12. IsLayout(memory)'
    <2>1. PICK mem : mem = memory
      OBVIOUS
    <2> QED
      BY <1>1, <2>1, LayoutStays DEF BackendInv
  <1> QED
    BY <1>1, <1>8, <1>9, <1>10, <1>11, <1>12 DEF BackendInv, EmitInv, Blocks

(* Taking a return mark leaves those of the other calls. *)
LEMMA WithoutReturnKeeps ==
    ASSUME retMarks \in Seq([call : Nat, mark : Nat]), NEW call,
           \E r \in 1 .. Len(retMarks) : retMarks[r].call = call
    PROVE  /\ WithoutReturn(call) \in Seq([call : Nat, mark : Nat])
           /\ \A r \in 1 .. Len(retMarks) : retMarks[r].call # call =>
                 \E q \in 1 .. Len(WithoutReturn(call)) : WithoutReturn(call)[q].call = retMarks[r].call
  <1>1. PICK s, R : s = retMarks /\ R = [call : Nat, mark : Nat]
    OBVIOUS
  <1>2. s \in Seq(R) /\ Len(s) \in Nat /\ \A i \in 1 .. Len(s) : s[i] \in R
    BY <1>1, LenProperties, ElementOfSeq
  <1>3. PICK k : k = ReturnIndex(call)
    OBVIOUS
  <1>4. k \in 1 .. Len(s) /\ s[k].call = call
    <2> DEFINE T == {i \in 1 .. Len(s) : s[i].call = call}
    <2>1. T \subseteq Nat /\ T # {}
      <3>1. \E i \in 1 .. Len(s) : s[i].call = call
        BY <1>1
      <3>2. T \subseteq Nat
        OBVIOUS
      <3>3. T # {}
        BY <3>1
      <3> QED
        BY <3>2, <3>3
    <2>2. PICK i \in T : \A j \in T : i <= j
      BY <2>1, LeastElement
    <2>3. i \in 1 .. Len(s) /\ s[i].call = call /\ \A j \in 1 .. i - 1 : s[j].call # call
      BY <1>2, <2>2
    <2> QED
      BY <1>1, <1>3, <2>3 DEF ReturnIndex
  <1>5. PICK t : t = [s EXCEPT ![k] = Last(s)]
    OBVIOUS
  <1>6. s # <<>> /\ Last(s) = s[Len(s)] /\ Len(s) \in 1 .. Len(s)
    BY <1>2, <1>4 DEF Last
  <1>7. t \in Seq(R) /\ Len(t) = Len(s) /\ \A i \in 1 .. Len(s) : t[i] = IF i = k THEN s[Len(s)] ELSE s[i]
    <2>1. s[Len(s)] \in R
      BY <1>2, <1>6
    <2> QED
      BY <1>2, <1>4, <1>5, <1>6, <2>1, ExceptSeq
  <1>8. t # <<>>
    BY <1>6, <1>7, EmptySeq
  <1>9. WithoutReturn(call) = Front(t)
    BY <1>1, <1>3, <1>5 DEF WithoutReturn
  <1>10. /\ Front(t) \in Seq(R) /\ Len(Front(t)) = Len(s) - 1
         /\ \A m \in 1 .. Len(s) - 1 : Front(t)[m] = t[m]
    BY <1>7, <1>8, FrontHas, FrontProperties
  <1>11. ASSUME NEW r \in 1 .. Len(s), s[r].call # call
         PROVE  \E q \in 1 .. Len(Front(t)) : Front(t)[q].call = s[r].call
    <2>1. CASE r < Len(s)
      <3>1. r \in 1 .. Len(s) - 1 /\ r # k
        BY <1>2, <1>4, <1>11, <2>1
      <3> QED
        BY <1>7, <1>10, <3>1
    <2>2. CASE r = Len(s)
      <3>1. k \in 1 .. Len(s) - 1
        BY <1>2, <1>4, <1>11, <2>2
      <3>2. Front(t)[k] = s[r] /\ k \in 1 .. Len(Front(t))
        BY <1>4, <1>7, <1>10, <2>2, <3>1
      <3> QED
        BY <3>2
    <2> QED
      BY <1>2, <2>1, <2>2
  <1> QED
    BY <1>1, <1>9, <1>10, <1>11

LEMMA EmitOperationStep ==
    ASSUME BackendInv, EmitOperation
    PROVE  BackendInv'
  <1>1. /\ stage = "code" /\ ir' = ir /\ target' = target /\ memory' = memory
        /\ at # None /\ at' = at /\ ops # <<>> /\ ops' = Tail(ops)
        /\ TypeInv /\ EmitInv
    BY DEF EmitOperation, BackendInv
  <1>2. PICK V \in SUBSET Blocks : Served(V) /\ StaysIn(V)
    BY <1>1 DEF EmitInv
  <1>3. PICK op : op = Head(ops)
    OBVIOUS
  <1>4. /\ op \in StackOps /\ op = ops[1] /\ Tail(ops) \in Seq(StackOps)
        /\ Len(ops) \in Nat \ {0} /\ Len(Tail(ops)) = Len(ops) - 1
        /\ \A i \in 1 .. Len(ops) - 1 : Tail(ops)[i] = ops[i + 1]
    <2>1. PICK s : s = ops
      OBVIOUS
    <2>2. s \in Seq(StackOps) /\ s # <<>>
      BY <1>1, <2>1 DEF TypeInv
    <2>3. /\ Head(s) \in StackOps /\ Tail(s) \in Seq(StackOps) /\ Head(s) = s[1]
          /\ Len(s) \in Nat \ {0} /\ Len(Tail(s)) = Len(s) - 1
          /\ \A i \in 1 .. Len(s) - 1 : Tail(s)[i] = s[i + 1]
      BY <2>2, TailHas
    <2> QED
      BY <1>3, <2>1, <2>3
  <1>5. Provided(memory, op) /\ (IsCall(op) => ir.entry[op.fn] \in V)
    <2>1. at \in V /\ Has(ir.ops[at], op)
      BY <1>1, <1>2, <1>4 DEF StaysIn
    <2>2. PICK i \in 1 .. Len(ir.ops[at]) : ir.ops[at][i] = op
      BY <2>1 DEF Has
    <2> QED
      BY <1>2, <2>1, <2>2 DEF Served
  <1>6. op.op = "icall" => \E r \in 1 .. Len(retMarks) : retMarks[r].call = op.call
    <2>1. 1 \in 1 .. Len(ops) /\ 1 .. 1 - 1 = {}
      BY <1>4
    <2> QED
      BY <1>1, <1>4, <2>1 DEF EmitInv, ReturnsArePushed
  <1>7. Expected(op)
    BY <1>5, <1>6 DEF Expected, Provided
  <1>8. stage' = StageAfter(op) /\ StageAfter(op) \in {"code", "refused"}
    BY <1>3, <1>7 DEF EmitOperation, StageAfter
  <1>9. IsLayout(memory)'
    <2>1. PICK mem : mem = memory
      OBVIOUS
    <2> QED
      BY <1>1, <2>1, LayoutStays DEF BackendInv
  <1>10. CASE stage' # "code"
    <2>1. stage' = "refused" /\ retMarks' = retMarks /\ nextMark' = nextMark
      BY <1>3, <1>8, <1>10 DEF EmitOperation
    <2>2. TypeInv'
      BY <1>1, <1>4, <2>1 DEF TypeInv, Stages
    <2> QED
      BY <1>9, <2>1, <2>2 DEF BackendInv
  <1>11. CASE stage' = "code"
    <2>1. /\ work' = IF IsCall(op) THEN Enqueue(work, ir.entry[op.fn]) ELSE work
          /\ retMarks' = CASE op.op = "ret_push" -> Append(retMarks, [call |-> op.call, mark |-> nextMark])
                           [] op.op = "icall" -> WithoutReturn(op.call)
                           [] OTHER -> retMarks
          /\ nextMark' = IF op.op = "ret_push" THEN nextMark + 1 ELSE nextMark
      BY <1>3, <1>8, <1>11 DEF EmitOperation
    <2>2. /\ work' \in WorkLists(Blocks) /\ work'.seen \subseteq V
          /\ \A y : Has(work'.todo, y) => y \in V
      <3>1. work \in WorkLists(Blocks) /\ work.seen \subseteq V /\ \A y : Has(work.todo, y) => y \in V
        BY <1>1, <1>2 DEF TypeInv, StaysIn, Has
      <3>2. CASE IsCall(op)
        <4>1. PICK w, entry : w = work /\ entry = ir.entry[op.fn]
          OBVIOUS
        <4>2. entry \in V /\ entry \in Blocks /\ w \in WorkLists(Blocks)
          BY <1>5, <3>1, <3>2, <4>1
        <4>3. /\ Enqueue(w, entry) \in WorkLists(Blocks) /\ Enqueue(w, entry).seen = w.seen \cup {entry}
              /\ \A y : Has(Enqueue(w, entry).todo, y) <=> Has(w.todo, y) \/ (y = entry /\ entry \notin w.seen)
          BY <4>2, EnqueueOne
        <4>4. work' = Enqueue(w, entry)
          BY <2>1, <3>2, <4>1
        <4> QED
          BY <3>1, <4>1, <4>2, <4>3, <4>4
      <3>3. CASE ~IsCall(op)
        BY <2>1, <3>1, <3>3
      <3> QED
        BY <3>2, <3>3
    <2>3. /\ retMarks' \in Seq([call : Nat, mark : Nat]) /\ nextMark' \in Nat
          /\ op.op = "ret_push" => \E r \in 1 .. Len(retMarks') : retMarks'[r].call = op.call
          /\ \A r \in 1 .. Len(retMarks) : ~IsCallOf(op, retMarks[r].call) =>
                \E q \in 1 .. Len(retMarks') : retMarks'[q].call = retMarks[r].call
      <3>1. retMarks \in Seq([call : Nat, mark : Nat]) /\ nextMark \in Nat
        BY <1>1 DEF TypeInv
      <3>2. CASE op.op = "ret_push"
        <4>1. PICK s, R, e : s = retMarks /\ R = [call : Nat, mark : Nat] /\ e = [call |-> op.call, mark |-> nextMark]
          OBVIOUS
        <4>2. s \in Seq(R) /\ e \in R /\ e.call = op.call
          BY <1>4, <3>1, <3>2, <4>1, OpFields
        <4>3. /\ Append(s, e) \in Seq(R) /\ Len(s) \in Nat /\ Len(Append(s, e)) = Len(s) + 1
              /\ \A i \in 1 .. Len(s) : Append(s, e)[i] = s[i]
              /\ Append(s, e)[Len(s) + 1] = e
          BY <4>2, AppendProperties, LenProperties
        <4>4. Len(s) + 1 \in 1 .. Len(s) + 1 /\ 1 .. Len(s) \subseteq 1 .. Len(s) + 1
          BY <4>3
        <4>5. retMarks' = Append(s, e) /\ nextMark' = nextMark + 1
          BY <2>1, <3>2, <4>1
        <4> QED
          BY <3>1, <4>1, <4>2, <4>3, <4>4, <4>5
      <3>3. CASE op.op = "icall"
        <4>1. PICK c : c = op.call
          OBVIOUS
        <4>2. /\ WithoutReturn(c) \in Seq([call : Nat, mark : Nat])
              /\ \A r \in 1 .. Len(retMarks) : retMarks[r].call # c =>
                    \E q \in 1 .. Len(WithoutReturn(c)) : WithoutReturn(c)[q].call = retMarks[r].call
          BY <1>6, <3>1, <3>3, <4>1, WithoutReturnKeeps
        <4>3. retMarks' = WithoutReturn(c) /\ nextMark' = nextMark
          BY <2>1, <3>3, <4>1
        <4> QED
          BY <3>1, <3>3, <4>1, <4>2, <4>3 DEF IsCallOf
      <3>4. CASE op.op # "ret_push" /\ op.op # "icall"
        BY <2>1, <3>1, <3>4
      <3> QED
        BY <3>2, <3>3, <3>4
    <2>4. TypeInv'
      BY <1>1, <1>4, <1>11, <2>2, <2>3 DEF TypeInv, Stages
    <2>5. Served(V)'
      BY <1>1, <1>2, ServedStays
    <2>6. StaysIn(V)'
      <3>1. ASSUME NEW j \in 1 .. Len(ops') PROVE Has(ir.ops[at], ops'[j])
        <4>1. j + 1 \in 1 .. Len(ops) /\ ops'[j] = ops[j + 1]
          BY <1>1, <1>4
        <4> QED
          BY <1>1, <1>2, <4>1 DEF StaysIn
      <3> QED
        BY <1>1, <1>2, <2>2, <3>1 DEF StaysIn, Has
    <2>7. ReturnsArePushed'
      <3>1. SUFFICES ASSUME NEW j \in 1 .. Len(ops'), ops'[j].op = "icall"
                     PROVE  \/ \E i \in 1 .. j - 1 :
                                  /\ ops'[i].op = "ret_push" /\ ops'[i].call = ops'[j].call
                                  /\ \A k \in i .. j - 1 : ~IsCallOf(ops'[k], ops'[j].call)
                            \/ /\ \E r \in 1 .. Len(retMarks') : retMarks'[r].call = ops'[j].call
                               /\ \A k \in 1 .. j - 1 : ~IsCallOf(ops'[k], ops'[j].call)
        BY DEF ReturnsArePushed, IsCallOf
      <3>2. PICK c : c = ops'[j].call
        OBVIOUS
      <3>3. /\ j + 1 \in 1 .. Len(ops) /\ ops[j + 1].op = "icall" /\ ops[j + 1].call = c
            /\ \A k \in 1 .. j : ops'[k] = ops[k + 1]
        BY <1>1, <1>4, <3>1, <3>2
      <3>4. CASE \E i \in 1 .. j :
                    /\ ops[i].op = "ret_push" /\ ops[i].call = c
                    /\ \A k \in i .. j : ~IsCallOf(ops[k], c)
        <4>1. PICK i \in 1 .. j : /\ ops[i].op = "ret_push" /\ ops[i].call = c
                                  /\ \A k \in i .. j : ~IsCallOf(ops[k], c)
          BY <3>4
        <4>2. CASE i = 1
          <5>1. \E r \in 1 .. Len(retMarks') : retMarks'[r].call = c
            BY <1>4, <2>3, <4>1, <4>2
          <5>2. \A k \in 1 .. j - 1 : ~IsCallOf(ops'[k], c)
            <6>1. \A k \in 1 .. j - 1 : k \in 1 .. j /\ k + 1 \in i .. j
              BY <4>2
            <6> QED
              BY <3>3, <4>1, <6>1
          <5> QED
            BY <3>2, <5>1, <5>2
        <4>3. CASE i # 1
          <5>1. i - 1 \in 1 .. j - 1 /\ ops'[i - 1] = ops[i]
            <6>1. i - 1 \in 1 .. j /\ (i - 1) + 1 = i
              BY <4>3
            <6> QED
              BY <3>3, <4>3, <6>1
          <5>2. \A k \in i - 1 .. j - 1 : ~IsCallOf(ops'[k], c)
            <6>1. \A k \in i - 1 .. j - 1 : k \in 1 .. j /\ k + 1 \in i .. j
              BY <4>3
            <6> QED
              BY <3>3, <4>1, <6>1
          <5> QED
            BY <3>2, <4>1, <5>1, <5>2
        <4> QED
          BY <4>2, <4>3
      <3>5. CASE /\ \E r \in 1 .. Len(retMarks) : retMarks[r].call = c
                 /\ \A k \in 1 .. j : ~IsCallOf(ops[k], c)
        <4>1. ~IsCallOf(op, c)
          BY <1>4, <3>5
        <4>2. \E r \in 1 .. Len(retMarks') : retMarks'[r].call = c
          BY <2>3, <3>5, <4>1
        <4>3. \A k \in 1 .. j - 1 : ~IsCallOf(ops'[k], c)
          <5>1. \A k \in 1 .. j - 1 : k \in 1 .. j /\ k + 1 \in 1 .. j
            OBVIOUS
          <5> QED
            BY <3>3, <3>5, <5>1
        <4> QED
          BY <3>2, <4>2, <4>3
      <3>6. (j + 1) - 1 = j
        OBVIOUS
      <3>7. \/ \E i \in 1 .. j : /\ ops[i].op = "ret_push" /\ ops[i].call = c
                                 /\ \A k \in i .. j : ~IsCallOf(ops[k], c)
            \/ /\ \E r \in 1 .. Len(retMarks) : retMarks[r].call = c
               /\ \A k \in 1 .. j : ~IsCallOf(ops[k], c)
        <4>1. PICK n : n = j + 1
          OBVIOUS
        <4>2. n \in 1 .. Len(ops) /\ ops[n].op = "icall" /\ ops[n].call = c /\ n - 1 = j
          BY <3>3, <3>6, <4>1
        <4>3. ReturnsArePushed
          BY <1>1 DEF EmitInv
        <4> QED
          BY <4>2, <4>3 DEF ReturnsArePushed
      <3> QED
        BY <3>4, <3>5, <3>7
    <2> QED
      BY <1>9, <1>11, <2>4, <2>5, <2>6, <2>7 DEF BackendInv, EmitInv, Blocks
  <1> QED
    BY <1>10, <1>11

LEMMA EmitControlStep ==
    ASSUME BackendInv, EmitControl
    PROVE  BackendInv'
  <1>1. /\ stage = "code" /\ ir' = ir /\ target' = target /\ memory' = memory
        /\ at # None /\ at' = None /\ ops' = ops /\ retMarks' = retMarks /\ nextMark' = nextMark
        /\ TypeInv /\ EmitInv
    BY DEF EmitControl, BackendInv
  <1>2. PICK V \in SUBSET Blocks : Served(V) /\ StaysIn(V)
    BY <1>1 DEF EmitInv
  <1>3. PICK c, w, xs : c = ir.control[at] /\ w = work /\ xs = Successors(c)
    OBVIOUS
  <1>4. at \in V /\ at \in Blocks /\ c \in Controls /\ xs \in Seq(Blocks)
    BY <1>1, <1>2, <1>3, Program, SuccessorsAreBlocks DEF TypeInv, StaysIn
  <1>5. /\ c.kind = "switch" => memory.switchStore # None
        /\ \A k \in 1 .. Len(xs) : xs[k] \in V
    BY <1>2, <1>3, <1>4 DEF Served
  <1>6. stage' = "code" /\ work' = EnqueueAll(w, xs)
    BY <1>1, <1>3, <1>5 DEF EmitControl
  <1>7. /\ work' \in WorkLists(Blocks) /\ work'.seen \subseteq V
        /\ \A y : Has(work'.todo, y) => y \in V
    <2>1. w \in WorkLists(Blocks) /\ w.seen \subseteq V /\ \A y : Has(w.todo, y) => y \in V
      BY <1>1, <1>2, <1>3 DEF TypeInv, StaysIn, Has
    <2>2. /\ EnqueueAll(w, xs) \in WorkLists(Blocks)
          /\ EnqueueAll(w, xs).seen = w.seen \cup {xs[i] : i \in 1 .. Len(xs)}
          /\ \A y : Has(EnqueueAll(w, xs).todo, y)
                    <=> Has(w.todo, y) \/ (y \notin w.seen /\ \E i \in 1 .. Len(xs) : y = xs[i])
      BY <1>4, <2>1, EnqueueMany
    <2> QED
      BY <1>5, <1>6, <2>1, <2>2
  <1>8. TypeInv'
    BY <1>1, <1>6, <1>7 DEF TypeInv, Stages
  <1>9. Served(V)'
    BY <1>1, <1>2, ServedStays
  <1>10. StaysIn(V)'
    BY <1>1, <1>7 DEF StaysIn, Has
  <1>11. IsLayout(memory)'
    <2>1. PICK mem : mem = memory
      OBVIOUS
    <2> QED
      BY <1>1, <2>1, LayoutStays DEF BackendInv
  <1> QED
    BY <1>1, <1>6, <1>8, <1>9, <1>10, <1>11 DEF BackendInv, EmitInv, Blocks

(* A compilation begins with a layout of its own. *)
LEMMA AFunctionWaits ==
    ASSUME NEW f \in Functions
    PROVE  /\ Enqueue(NoWork, f) \in WorkLists(Functions)
           /\ Enqueue(NoWork, f).seen = {f} /\ Has(Enqueue(NoWork, f).todo, f)
  <1>1. PICK w : w = NoWork
    OBVIOUS
  <1>2. w \in WorkLists(Functions) /\ w.seen = {}
    BY <1>1, NoWorkIsEmpty
  <1>3. /\ Enqueue(w, f) \in WorkLists(Functions) /\ Enqueue(w, f).seen = w.seen \cup {f}
        /\ \A y : Has(Enqueue(w, f).todo, y) <=> Has(w.todo, y) \/ (y = f /\ f \notin w.seen)
    BY <1>2, EnqueueOne
  <1> QED
    BY <1>1, <1>2, <1>3

LEMMA FinishInitStep ==
    ASSUME BackendInv, FinishInit
    PROVE  BackendInv'
  <1>1. /\ stage = "code" /\ ir' = ir /\ target = "init" /\ at = None /\ at' = None
        /\ ops' = ops /\ retMarks' = retMarks /\ nextMark' = nextMark /\ TypeInv
    BY DEF FinishInit, CodeDone, BackendInv
  <1>2. CASE ir.main = None
    <2>1. stage' = "assemble" /\ target' = target /\ memory' = memory
      BY <1>2 DEF FinishInit
    <2>2. TypeInv'
      BY <1>1, <2>1 DEF TypeInv, Stages
    <2>3. IsLayout(memory)'
      <3>1. PICK mem : mem = memory
        OBVIOUS
      <3> QED
        BY <1>1, <2>1, <3>1, LayoutStays DEF BackendInv
    <2> QED
      BY <2>1, <2>2, <2>3 DEF BackendInv
  <1>3. CASE ir.main # None
    <2>1. /\ stage' = "memory" /\ target' = "main" /\ memory' = NoMemory
          /\ fns' = Enqueue(NoWork, ir.main) /\ work' = NoWork
      BY <1>3 DEF FinishInit
    <2>2. PICK f : f = ir.main
      OBVIOUS
    <2>3. f \in Functions
      BY <1>1, <1>3, <2>2, Program DEF TypeInv
    <2>4. fns' \in WorkLists(Functions) /\ fns'.seen = {f} /\ Has(fns'.todo, f)
      BY <2>1, <2>2, <2>3, AFunctionWaits
    <2>5. work' \in WorkLists(Blocks) /\ work'.seen = {}
      BY <2>1, NoWorkIsEmpty
    <2>6. IsLayout(memory)'
      <3>1. PICK mem : mem = NoMemory
        OBVIOUS
      <3> QED
        BY <1>1, <2>1, <3>1, LayoutStays, NoMemoryIsLayout
    <2>7. TypeInv'
      BY <1>1, <1>3, <2>1, <2>4, <2>5, <2>6 DEF TypeInv, Stages, IsLayout
    <2>8. CollectInv'
      BY <1>1, <2>1, <2>2, <2>4, <2>5 DEF CollectInv, EntryPoint
    <2> QED
      BY <2>1, <2>6, <2>7, <2>8 DEF BackendInv
  <1> QED
    BY <1>2, <1>3

LEMMA FinishMainStep ==
    ASSUME BackendInv, FinishMain
    PROVE  BackendInv'
  <1>1. /\ stage' = "assemble" /\ ir' = ir /\ target' = target /\ memory' = memory
        /\ at = None /\ at' = at /\ ops' = ops /\ retMarks' = retMarks /\ nextMark' = nextMark /\ TypeInv
    BY DEF FinishMain, CodeDone, BackendInv
  <1>2. TypeInv'
    BY <1>1 DEF TypeInv, Stages
  <1>3. IsLayout(memory)'
    <2>1. PICK mem : mem = memory
      OBVIOUS
    <2> QED
      BY <1>1, <2>1, LayoutStays DEF BackendInv
  <1> QED
    BY <1>1, <1>2, <1>3 DEF BackendInv

LEMMA CodegenStays ==
    ASSUME BackendInv, UNCHANGED codegenVars
    PROVE  BackendInv'
  <1>1. /\ ir' = ir /\ target' = target /\ stage' = stage /\ memory' = memory /\ fns' = fns
        /\ work' = work /\ at' = at /\ ops' = ops /\ retMarks' = retMarks /\ nextMark' = nextMark
    BY DEF codegenVars
  <1>2. TypeInv'
    BY <1>1 DEF BackendInv, TypeInv
  <1>3. IsLayout(memory)'
    <2>1. PICK mem : mem = memory
      OBVIOUS
    <2> QED
      BY <1>1, <2>1, LayoutStays DEF BackendInv
  <1>4. stage = "memory" => CollectInv'
    BY <1>1 DEF BackendInv, CollectInv, EntryPoint, SettledOp, Settled, Provided, IsCall,
                AllOps, LoadsAreProvided
  <1>5. ASSUME NEW V \in SUBSET Blocks, Served(V) PROVE Served(V)'
    BY <1>1, <1>5, ServedStays
  <1>6. ASSUME NEW V \in SUBSET Blocks, StaysIn(V) PROVE StaysIn(V)'
    BY <1>1, <1>6 DEF StaysIn
  <1>7. stage = "code" => EmitInv'
    BY <1>1, <1>5, <1>6 DEF BackendInv, EmitInv, ReturnsArePushed, IsCallOf, Blocks
  <1>8. stage = "runtime_datas" => (\E V \in SUBSET Blocks : Served(V))'
    BY <1>1, <1>5 DEF BackendInv, Blocks
  <1> QED
    BY <1>1, <1>2, <1>3, <1>4, <1>7, <1>8 DEF BackendInv

LEMMA InitIsGood ==
    ASSUME Init
    PROVE  BackendInv
  <1>1. /\ ir \in Programs /\ target = "init" /\ stage = "memory" /\ memory = NoMemory
        /\ fns = Enqueue(NoWork, ir.init) /\ work = NoWork /\ at = None /\ ops = <<>>
        /\ retMarks = <<>> /\ nextMark = FirstBbMark
    BY DEF Init
  <1>2. PICK f : f = ir.init
    OBVIOUS
  <1>3. f \in Functions
    BY <1>1, <1>2, Program
  <1>4. fns \in WorkLists(Functions) /\ fns.seen = {f} /\ Has(fns.todo, f)
    BY <1>1, <1>2, <1>3, AFunctionWaits
  <1>5. work \in WorkLists(Blocks) /\ work.seen = {}
    BY <1>1, NoWorkIsEmpty
  <1>6. IsLayout(memory)
    BY <1>1, NoMemoryIsLayout
  <1>7. TypeInv
    BY <1>1, <1>4, <1>5, <1>6, NumbersAssumption DEF TypeInv, Stages, IsLayout, FirstBbMark
  <1>8. CollectInv
    BY <1>1, <1>2, <1>4, <1>5 DEF CollectInv, EntryPoint
  <1> QED
    BY <1>1, <1>6, <1>7, <1>8 DEF BackendInv

LEMMA StepIsGood ==
    ASSUME BackendInv, [Next]_vars
    PROVE  BackendInv'
  <1>1. CASE CollectFunction
    BY <1>1, CollectFunctionStep
  <1>2. CASE CollectBlock
    BY <1>2, CollectBlockStep
  <1>3. CASE CollectOperation
    BY <1>3, CollectOperationStep
  <1>4. CASE CollectControl
    BY <1>4, CollectControlStep
  <1>5. CASE StartRuntimeDatas
    BY <1>5, StartRuntimeDatasStep
  <1>6. CASE CollectRuntimeDatas
    BY <1>6, CollectRuntimeDatasStep
  <1>7. CASE StartInitCode
    <2>1. stage = "runtime_datas" /\ StartCode(asm)
      BY <1>7 DEF StartInitCode
    <2>2. PICK V \in SUBSET Blocks : Served(V)
      BY <2>1 DEF BackendInv
    <2>3. at = None
      BY <2>1 DEF BackendInv, TypeInv
    <2> QED
      BY <2>1, <2>2, <2>3, StartCodeStep DEF StartCode
  <1>8. CASE StartRunCode
    <2>1. MemoryDone /\ StartCode(PushMark(asm, runcode_start))
      BY <1>8 DEF StartRunCode
    <2>2. PICK V \in SUBSET Blocks : Served(V)
      BY <2>1, MemoryDoneServed
    <2>3. at = None
      BY <2>1 DEF MemoryDone
    <2> QED
      BY <2>1, <2>2, <2>3, StartCodeStep
  <1>9. CASE EmitBlock
    BY <1>9, EmitBlockStep
  <1>10. CASE EmitOperation
    BY <1>10, EmitOperationStep
  <1>11. CASE EmitControl
    BY <1>11, EmitControlStep
  <1>12. CASE FinishInit
    BY <1>12, FinishInitStep
  <1>13. CASE FinishMain
    BY <1>13, FinishMainStep
  <1>14. CASE Assembling
    BY <1>14, CodegenStays DEF Assembling
  <1>15. CASE UNCHANGED vars
    BY <1>15, CodegenStays DEF vars
  <1> QED
    BY <1>1, <1>2, <1>3, <1>4, <1>5, <1>6, <1>7, <1>8, <1>9, <1>10, <1>11, <1>12, <1>13,
       <1>14, <1>15 DEF Next, Codegen

(* BackendInv holds of every reachable state. *)
LEMMA BackendInvHolds == Spec => []BackendInv
  <1>1. Init => BackendInv
    BY InitIsGood
  <1>2. BackendInv /\ [Next]_vars => BackendInv'
    BY StepIsGood
  <1> QED
    BY <1>1, <1>2, PTL DEF Spec

(* No expect of the emitter or of the allocator fails, whatever the program *)
(* (ir_to_bytecode, BumpAllocateAll), and the memory laid out never overlaps: *)
(* the emitter meets only blocks whose operations the allocator has walked. *)
THEOREM MemoryIsThere == Spec => []MemoryIsProvided
  <1>1. BackendInv => MemoryIsProvided
    BY DEF BackendInv, IsLayout, Fits, MemoryIsProvided, ExpectationsHold, MemoryIsDisjoint
  <1> QED
    BY <1>1, BackendInvHolds, PTL
=============================================================================
