-------------------------- MODULE MCReleaseBackend --------------------------
(* Families of programs for ReleaseBackend: an init function (block 0), a  *)
(* main function (blocks 1 and 2) and a callee f (block 3).                *)
EXTENDS ReleaseBackend

CONSTANTS init, main, f, spill, array

bytes(n) == [op |-> "bytes", n |-> n]
store == [op |-> "store", alloc |-> spill]
load == [op |-> "load", alloc |-> spill]
static == [op |-> "alloc", alloc |-> array, size |-> 3, zeroed |-> TRUE]
dynamic == [op |-> "dyn_alloc", uses |-> 2, n |-> 5]
call(i) == <<[op |-> "ret_push", call |-> i], [op |-> "icall", call |-> i, fn |-> f]>>
data(d) == [op |-> "data", id |-> d]
runtimeStart == [op |-> "runtime_start"]
initEnd == [op |-> "init_end"]
runtimeLength == [op |-> "runtime_length"]

ends == [kind |-> "terminates"]
returns == [kind |-> "return"]
to(b) == [kind |-> "continues", to |-> b]
if(nz, z) == [kind |-> "branches", nonZero |-> nz, zero |-> z]
switch(b, c) == [kind |-> "switch", cases |-> << [value |-> 1, to |-> b] >>, fallback |-> c]

Program(o, c, m) ==
    [entry |-> [x \in {init, main, f} |-> IF x = init THEN 0 ELSE IF x = main THEN 1 ELSE 3],
     ops |-> [b \in 0 .. 3 |-> o[b + 1]], control |-> [b \in 0 .. 3 |-> c[b + 1]],
     data |-> [d \in 0 .. 1 |-> 2 + d], init |-> init, main |-> m]

(* Deployment code that copies and returns the run code, with data and     *)
(* calls on either side, and every kind of control in the run code.        *)
Deploy == <<runtimeLength, runtimeStart, bytes(2), runtimeLength, bytes(1)>>

Contracts == {p \in
    {Program(<<i, m, b, c>>, <<ends, cm, cb, returns>>, e) :
        i \in {<<bytes(1)>>, Deploy, <<data(0), initEnd>> \o call(1), <<dynamic, data(1), store, load>>},
        m \in {<<>>, <<data(0), dynamic>>, <<store>> \o call(1) \o call(2), <<static, runtimeLength>>},
        b \in {<<>>, <<data(1)>>, <<static, static, bytes(1)>>},
        c \in {<<bytes(1)>>, <<data(1), dynamic>>},
        cm \in {ends, to(2), if(2, 1), switch(2, 1), switch(2, None)},
        cb \in {ends, to(1)},
        e \in {main, None}} : NoCriticalEdges(p)}

(* Deployment code that uses the length of the run code k times; the run   *)
(* code jumps to its second block right away, which has n more bytes.      *)
Deployments(K, N) ==
    {Program(<<[i \in 1 .. k |-> runtimeLength], <<>>, <<bytes(n)>>, <<>>>>,
             <<ends, to(2), ends, returns>>, main) : k \in K, n \in N}

(* A callee of both sides that asks where the init code ends. *)
Introspections ==
    {Program(<<i, call(1), <<>>, <<initEnd, data(1)>>>>, <<ends, ends, ends, returns>>, e) :
        i \in {<<bytes(1)>>, call(1)}, e \in {main, None}}

MCMarks == 0 .. 17
MCPrograms == Contracts \cup Introspections \cup Deployments(0 .. 5, 0 .. 8)
=============================================================================
