--------------------------- MODULE SequenceLemmas ---------------------------
(***************************************************************************)
(* Facts that proofs about several components need: the elements of        *)
(* sequences, least elements, recursion and induction up to a number.      *)
(***************************************************************************)
EXTENDS SequencesExt, SequenceTheorems, FiniteSetTheorems, TLAPS

Has(s, x) == \E i \in 1 .. Len(s) : s[i] = x
-----------------------------------------------------------------------------
LEMMA SequenceOf ==
    ASSUME NEW S, NEW n \in Nat, NEW f, DOMAIN f = 1 .. n, \A i \in 1 .. n : f[i] \in S,
           f = [i \in 1 .. n |-> f[i]]
    PROVE  f \in Seq(S) /\ Len(f) = n
  <1>1. f \in [1 .. n -> S]
    OBVIOUS
  <1> QED
    BY <1>1, SeqDef, LenProperties

(* A set of numbers has a least element: inclusion of the intervals up to  *)
(* its members is well founded.                                            *)
LEMMA LeastElement ==
    ASSUME NEW T, T \subseteq Nat, T # {}
    PROVE  \E i \in T : \A j \in T : i <= j
  <1> DEFINE Upto == {0 .. i : i \in T}
  <1>1. \A i \in Nat : IsFiniteSet(0 .. i)
    BY FS_Interval
  <1>2. Upto \subseteq FiniteSubsetsOf(Nat) /\ Upto # {}
    <2>1. \A i \in T : 0 .. i \in SUBSET Nat /\ IsFiniteSet(0 .. i)
      BY <1>1
    <2>2. \A i \in T : 0 .. i \in FiniteSubsetsOf(Nat)
      BY <2>1 DEF FiniteSubsetsOf
    <2> QED
      BY <2>2
  <1>3. PICK x \in Upto : \A y \in Upto : ~ <<y, x>> \in StrictSubsetOrdering(Nat)
    <2> HIDE DEF Upto
    <2> QED
      BY <1>2, FS_StrictSubsetOrderingWellFounded, WFMin
  <1>4. PICK i \in T : x = 0 .. i
    BY <1>3
  <1>5. ASSUME NEW j \in T, j < i PROVE FALSE
    <2>1. 0 .. j \in Upto /\ 0 .. j \in SUBSET Nat /\ 0 .. i \in SUBSET Nat
      OBVIOUS
    <2>2. 0 .. j \subseteq 0 .. i /\ i \in 0 .. i /\ i \notin 0 .. j
      BY <1>5
    <2>3. 0 .. j # 0 .. i
      BY <2>2
    <2>4. <<0 .. j, 0 .. i>> \in StrictSubsetOrdering(Nat)
      BY <2>1, <2>2, <2>3 DEF StrictSubsetOrdering
    <2> QED
      BY <1>3, <1>4, <2>1, <2>4
  <1> QED
    BY <1>5

LEMMA FrontProperties ==
    ASSUME NEW S, NEW s \in Seq(S), s # <<>>
    PROVE  /\ Len(s) \in Nat \ {0} /\ Len(Front(s)) = Len(s) - 1
           /\ \A m \in 1 .. Len(s) - 1 : Front(s)[m] = s[m]
           /\ Last(s) = s[Len(s)]
  <1>1. Len(s) \in Nat \ {0}
    BY LenProperties, EmptySeq
  <1>2. \A m \in 1 .. Len(s) - 1 : s[m] \in S
    BY <1>1, ElementOfSeq
  <1>3. Front(s) = SubSeq(s, 1, Len(s) - 1) /\ Last(s) = s[Len(s)]
    BY DEF Front, Last
  <1>4. Len(SubSeq(s, 1, Len(s) - 1)) = Len(s) - 1
    <2>1. PICK n \in Nat : n = Len(s) - 1
      BY <1>1
    <2>2. Len(SubSeq(s, 1, n)) = IF 1 <= n THEN n - 1 + 1 ELSE 0
      BY <1>2, <2>1, SubSeqProperties
    <2>3. Len(SubSeq(s, 1, n)) = n
      BY <2>2
    <2> QED
      BY <2>1, <2>3
  <1>5. \A m \in 1 .. Len(s) - 1 : SubSeq(s, 1, Len(s) - 1)[m] = s[m]
    BY <1>1, <1>2, SubSeqProperties
  <1> QED
    BY <1>1, <1>3, <1>4, <1>5

(* A list of work without its last entry. *)
LEMMA FrontKeeps ==
    ASSUME NEW S, NEW s \in Seq(S), s # <<>>
    PROVE  /\ \A n \in 1 .. Len(s) : s[n] = Last(s) \/ \E m \in 1 .. Len(Front(s)) : Front(s)[m] = s[n]
           /\ \A m \in 1 .. Len(Front(s)) : \E n \in 1 .. Len(s) : Front(s)[m] = s[n]
           /\ \E n \in 1 .. Len(s) : s[n] = Last(s)
  <1> DEFINE front == Front(s)
             last == Last(s)
  <1>1. /\ Len(s) \in Nat \ {0} /\ Len(front) = Len(s) - 1
        /\ \A m \in 1 .. Len(s) - 1 : front[m] = s[m]
        /\ last = s[Len(s)]
    BY FrontProperties
  <1> HIDE DEF front, last
  <1>2. \A n \in 1 .. Len(s) : s[n] = last \/ \E m \in 1 .. Len(front) : front[m] = s[n]
    BY <1>1
  <1>3. \A m \in 1 .. Len(front) : m \in 1 .. Len(s) /\ front[m] = s[m]
    BY <1>1
  <1>4. \E n \in 1 .. Len(s) : s[n] = last
    BY <1>1
  <1> QED
    BY <1>2, <1>3, <1>4 DEF front, last
(* The elements of a sequence that grows or shrinks by one. *)
LEMMA AppendHas ==
    ASSUME NEW S, NEW s \in Seq(S), NEW x \in S
    PROVE  /\ Append(s, x) \in Seq(S)
           /\ \A y : Has(Append(s, x), y) <=> Has(s, y) \/ y = x
  <1>1. /\ Append(s, x) \in Seq(S) /\ Len(s) \in Nat /\ Len(Append(s, x)) = Len(s) + 1
        /\ \A i \in 1 .. Len(s) : Append(s, x)[i] = s[i]
        /\ Append(s, x)[Len(s) + 1] = x
    BY AppendProperties, LenProperties
  <1> QED
    BY <1>1 DEF Has

LEMMA FrontHas ==
    ASSUME NEW S, NEW s \in Seq(S), s # <<>>
    PROVE  /\ Front(s) \in Seq(S) /\ Last(s) \in S /\ Has(s, Last(s))
           /\ \A y : Has(s, y) <=> Has(Front(s), y) \/ y = Last(s)
  <1>1. Front(s) \in Seq(S)
    <2>1. Len(s) \in Nat \ {0} /\ \A m \in 1 .. Len(s) - 1 : s[m] \in S
      BY EmptySeq, ElementOfSeq, LenProperties
    <2> QED
      BY <2>1, SubSeqProperties DEF Front
  <1>2. /\ Len(s) \in Nat \ {0} /\ Len(Front(s)) = Len(s) - 1
        /\ \A m \in 1 .. Len(s) - 1 : Front(s)[m] = s[m]
        /\ Last(s) = s[Len(s)]
    BY FrontProperties
  <1>3. Last(s) \in S
    BY <1>2, ElementOfSeq
  <1>4. \A y : Has(s, y) <=> Has(Front(s), y) \/ y = Last(s)
    <2>1. /\ \A n \in 1 .. Len(s) : s[n] = Last(s) \/ \E m \in 1 .. Len(Front(s)) : Front(s)[m] = s[n]
          /\ \A m \in 1 .. Len(Front(s)) : \E n \in 1 .. Len(s) : Front(s)[m] = s[n]
          /\ \E n \in 1 .. Len(s) : s[n] = Last(s)
      BY FrontKeeps, Zenon
    <2> QED
      BY <2>1, Zenon DEF Has
  <1> QED
    BY <1>1, <1>2, <1>3, <1>4 DEF Has

LEMMA TailHas ==
    ASSUME NEW S, NEW s \in Seq(S), s # <<>>
    PROVE  /\ Head(s) \in S /\ Tail(s) \in Seq(S) /\ Head(s) = s[1]
           /\ Len(s) \in Nat \ {0} /\ Len(Tail(s)) = Len(s) - 1
           /\ \A i \in 1 .. Len(s) - 1 : Tail(s)[i] = s[i + 1]
           /\ \A y : Has(s, y) <=> Has(Tail(s), y) \/ y = Head(s)
  <1>1. /\ Head(s) \in S /\ Tail(s) \in Seq(S) /\ Head(s) = s[1]
        /\ Len(s) \in Nat \ {0} /\ Len(Tail(s)) = Len(s) - 1
        /\ \A i \in 1 .. Len(s) - 1 : Tail(s)[i] = s[i + 1]
    BY HeadTailProperties, EmptySeq, LenProperties
  <1>2. ASSUME NEW y, Has(s, y) PROVE Has(Tail(s), y) \/ y = Head(s)
    <2>1. PICK i \in 1 .. Len(s) : s[i] = y
      BY <1>2 DEF Has
    <2>2. i # 1 => i - 1 \in 1 .. Len(s) - 1 /\ Tail(s)[i - 1] = y
      BY <1>1, <2>1
    <2> QED
      BY <1>1, <2>1, <2>2 DEF Has
  <1>3. ASSUME NEW y, Has(Tail(s), y) \/ y = Head(s) PROVE Has(s, y)
    <2>1. CASE Has(Tail(s), y)
      <3>1. PICK i \in 1 .. Len(s) - 1 : s[i + 1] = y
        BY <1>1, <2>1 DEF Has
      <3> QED
        BY <1>1, <3>1 DEF Has
    <2> QED
      BY <1>1, <1>3, <2>1 DEF Has
  <1> QED
    BY <1>1, <1>2, <1>3

(* What holds of 0 and passes from each number to the next holds up to n.  *)
LEMMA InductionUpTo ==
    ASSUME NEW n \in Nat, NEW T, 0 \in T, \A i \in 1 .. n : i - 1 \in T => i \in T
    PROVE  0 .. n \subseteq T
  <1>1. SUFFICES ASSUME (0 .. n) \ T # {} PROVE FALSE
    OBVIOUS
  <1>2. PICK i \in (0 .. n) \ T : \A j \in (0 .. n) \ T : i <= j
    <2>1. (0 .. n) \ T \subseteq Nat
      OBVIOUS
    <2> QED
      BY <1>1, <2>1, LeastElement
  <1>3. i \in 1 .. n /\ i - 1 \in 0 .. n
    BY <1>2
  <1>4. i - 1 \in T
    BY <1>2, <1>3
  <1> QED
    BY <1>2, <1>3, <1>4

(* A function on 0 .. n may be defined by recursion. *)
Recursions(n, A, base, step) ==
    {f \in [0 .. n -> A] : f[0] = base /\ \A i \in 1 .. n : f[i] = step[i][f[i - 1]]}

LEMMA RecursionUpTo ==
    ASSUME NEW n \in Nat, NEW A, NEW base \in A, NEW step \in [1 .. n -> [A -> A]]
    PROVE  Recursions(n, A, base, step) # {}
  <1> DEFINE Upto(m) == {f \in [0 .. m -> A] : f[0] = base /\ \A i \in 1 .. m : f[i] = step[i][f[i - 1]]}
             T == {m \in 0 .. n : Upto(m) # {}}
  <1>1. 0 \in T
    <2>1. [i \in 0 .. 0 |-> base] \in Upto(0)
      OBVIOUS
    <2> QED
      BY <2>1
  <1>2. ASSUME NEW m \in 1 .. n, m - 1 \in T PROVE m \in T
    <2>1. PICK f \in Upto(m - 1) : TRUE
      BY <1>2
    <2>2. f \in [0 .. m - 1 -> A] /\ f[0] = base /\ \A i \in 1 .. m - 1 : f[i] = step[i][f[i - 1]]
      BY <2>1
    <2> DEFINE g == [i \in 0 .. m |-> IF i = m THEN step[m][f[m - 1]] ELSE f[i]]
    <2>3. f[m - 1] \in A /\ step[m][f[m - 1]] \in A
      BY <2>2
    <2>4. g \in [0 .. m -> A]
      BY <2>2, <2>3
    <2>5. g[0] = base
      BY <2>2
    <2>6. ASSUME NEW i \in 1 .. m PROVE g[i] = step[i][g[i - 1]]
      BY <2>2
    <2>7. g \in Upto(m)
      BY <2>4, <2>5, <2>6
    <2> HIDE DEF Upto, g
    <2>8. m \in 0 .. n /\ Upto(m) # {}
      BY <2>7
    <2> QED
      BY <2>8
  <1> HIDE DEF T
  <1>3. 0 .. n \subseteq T
    BY <1>1, <1>2, InductionUpTo
  <1>4. n \in T
    BY <1>3
  <1> QED
    BY <1>4 DEF T, Recursions
=============================================================================
