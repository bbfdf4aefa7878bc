----------------------------- MODULE HeapProofs -----------------------------
(***************************************************************************)
(* What holds of a process's heap (heap.c) for every size of page, header  *)
(* and heap and every sequence of requests: the invariants that            *)
(* Heap_process checks.  They end with a request that divides a block      *)
(* beyond its end (heap.c:212), if one is made.                            *)
(*                                                                         *)
(* The loops of the code are tail-recursive functions in the model, over   *)
(* the blocks of a heap or over heaps.  The first section is about such    *)
(* functions in general: there is one, and with a measure that decreases   *)
(* its value is that of a place where the recursion ends.                  *)
(***************************************************************************)
EXTENDS Heap, FiniteSetTheorems, WellFoundedInduction, TLAPS

-----------------------------------------------------------------------------
(* Tail recursion.                                                         *)

(* Every non-empty set of numbers has a least element.                     *)
LEMMA LeastNumber ==
    ASSUME NEW S \in SUBSET Nat, S # {}
    PROVE  \E i \in S : \A j \in S : i <= j
<1> DEFINE Upto(i) == 1..i
           T == {Upto(i) : i \in S}
           R == StrictSubsetOrdering(Nat)
<1>1. \A i \in S : Upto(i) \subseteq Nat /\ IsFiniteSet(Upto(i))
  BY FS_Interval
<1>2. T \subseteq FiniteSubsetsOf(Nat) /\ T # {}
  BY <1>1 DEF FiniteSubsetsOf
<1>3. PICK x \in T : \A y \in T : ~(<<y, x>> \in R)
  <2> HIDE DEF T, R
  <2>1. IsWellFoundedOn(R, FiniteSubsetsOf(Nat))
    BY FS_StrictSubsetOrderingWellFounded DEF R
  <2> QED BY <2>1, <1>2, WFMin
<1>4. PICK i \in S : x = Upto(i)
  OBVIOUS
<1>5. \A j \in S : i <= j
  <2> SUFFICES ASSUME NEW j \in S, j < i PROVE FALSE
    OBVIOUS
  <2>1. Upto(j) \subseteq Upto(i) /\ Upto(j) # Upto(i)
    OBVIOUS
  <2>2. <<Upto(j), Upto(i)>> \in R
    BY <2>1, <1>1 DEF StrictSubsetOrdering
  <2> QED BY <2>2, <1>3, <1>4
<1> QED BY <1>5

(* f goes on with N[x] in C and ends with V[x] elsewhere.                  *)
Continues(f, D, C, N, V) == f = [x \in D |-> IF x \in C THEN f[N[x]] ELSE V[x]]

(* Such a function exists: let it have the value of one of the ends that   *)
(* can be reached, and any value where there is none.                      *)
LEMMA TailRecursion ==
    ASSUME NEW D, NEW C \in SUBSET D, NEW N, \A x \in C : N[x] \in D, NEW V
    PROVE  \E f : Continues(f, D, C, N, V)
<1> DEFINE Closed(S) == \A y \in S \intersect C : N[y] \in S
           Reach(x) == {t \in D : \A S \in SUBSET D : x \in S /\ Closed(S) => t \in S}
           Ends(x) == Reach(x) \ C
           Member(S) == CHOOSE t : t \in S
           f == [x \in D |-> V[Member(Ends(x))]]
<1>1. ASSUME NEW x \in D \ C
      PROVE  Ends(x) = {x}
  <2>1. Closed({x})
    BY <1>1
  <2>2. {x} \in SUBSET D
    BY <1>1
  <2> QED BY <1>1, <2>1, <2>2
<1>2. ASSUME NEW x \in C
      PROVE  Ends(x) = Ends(N[x])
  <2>1. Reach(N[x]) \subseteq Reach(x)
    OBVIOUS
  <2>2. ASSUME NEW t \in Reach(x), t # x
        PROVE  t \in Reach(N[x])
    <3> SUFFICES ASSUME NEW S \in SUBSET D, N[x] \in S, Closed(S)
                 PROVE  t \in S
      BY <2>2
    <3>1. S \union {x} \in SUBSET D /\ Closed(S \union {x})
      BY <1>2
    <3>2. t \in S \union {x}
      BY <2>2, <3>1
    <3> QED BY <2>2, <3>2
  <2> QED BY <2>1, <2>2
<1>3. \A x : Member({x}) = x
  OBVIOUS
<1>4. Continues(f, D, C, N, V)
  <2> HIDE DEF Ends, Member
  <2> QED BY <1>1, <1>2, <1>3 DEF Continues
<1> QED BY <1>4

(* With a measure that decreases as long as it goes on, its value is that  *)
(* of an end that is reached.                                              *)
LEMMA TailValue ==
    ASSUME NEW D, NEW C, NEW N, NEW V, NEW f, Continues(f, D, C, N, V),
           NEW I \in SUBSET D, NEW m \in [I -> Nat],
           \A x \in I \intersect C : N[x] \in I /\ m[N[x]] < m[x]
    PROVE  \A x \in I : \E t \in I \ C : f[x] = V[t]
<1> DEFINE good == {x \in I : \E t \in I \ C : f[x] = V[t]}
           T == {m[x] : x \in I \ good}
<1>1. \A x \in I : f[x] = IF x \in C THEN f[N[x]] ELSE V[x]
  BY DEF Continues
<1>2. ASSUME NEW y \in I \ good
      PROVE  FALSE
  <2>1. T \in SUBSET Nat /\ T # {}
    BY <1>2
  <2>2. PICK i \in T : \A j \in T : i <= j
    <3> HIDE DEF T
    <3> QED BY <2>1, LeastNumber
  <2>3. PICK x \in I \ good : m[x] = i
    BY <2>2
  <2>4. x \in C
    BY <1>1, <2>3
  <2>5. f[x] = f[N[x]] /\ N[x] \in I /\ m[N[x]] < m[x]
    BY <1>1, <2>3, <2>4
  <2>6. N[x] \in I \ good
    BY <2>3, <2>5
  <2>7. m[N[x]] \in T
    BY <2>6
  <2>8. m[x] \in Nat /\ m[N[x]] \in Nat /\ m[x] <= m[N[x]]
    BY <2>2, <2>3, <2>5, <2>7
  <2> QED BY <2>5, <2>8
<1> QED BY <1>2

-----------------------------------------------------------------------------
(* Heaps whose headers can be walked.                                      *)

End(h, b) == b + Hdr + h.hdr[b].size

(* Blocks follow each other without gaps or overlaps from 0 to the size of *)
(* the heap; before leads back.                                            *)
Linear(h) ==
    /\ h \in HeapState
    /\ 0 \in Blocks(h) /\ h.hdr[0].before = None
    /\ \A b \in Blocks(h) : End(h, b) <= h.size /\ End(h, b) \in Blocks(h) \union {h.size}
    /\ \A b, c \in Blocks(h) : b < c => End(h, b) <= c
    /\ \A b \in Blocks(h) \ {0} :
        h.hdr[b].before \in Blocks(h) /\ End(h, h.hdr[b].before) = b
    /\ h.top \in Blocks(h) /\ End(h, h.top) = h.size

LEMMA WordMod ==
    ASSUME NEW x \in Nat, NEW w \in Nat, x < w
    PROVE  x % w = x
OBVIOUS

LEMMA BlockTypes ==
    ASSUME NEW h \in HeapState, NEW b \in Blocks(h)
    PROVE  /\ b \in Addr /\ b \in Nat /\ h.size \in Addr /\ h.size \in Nat
           /\ h.hdr \in [Addr -> Header \union {None}] /\ h.hdr[b] # None
           /\ h.hdr[b] \in Header /\ h.hdr[b].size \in Size /\ h.hdr[b].size \in Nat
           /\ h.hdr[b].before \in Addr \union {None} /\ h.hdr[b].allocated \in BOOLEAN
           /\ h.used \in Size /\ h.top \in Addr /\ h.first \in Addr
           /\ End(h, b) \in Nat /\ b + Hdr <= End(h, b) /\ b < End(h, b)
<1>1. h.hdr \in [Addr -> Header \union {None}] /\ h.size \in Addr
      /\ h.used \in Size /\ h.top \in Addr /\ h.first \in Addr
  BY DEF HeapState
<1>2. b \in Addr /\ h.hdr[b] # None
  BY DEF Blocks
<1>3. h.hdr[b] \in Header
  BY <1>1, <1>2
<1>4. h.hdr[b].size \in Size /\ h.hdr[b].before \in Addr \union {None}
      /\ h.hdr[b].allocated \in BOOLEAN
  BY <1>3 DEF Header
<1>5. Limit \in Nat /\ Word \in Nat /\ Hdr \in Nat /\ Hdr > 0
  BY SizeAssumption
<1>6. b \in Nat /\ h.size \in Nat /\ h.hdr[b].size \in Nat
  BY <1>1, <1>2, <1>4, <1>5 DEF Addr, Size
<1> QED BY <1>1, <1>2, <1>3, <1>4, <1>5, <1>6 DEF End

(* get_next_block in such a heap: the next block, unless this is the last. *)
LEMMA NextBlock ==
    ASSUME NEW h, Linear(h), NEW b \in Blocks(h)
    PROVE  /\ Following(h, b) = End(h, b)
           /\ Valid(h, End(h, b)) <=> End(h, b) \in Blocks(h)
           /\ End(h, b) \notin Blocks(h) <=> End(h, b) = h.size
<1>1. h \in HeapState
  BY DEF Linear
<1>2. End(h, b) \in Nat /\ h.size \in Addr /\ End(h, b) <= h.size
  BY <1>1, BlockTypes DEF Linear
<1>3. Limit \in Nat /\ Word \in Nat /\ Limit < Word
  BY SizeAssumption
<1>4. End(h, b) < Word
  BY <1>2, <1>3 DEF Addr
<1>5. Following(h, b) = End(h, b)
  <2>1. End(h, b) % Word = End(h, b)
    BY <1>2, <1>3, <1>4, WordMod
  <2> QED BY <2>1 DEF Following, End
<1>6. \A c \in Blocks(h) : c < h.size
  <2> SUFFICES ASSUME NEW c \in Blocks(h) PROVE c < h.size
    OBVIOUS
  <2>1. c < End(h, c) /\ End(h, c) \in Nat /\ c \in Nat /\ h.size \in Nat
    BY <1>1, BlockTypes
  <2>2. End(h, c) <= h.size
    BY DEF Linear
  <2> QED BY <2>1, <2>2
<1>7. End(h, b) \in Blocks(h) \union {h.size}
  BY DEF Linear
<1>8. End(h, b) \in Addr
  BY <1>2, <1>3 DEF Addr
<1>9. h.size \in Nat
  BY <1>2, <1>3 DEF Addr
<1>10. End(h, b) \in Blocks(h) <=> h.hdr[End(h, b)] # None
  BY <1>8 DEF Blocks
<1> QED BY <1>5, <1>6, <1>7, <1>9, <1>10 DEF Valid

LEMMA BlockBelow ==
    ASSUME NEW h, Linear(h), NEW b \in Blocks(h)
    PROVE  b < h.size
<1>1. b < End(h, b) /\ End(h, b) \in Nat /\ b \in Nat /\ h.size \in Nat
  BY BlockTypes DEF Linear
<1> QED BY <1>1 DEF Linear

-----------------------------------------------------------------------------
(* The searches.                                                           *)

(* get_next_free_block returns the first free block behind b, if any.      *)
LEMMA NextFreeSpec ==
    ASSUME NEW h, Linear(h), NEW b \in Blocks(h)
    PROVE  \/ NextFree(h, b) = None /\ \A c \in Blocks(h) : c > b => ~Free(h, c)
           \/ /\ NextFree(h, b) \in Blocks(h) /\ NextFree(h, b) > b
              /\ Free(h, NextFree(h, b))
              /\ \A c \in Blocks(h) : b < c /\ c < NextFree(h, b) => ~Free(h, c)
<1> DEFINE D == Blocks(h)
           N == [a \in D |-> End(h, a)]
           C == {a \in D : End(h, a) \in D /\ ~Free(h, End(h, a))}
           V == [a \in D |-> IF End(h, a) \in D THEN End(h, a) ELSE None]
           Search(f) == f = [a \in D |->
               LET n == Following(h, a) IN
               IF ~Valid(h, n) THEN None ELSE IF Free(h, n) THEN n ELSE f[n]]
           f == CHOOSE f : Search(f)
           I == {a \in D : a >= b /\ \A c \in D : b < c /\ c <= a => ~Free(h, c)}
           m == [a \in I |-> h.size - a]
<1>1. NextFree(h, b) = f[b]
  BY DEF NextFree
<1>2. \A a \in D : /\ Following(h, a) = End(h, a)
                   /\ Valid(h, End(h, a)) <=> End(h, a) \in D
                   /\ a \in Nat /\ End(h, a) \in Nat /\ a < End(h, a) /\ a < h.size
                   /\ h.size \in Nat
  BY NextBlock, BlockTypes, BlockBelow DEF Linear
<1>3. \A g : Search(g) <=> Continues(g, D, C, N, V)
  <2> HIDE DEF D
  <2> QED BY <1>2 DEF Continues
<1>4. Continues(f, D, C, N, V)
  <2>1. C \in SUBSET D /\ \A x \in C : N[x] \in D
    OBVIOUS
  <2>2. \E g : Continues(g, D, C, N, V)
    <3> HIDE DEF C, D, N, V
    <3> QED BY <2>1, TailRecursion
  <2> HIDE DEF Search
  <2> QED BY <1>3, <2>2
<1>5. b \in I /\ I \in SUBSET D /\ m \in [I -> Nat]
  <2>1. b \in I
    BY <1>2
  <2>2. \A a \in I : h.size - a \in Nat
    BY <1>2
  <2> QED BY <2>1, <2>2
<1>6. \A x \in I \intersect C : N[x] \in I /\ m[N[x]] < m[x]
  <2> SUFFICES ASSUME NEW x \in I, x \in C
               PROVE  N[x] \in I /\ m[N[x]] < m[x]
    OBVIOUS
  <2>1. End(h, x) \in D /\ ~Free(h, End(h, x)) /\ N[x] = End(h, x)
    OBVIOUS
  <2>2. ASSUME NEW c \in D, b < c, c <= End(h, x)
        PROVE  ~Free(h, c)
    <3>1. CASE c <= x
      BY <2>2, <3>1
    <3>2. CASE c > x
      <4>1. End(h, x) <= c
        BY <3>2 DEF Linear
      <4>2. c = End(h, x)
        BY <1>2, <2>1, <2>2, <4>1
      <4> QED BY <2>1, <4>2
    <3> QED BY <1>2, <3>1, <3>2
  <2>3. End(h, x) \in I
    <3>1. x >= b
      OBVIOUS
    <3>2. End(h, x) >= b
      BY <1>2, <3>1
    <3> QED BY <2>1, <2>2, <3>2
  <2>4. m[End(h, x)] = h.size - End(h, x) /\ m[x] = h.size - x
    BY <2>3
  <2> QED BY <1>2, <2>1, <2>3, <2>4
<1>7. PICK t \in I \ C : f[b] = V[t]
  <2>1. \A x \in I : \E t \in I \ C : f[x] = V[t]
    <3> HIDE DEF C, D, N, V, I, m, f
    <3> QED BY <1>4, <1>5, <1>6, TailValue
  <2> QED BY <1>5, <2>1
<1> HIDE DEF f
<1>8. \A c \in D : c > t => End(h, t) <= c
  BY DEF Linear
<1>9. CASE End(h, t) \in D
  <2>1. f[b] = End(h, t) /\ Free(h, End(h, t)) /\ t >= b
    BY <1>7, <1>9
  <2>2. End(h, t) > b
    BY <1>2, <2>1
  <2>3. ASSUME NEW c \in D, b < c, c < End(h, t)
        PROVE  ~Free(h, c)
    <3>1. c <= t
      BY <1>2, <1>8, <1>9, <2>3
    <3> QED BY <1>7, <2>3, <3>1
  <2> QED BY <1>1, <1>9, <2>1, <2>2, <2>3
<1>10. CASE End(h, t) \notin D
  <2>1. f[b] = None /\ End(h, t) = h.size
    BY <1>7, <1>10, NextBlock
  <2>2. ASSUME NEW c \in D, c > b
        PROVE  ~Free(h, c)
    <3>1. c <= t
      BY <1>2, <1>8, <2>1
    <3> QED BY <1>7, <2>2, <3>1
  <2> QED BY <1>1, <2>1, <2>2
<1> QED BY <1>9, <1>10

(* The search of heap_allocate returns a free block that is large enough,  *)
(* and none only if no free block from first_free on is.                   *)
LEMMA FirstFitSpec ==
    ASSUME NEW h, Linear(h), h.first \in Blocks(h), NEW n
    PROVE  \/ /\ FirstFit(h, n) = None
              /\ \A c \in Blocks(h) : c >= h.first /\ Free(h, c) => ~(h.hdr[c].size >= n)
           \/ /\ FirstFit(h, n) \in Blocks(h) /\ FirstFit(h, n) # None
              /\ Free(h, FirstFit(h, n)) /\ h.hdr[FirstFit(h, n)].size >= n
<1> DEFINE D == Blocks(h)
           Fits(a) == Free(h, a) /\ h.hdr[a].size >= n
           N == [a \in D |-> NextFree(h, a)]
           C == {a \in D : ~Fits(a) /\ NextFree(h, a) # None}
           V == [a \in D |-> IF Fits(a) THEN a ELSE None]
           Search(f) == f = [b \in D |->
               IF Free(h, b) /\ h.hdr[b].size >= n THEN b
               ELSE LET c == NextFree(h, b) IN IF c = None THEN None ELSE f[c]]
           f == CHOOSE f : Search(f)
           I == {a \in D : a >= h.first /\ \A c \in D : h.first <= c /\ c < a => ~Fits(c)}
           m == [a \in I |-> h.size - a]
<1>1. FirstFit(h, n) = f[h.first]
  BY DEF FirstFit
<1>2. \A a \in D : a \in Nat /\ a < h.size /\ h.size \in Nat /\ a # None
  BY BlockTypes, BlockBelow, SizeAssumption DEF Linear
<1>3. \A a \in D : NextFree(h, a) # None =>
        /\ NextFree(h, a) \in D /\ a < NextFree(h, a)
        /\ \A c \in D : a < c /\ c < NextFree(h, a) => ~Free(h, c)
  <2> SUFFICES ASSUME NEW a \in D, NextFree(h, a) # None
               PROVE  /\ NextFree(h, a) \in D /\ a < NextFree(h, a)
                      /\ \A c \in D : a < c /\ c < NextFree(h, a) => ~Free(h, c)
    OBVIOUS
  <2> DEFINE x == NextFree(h, a)
  <2>1. /\ x \in D /\ x > a
        /\ \A c \in D : a < c /\ c < x => ~Free(h, c)
    BY NextFreeSpec
  <2>2. x \in Nat /\ a \in Nat
    BY <1>2, <2>1
  <2> QED BY <2>1, <2>2
<1>4. \A g : Search(g) <=> Continues(g, D, C, N, V)
  <2> HIDE DEF D
  <2> QED BY DEF Continues
<1>5. Continues(f, D, C, N, V)
  <2>1. C \in SUBSET D /\ \A x \in C : N[x] \in D
    BY <1>3
  <2>2. \E g : Continues(g, D, C, N, V)
    <3> HIDE DEF C, D, N, V
    <3> QED BY <2>1, TailRecursion
  <2> HIDE DEF Search
  <2> QED BY <1>4, <2>2
<1>6. h.first \in I /\ I \in SUBSET D /\ m \in [I -> Nat]
  <2>1. h.first \in I
    BY <1>2
  <2>2. \A a \in I : h.size - a \in Nat
    BY <1>2
  <2> QED BY <2>1, <2>2
<1>7. \A x \in I \intersect C : N[x] \in I /\ m[N[x]] < m[x]
  <2> SUFFICES ASSUME NEW x \in I, x \in C
               PROVE  N[x] \in I /\ m[N[x]] < m[x]
    OBVIOUS
  <2> DEFINE y == NextFree(h, x)
  <2>1. /\ y \in D /\ x < y /\ N[x] = y
        /\ \A c \in D : x < c /\ c < y => ~Free(h, c)
    BY <1>3
  <2> HIDE DEF y
  <2>2. ASSUME NEW c \in D, h.first <= c, c < y
        PROVE  ~Fits(c)
    <3>1. CASE c < x
      BY <2>2, <3>1
    <3>2. CASE c = x
      BY <3>2
    <3>3. CASE c > x
      BY <1>2, <2>1, <2>2, <3>3
    <3> QED BY <1>2, <3>1, <3>2, <3>3
  <2>3. y \in I
    <3>1. x >= h.first
      OBVIOUS
    <3>2. y >= h.first
      BY <1>2, <2>1, <3>1
    <3> QED BY <2>1, <2>2, <3>2
  <2>4. m[y] = h.size - y /\ m[x] = h.size - x
    BY <2>3
  <2> QED BY <1>2, <2>1, <2>3, <2>4
<1>8. PICK t \in I \ C : f[h.first] = V[t]
  <2>1. \A x \in I : \E t \in I \ C : f[x] = V[t]
    <3> HIDE DEF C, D, N, V, I, m, f
    <3> QED BY <1>5, <1>6, <1>7, TailValue
  <2> QED BY <1>6, <2>1
<1> HIDE DEF f
<1>9. CASE Fits(t)
  <2>1. f[h.first] = t /\ t \in D
    BY <1>8, <1>9
  <2> QED BY <1>1, <1>2, <1>9, <2>1
<1>10. CASE ~Fits(t)
  <2>1. f[h.first] = None /\ t \in D /\ NextFree(h, t) = None
    BY <1>8, <1>10
  <2>2. \A c \in D : c > t => ~Free(h, c)
    BY <1>2, <2>1, NextFreeSpec
  <2>3. ASSUME NEW c \in D, c >= h.first, Fits(c)
        PROVE  FALSE
    <3>1. c <= t
      BY <1>2, <2>1, <2>2, <2>3
    <3>2. ~(c < t)
      BY <1>8, <2>3
    <3>3. c = t
      BY <1>2, <2>1, <3>1, <3>2
    <3> QED BY <1>10, <2>3, <3>3
  <2> QED BY <1>1, <2>1, <2>3
<1> QED BY <1>9, <1>10

-----------------------------------------------------------------------------
(* Dividing a block.                                                       *)

Divided(h, g, b, new) ==
    /\ Linear(g) /\ new \in Addr \ Blocks(h) /\ b < new /\ new < End(h, b)
    /\ Blocks(g) = Blocks(h) \union {new}
    /\ End(g, b) = new /\ End(g, new) = End(h, b)
    /\ Free(g, new) /\ \A c \in Blocks(h) : g.hdr[c].allocated = h.hdr[c].allocated
    /\ \A c \in Blocks(h) \ {b} : g.hdr[c].size = h.hdr[c].size
    /\ g.size = h.size /\ g.used = (h.used + Hdr) % Word
    /\ g.first = IF h.first = b THEN new ELSE h.first

(* k is h with block b divided into n bytes and the block new, with rest   *)
(* bytes up to next.                                                       *)
DividedHeaders(h, k, b, n, new, next, rest) ==
    /\ new \in Addr \ Blocks(h) /\ b < new /\ new < next /\ rest \in Size
    /\ new + Hdr + rest = next
    /\ k.hdr \in [Addr -> Header \union {None}]
    /\ k.hdr[new] = [allocated |-> FALSE, before |-> b, size |-> rest]
    /\ k.hdr[b] = [h.hdr[b] EXCEPT !.size = n]
    /\ k.hdr[new] \in Header /\ k.hdr[b] \in Header
    /\ next \in Blocks(h) =>
        k.hdr[next] = [h.hdr[next] EXCEPT !.before = new] /\ k.hdr[next] \in Header
    /\ \A a \in Addr \ {b, new} : a # next \/ next \notin Blocks(h) => k.hdr[a] = h.hdr[a]
    /\ k.size = h.size /\ k.used = (h.used + Hdr) % Word
    /\ k.first = IF h.first = b THEN new ELSE h.first
    /\ k.top = IF new > h.top THEN new ELSE h.top
    /\ k \in HeapState

LEMMA DivideHeaders ==
    ASSUME NEW h, Linear(h), NEW b \in Blocks(h), NEW n \in Nat,
           h.hdr[b].size > n + Hdr
    PROVE  DividedHeaders(h, Divide(h, b, n), b, n, b + Hdr + n, End(h, b),
                          h.hdr[b].size - n - Hdr)
<1> DEFINE new == b + Hdr + n
           next == End(h, b)
           rest == h.hdr[b].size - n - Hdr
           N == [allocated |-> FALSE, before |-> b, size |-> rest]
           g == [h EXCEPT !.hdr[new] =
                           [allocated |-> FALSE, before |-> b, size |-> Rest(h, b, n)],
                       !.hdr[b].size = n,
                       !.used = (@ + Hdr) % Word,
                       !.first = IF @ = b THEN new ELSE @,
                       !.top = IF new > @ THEN new ELSE @]
           k == Divide(h, b, n)
<1>1. h \in HeapState
  BY DEF Linear
<1>2. /\ b \in Addr /\ b \in Nat /\ h.size \in Nat /\ h.hdr[b].size \in Nat
      /\ h.hdr[b].size \in Size
      /\ h.hdr \in [Addr -> Header \union {None}] /\ h.hdr[b] \in Header
      /\ h.size \in Addr /\ h.used \in Size /\ h.top \in Addr /\ h.first \in Addr
  BY <1>1, BlockTypes
<1>3. Limit \in Nat /\ Word \in Nat /\ Hdr \in Nat /\ Hdr > 0 /\ Limit < Word
  BY SizeAssumption
<1>4. b < new /\ new < next /\ next \in Nat /\ next <= h.size /\ new \in Nat
  BY <1>2, <1>3 DEF Linear, End
<1>5. new \in Addr \ Blocks(h)
  <2>1. new \in Addr
    BY <1>2, <1>3, <1>4 DEF Addr
  <2>2. new \notin Blocks(h)
    BY <1>4 DEF Linear
  <2> QED BY <2>1, <2>2
<1>6. rest \in Size /\ Rest(h, b, n) = rest /\ new + Hdr + rest = next
  <2>1. rest \in Nat /\ rest < Word
    BY <1>2, <1>3 DEF Size
  <2>2. rest % Word = rest
    BY <1>3, <2>1, WordMod
  <2> QED BY <1>2, <1>3, <2>1, <2>2 DEF Rest, Size, End
<1>7. N \in Header
  BY <1>2, <1>6 DEF Header
<1>8. [h.hdr[b] EXCEPT !.size = n] \in Header
  BY <1>2, <1>3 DEF Header, Size
<1> SUFFICES DividedHeaders(h, k, b, n, new, next, rest)
  OBVIOUS
<1> HIDE DEF rest, N
<1>9. /\ g.hdr = [[h.hdr EXCEPT ![new] = N] EXCEPT ![b].size = n]
      /\ g.size = h.size /\ g.used = (h.used + Hdr) % Word
      /\ g.first = IF h.first = b THEN new ELSE h.first
      /\ g.top = IF new > h.top THEN new ELSE h.top
  BY <1>1, <1>6 DEF HeapState, N
<1>10. /\ g.hdr \in [Addr -> Header \union {None}]
       /\ g.hdr[new] = N /\ g.hdr[b] = [h.hdr[b] EXCEPT !.size = n]
       /\ \A a \in Addr \ {b, new} : g.hdr[a] = h.hdr[a]
  BY <1>2, <1>4, <1>5, <1>7, <1>8, <1>9
<1>11. g \in HeapState
  <2>1. (h.used + Hdr) % Word \in Size
    BY <1>2, <1>3 DEF Size
  <2>2. DOMAIN g = DOMAIN h
    OBVIOUS
  <2>3. g.top \in Addr /\ g.first \in Addr /\ g.size \in Addr /\ g.used \in Size
    BY <1>2, <1>5, <1>9, <2>1
  <2> QED BY <1>1, <1>10, <2>3 DEF HeapState
<1>12. Following(g, new) = next
  <2>1. next % Word = next
    <3> HIDE DEF next
    <3>1. next < Word
      BY <1>2, <1>3, <1>4 DEF Addr
    <3> QED BY <1>3, <1>4, <3>1, WordMod
  <2> QED BY <1>6, <1>10, <2>1 DEF Following, N
<1>13. k = IF Valid(g, next) THEN [g EXCEPT !.hdr[next].before = new] ELSE g
  <2>1. k = IF Valid(g, Following(g, new))
            THEN [g EXCEPT !.hdr[Following(g, new)].before = new] ELSE g
    BY DEF Divide
  <2> HIDE DEF g, k, next, new
  <2> QED BY <1>12, <2>1
<1>14. Valid(g, next) <=> next \in Blocks(h)
  <2>1. next # b /\ next # new
    BY <1>2, <1>4
  <2>2. CASE next \in Blocks(h)
    <3>1. next \in Addr /\ next < h.size
      BY <2>2, BlockBelow DEF Blocks
    <3> QED BY <1>9, <1>10, <2>1, <2>2, <3>1 DEF Valid, Blocks
  <2>3. CASE next \notin Blocks(h)
    BY <1>2, <1>9, <2>3, NextBlock DEF Valid
  <2> QED BY <2>2, <2>3
<1> HIDE DEF g, k, new, next
<1>15. CASE next \notin Blocks(h)
  <2>1. k = g
    BY <1>13, <1>14, <1>15
  <2>2. g.hdr[new] \in Header /\ g.hdr[b] \in Header
    BY <1>7, <1>8, <1>10
  <2> QED BY <1>4, <1>5, <1>6, <1>9, <1>10, <1>11, <1>15, <2>1, <2>2 DEF N, DividedHeaders
<1>16. CASE next \in Blocks(h)
  <2>1. k = [g EXCEPT !.hdr[next].before = new]
    BY <1>13, <1>14, <1>16
  <2>2. /\ k.hdr = [g.hdr EXCEPT ![next].before = new]
        /\ k.size = g.size /\ k.used = g.used /\ k.first = g.first /\ k.top = g.top
    BY <1>11, <2>1 DEF HeapState
  <2>3. next \in Addr /\ h.hdr[next] # None /\ next # b /\ next # new
    BY <1>2, <1>4, <1>16 DEF Blocks
  <2>4. g.hdr[next] = h.hdr[next] /\ h.hdr[next] \in Header
    BY <1>2, <1>10, <2>3
  <2>5. [h.hdr[next] EXCEPT !.before = new] \in Header
    BY <1>5, <2>4 DEF Header
  <2>6. /\ k.hdr \in [Addr -> Header \union {None}]
        /\ k.hdr[next] = [h.hdr[next] EXCEPT !.before = new]
        /\ \A a \in Addr \ {next} : k.hdr[a] = g.hdr[a]
    BY <1>10, <2>2, <2>3, <2>4, <2>5
  <2>7. k \in HeapState
    BY <1>11, <2>1, <2>2, <2>6 DEF HeapState
  <2>8. /\ k.hdr[new] = N /\ k.hdr[b] = [h.hdr[b] EXCEPT !.size = n]
        /\ \A a \in Addr \ {b, new} : a # next => k.hdr[a] = h.hdr[a]
    BY <1>2, <1>5, <1>10, <2>3, <2>6
  <2>9. /\ k.size = h.size /\ k.used = (h.used + Hdr) % Word
        /\ k.first = IF h.first = b THEN new ELSE h.first
        /\ k.top = IF new > h.top THEN new ELSE h.top
    BY <1>9, <2>2
  <2>10. k.hdr[new] \in Header /\ k.hdr[b] \in Header /\ k.hdr[next] \in Header
    BY <1>7, <1>8, <2>5, <2>6, <2>8
  <2> QED BY <1>4, <1>5, <1>6, <1>16, <2>6, <2>7, <2>8, <2>9, <2>10 DEF N, DividedHeaders
<1> QED BY <1>15, <1>16

LEMMA DivideSpec ==
    ASSUME NEW h, Linear(h), NEW b \in Blocks(h), NEW n \in Nat,
           h.hdr[b].size > n + Hdr
    PROVE  Divided(h, Divide(h, b, n), b, b + Hdr + n)
<1> DEFINE g == Divide(h, b, n)
           new == b + Hdr + n
           next == End(h, b)
           rest == h.hdr[b].size - n - Hdr
<1>1. DividedHeaders(h, g, b, n, new, next, rest)
  BY DivideHeaders
<1>2. g.hdr[b].size = n => End(g, b) = new
  BY DEF End
<1>3. g.hdr[new].size = rest /\ new + Hdr + rest = next => End(g, new) = next
  BY DEF End
<1>4. h \in HeapState /\ b \in Addr /\ b \in Nat /\ h.hdr[b] \in Header /\ h.hdr[b] # None
      /\ next \in Nat /\ h.size \in Nat /\ next <= h.size
  BY BlockTypes DEF Linear
<1>5. next \in Blocks(h) => h.hdr[next] \in Header /\ next \in Addr
  BY <1>4, BlockTypes
<1> SUFFICES Divided(h, g, b, new)
  OBVIOUS
<1>6. \A c \in Blocks(h) : c \in Addr /\ c \in Nat /\ End(h, c) \in Nat /\ c < End(h, c)
                            /\ h.hdr[c] # None
  BY <1>4, BlockTypes
<1>7. new \in Nat
  BY <1>4, SizeAssumption
<1>8. None \notin Header
  BY NoneAssumption
<1> HIDE DEF g, new, next, rest
<1>9. Blocks(g) = Blocks(h) \union {new}
  <2>1. \A a \in Addr : g.hdr[a] = None <=> (h.hdr[a] = None /\ a # new)
    <3>1. g.hdr[new] # None /\ g.hdr[b] # None /\ (next \in Blocks(h) => g.hdr[next] # None)
      BY <1>1, <1>8 DEF DividedHeaders
    <3>2. h.hdr[b] # None /\ (next \in Blocks(h) => h.hdr[next] # None)
      BY <1>4, <1>6
    <3>3. new \in Addr \ Blocks(h)
      BY <1>1 DEF DividedHeaders
    <3>4. h.hdr[new] = None
      BY <3>3 DEF Blocks
    <3>5. \A a \in Addr \ {b, new} : a # next \/ next \notin Blocks(h) => g.hdr[a] = h.hdr[a]
      BY <1>1 DEF DividedHeaders
    <3> QED BY <3>1, <3>2, <3>4, <3>5
  <2>2. new \in Addr
    BY <1>1 DEF DividedHeaders
  <2> QED BY <2>1, <2>2 DEF Blocks
<1>10. g.hdr[b].size = n /\ g.hdr[b].allocated = h.hdr[b].allocated
       /\ g.hdr[b].before = h.hdr[b].before
  BY <1>1, <1>4 DEF DividedHeaders, Header
<1>11. g.hdr[new].size = rest /\ g.hdr[new].allocated = FALSE /\ g.hdr[new].before = b
  BY <1>1 DEF DividedHeaders
<1>12. next \in Blocks(h) =>
          /\ g.hdr[next].before = new /\ g.hdr[next].size = h.hdr[next].size
          /\ g.hdr[next].allocated = h.hdr[next].allocated
  BY <1>1, <1>5 DEF DividedHeaders, Header
<1>13. \A c \in Blocks(h) \ {b} :
          /\ g.hdr[c].size = h.hdr[c].size /\ g.hdr[c].allocated = h.hdr[c].allocated
          /\ c # next => g.hdr[c].before = h.hdr[c].before
  <2> SUFFICES ASSUME NEW c \in Blocks(h) \ {b}
               PROVE  /\ g.hdr[c].size = h.hdr[c].size /\ g.hdr[c].allocated = h.hdr[c].allocated
                      /\ c # next => g.hdr[c].before = h.hdr[c].before
    OBVIOUS
  <2>1. CASE c = next
    BY <1>12, <2>1
  <2>2. CASE c # next
    <3>1. c \in Addr \ {b, new}
      BY <1>1, <1>6 DEF DividedHeaders
    <3>2. g.hdr[c] = h.hdr[c]
      BY <1>1, <2>2, <3>1 DEF DividedHeaders
    <3> QED BY <3>2
  <2> QED BY <2>1, <2>2
<1>14. End(g, b) = new /\ End(g, new) = next
  BY <1>1, <1>2, <1>3, <1>10, <1>11 DEF DividedHeaders
<1>15. \A c \in Blocks(h) \ {b} : End(g, c) = End(h, c)
  BY <1>13 DEF End
<1>16. /\ new \in Addr \ Blocks(h) /\ b < new /\ new < next
       /\ g.size = h.size /\ g.used = (h.used + Hdr) % Word
       /\ g.first = IF h.first = b THEN new ELSE h.first
       /\ g.top = IF new > h.top THEN new ELSE h.top
       /\ g \in HeapState
  BY <1>1 DEF DividedHeaders
<1>17. Linear(g)
  <2>1. 0 \in Blocks(g) /\ g.hdr[0].before = None
    <3>1. 0 \in Blocks(h) /\ h.hdr[0].before = None /\ 0 # next
      BY <1>4, <1>6, <1>7, <1>16 DEF Linear
    <3> QED BY <1>9, <1>10, <1>13, <3>1
  <2>2. ASSUME NEW c \in Blocks(g)
        PROVE  End(g, c) <= g.size /\ End(g, c) \in Blocks(g) \union {g.size}
    <3>1. CASE c = b
      BY <1>4, <1>7, <1>9, <1>14, <1>16, <3>1
    <3>2. next \in Blocks(h) \union {h.size}
      BY DEF Linear, next
    <3>3. CASE c = new
      BY <1>4, <1>9, <1>14, <1>16, <3>2, <3>3
    <3>4. CASE c \in Blocks(h) \ {b}
      BY <1>9, <1>15, <1>16, <3>4 DEF Linear
    <3> QED BY <1>9, <2>2, <3>1, <3>3, <3>4
  <2>3. ASSUME NEW c \in Blocks(g), NEW d \in Blocks(g), c < d
        PROVE  End(g, c) <= d
    <3>1. CASE c = b /\ d = new
      BY <1>7, <1>14, <3>1
    <3>2. CASE c = b /\ d \in Blocks(h)
      <4>1. next <= d
        BY <2>3, <3>2 DEF Linear, next
      <4> QED BY <1>4, <1>6, <1>7, <1>14, <1>16, <3>2, <4>1
    <3>3. CASE c = new /\ d \in Blocks(h)
      <4> b \in Nat /\ d \in Nat /\ new \in Nat /\ b < new /\ new < d
        BY <1>4, <1>6, <1>7, <1>16, <2>3, <3>3
      <4>1. b < d
        OBVIOUS
      <4>2. next <= d
        BY <3>3, <4>1 DEF Linear, next
      <4> QED BY <1>14, <3>3, <4>2
    <3>4. CASE c \in Blocks(h) \ {b} /\ d = new
      <4>1. c < b
        <5> b \in Nat /\ c \in Nat /\ c # b
          BY <1>4, <1>6, <3>4
        <5>1. CASE c > b
          <6>1. next <= c
            BY <3>4, <5>1 DEF Linear, next
          <6> QED BY <1>4, <1>6, <1>7, <1>16, <2>3, <3>4, <6>1
        <5> QED BY <5>1
      <4>2. End(h, c) <= b
        BY <3>4, <4>1 DEF Linear
      <4> QED BY <1>4, <1>6, <1>7, <1>15, <1>16, <3>4, <4>2
    <3>5. CASE c \in Blocks(h) \ {b} /\ d \in Blocks(h)
      BY <1>15, <2>3, <3>5 DEF Linear
    <3>6. CASE c = new /\ d = new
      BY <1>7, <2>3, <3>6
    <3> QED BY <1>9, <2>3, <3>1, <3>2, <3>3, <3>4, <3>5, <3>6
  <2>4. ASSUME NEW c \in Blocks(g) \ {0}
        PROVE  g.hdr[c].before \in Blocks(g) /\ End(g, g.hdr[c].before) = c
    <3>1. CASE c = new
      BY <1>9, <1>11, <1>14, <3>1
    <3>2. CASE c \in Blocks(h) /\ c = next
      BY <1>9, <1>12, <1>14, <3>2
    <3>3. CASE c \in Blocks(h) /\ c # next
      <4>1. h.hdr[c].before \in Blocks(h) /\ End(h, h.hdr[c].before) = c
        BY <2>4, <3>3 DEF Linear
      <4>2. h.hdr[c].before # b
        BY <3>3, <4>1 DEF next
      <4>3. g.hdr[c].before = h.hdr[c].before
        BY <1>10, <1>13, <3>3
      <4> QED BY <1>9, <1>15, <4>1, <4>2, <4>3
    <3> QED BY <1>9, <2>4, <3>1, <3>2, <3>3
  <2>5. g.top \in Blocks(g) /\ End(g, g.top) = g.size
    <3>1. h.top \in Blocks(h) /\ End(h, h.top) = h.size /\ h.top \in Nat
      BY <1>6 DEF Linear
    <3>2. CASE h.top = b
      BY <1>4, <1>7, <1>9, <1>14, <1>16, <3>1, <3>2 DEF next
    <3>3. CASE h.top # b
      <4>1. ~(h.top < b)
        <5>1. h.top < b => h.size <= b
          BY <3>1 DEF Linear
        <5> QED BY <1>4, <1>7, <1>16, <5>1
      <4>2. next <= h.top
        BY <1>4, <3>1, <3>3, <4>1 DEF Linear, next
      <4>3. g.top = h.top
        BY <1>4, <1>7, <1>16, <3>1, <4>2
      <4> QED BY <1>9, <1>15, <1>16, <3>1, <3>3, <4>3
    <3> QED BY <3>2, <3>3
  <2> QED BY <1>16, <2>1, <2>2, <2>3, <2>4, <2>5 DEF Linear
<1>18. /\ Free(g, new) /\ \A c \in Blocks(h) : g.hdr[c].allocated = h.hdr[c].allocated
       /\ \A c \in Blocks(h) \ {b} : g.hdr[c].size = h.hdr[c].size
  BY <1>10, <1>11, <1>13 DEF Free
<1> QED BY <1>9, <1>14, <1>16, <1>17, <1>18 DEF Divided, next

-----------------------------------------------------------------------------
(* Merging a block with the next one.                                      *)

(* k is h with block b enlarged by the next block n, up to m.              *)
AbsorbedHeaders(h, k, b, n, m) ==
    /\ k.hdr \in [Addr -> Header \union {None}] /\ k.hdr[n] = None
    /\ k.hdr[b] = [h.hdr[b] EXCEPT !.size = h.hdr[b].size + Hdr + h.hdr[n].size]
    /\ k.hdr[b] \in Header
    /\ m \in Blocks(h) =>
        k.hdr[m] = [h.hdr[m] EXCEPT !.before = b] /\ k.hdr[m] \in Header
    /\ \A a \in Addr \ {b, n} : a # m \/ m \notin Blocks(h) => k.hdr[a] = h.hdr[a]
    /\ k.size = h.size /\ k.used = (h.used - Hdr) % Word /\ k.first = h.first
    /\ k.top = IF h.top = n THEN b ELSE h.top
    /\ k \in HeapState

LEMMA AbsorbHeaders ==
    ASSUME NEW h, Linear(h), NEW b \in Blocks(h), End(h, b) \in Blocks(h),
           Free(h, End(h, b))
    PROVE  AbsorbedHeaders(h, Absorb(h, b), b, End(h, b), End(h, End(h, b)))
<1> DEFINE n == End(h, b)
           m == End(h, n)
           linked == IF Valid(h, m) THEN [h EXCEPT !.hdr[m].before = b] ELSE h
           k == [linked EXCEPT !.hdr[b].size = (@ + Hdr + h.hdr[n].size) % Word,
                               !.hdr[n] = None,
                               !.used = (@ - Hdr) % Word,
                               !.top = IF @ = n THEN b ELSE @]
           size == h.hdr[b].size + Hdr + h.hdr[n].size
<1>1. h \in HeapState
  BY DEF Linear
<1>2. /\ b \in Addr /\ b \in Nat /\ h.size \in Nat /\ h.hdr[b].size \in Nat
      /\ h.hdr[b].size \in Size /\ b < n
      /\ h.hdr \in [Addr -> Header \union {None}] /\ h.hdr[b] \in Header
      /\ h.size \in Addr /\ h.used \in Size /\ h.top \in Addr /\ h.first \in Addr
  BY <1>1, BlockTypes
<1>3. /\ n \in Addr /\ n \in Nat /\ h.hdr[n].size \in Nat /\ h.hdr[n] \in Header
      /\ n < m /\ m \in Nat
  BY <1>1, BlockTypes
<1>4. m \in Blocks(h) => m \in Addr /\ h.hdr[m] \in Header
  BY <1>1, BlockTypes
<1>5. m <= h.size
  BY DEF Linear
<1>6. Limit \in Nat /\ Word \in Nat /\ Hdr \in Nat /\ Hdr > 0 /\ Limit < Word
  BY SizeAssumption
<1>7. Following(h, b) = n /\ Valid(h, n)
  BY NextBlock
<1>8. Following(h, n) = m /\ (Valid(h, m) <=> m \in Blocks(h))
  BY NextBlock
<1>9. Absorb(h, b) = k
  <2>1. Absorb(h, b) = LET n_ == Following(h, b)
                           m_ == Following(h, n_)
                           l_ == IF Valid(h, m_) THEN [h EXCEPT !.hdr[m_].before = b] ELSE h
                       IN  [l_ EXCEPT !.hdr[b].size = (@ + Hdr + h.hdr[n_].size) % Word,
                                      !.hdr[n_] = None,
                                      !.used = (@ - Hdr) % Word,
                                      !.top = IF @ = n_ THEN b ELSE @]
    BY <1>7 DEF Absorb
  <2> HIDE DEF n
  <2> QED BY <1>7, <1>8, <2>1
<1>10. size \in Nat /\ size % Word = size /\ size \in Size
  <2>1. size \in Nat /\ b + Hdr + size = m
    BY <1>2, <1>3, <1>6 DEF End
  <2> HIDE DEF n, m, size
  <2>2. size < Word
    BY <1>2, <1>3, <1>5, <1>6, <2>1 DEF Addr
  <2>3. size % Word = size
    BY <1>6, <2>1, <2>2, WordMod
  <2> QED BY <1>6, <2>1, <2>2, <2>3 DEF Size
<1> SUFFICES AbsorbedHeaders(h, k, b, n, m)
  BY <1>9
<1> HIDE DEF n, m
<1>11. /\ linked \in HeapState /\ linked.hdr \in [Addr -> Header \union {None}]
       /\ \A a \in Addr : a # m \/ m \notin Blocks(h) => linked.hdr[a] = h.hdr[a]
       /\ m \in Blocks(h) => linked.hdr[m] = [h.hdr[m] EXCEPT !.before = b]
                             /\ linked.hdr[m] \in Header
       /\ linked.size = h.size /\ linked.used = h.used /\ linked.first = h.first
       /\ linked.top = h.top
  <2>1. CASE m \notin Blocks(h)
    BY <1>1, <1>2, <1>8, <2>1
  <2>2. CASE m \in Blocks(h)
    <3>1. linked = [h EXCEPT !.hdr[m].before = b]
      BY <1>8, <2>2
    <3> HIDE DEF linked
    <3>2. /\ linked.hdr = [h.hdr EXCEPT ![m].before = b]
          /\ linked.size = h.size /\ linked.used = h.used /\ linked.first = h.first
          /\ linked.top = h.top
      BY <1>1, <3>1 DEF HeapState
    <3>3. [h.hdr[m] EXCEPT !.before = b] \in Header
      BY <1>2, <1>4, <2>2 DEF Header
    <3>4. /\ linked.hdr \in [Addr -> Header \union {None}]
          /\ linked.hdr[m] = [h.hdr[m] EXCEPT !.before = b]
          /\ \A a \in Addr : a # m => linked.hdr[a] = h.hdr[a]
      BY <1>2, <1>4, <2>2, <3>2, <3>3
    <3>5. linked \in HeapState
      BY <1>1, <3>1, <3>2, <3>4 DEF HeapState
    <3> QED BY <2>2, <3>2, <3>3, <3>4, <3>5
  <2> QED BY <2>1, <2>2
<1> HIDE DEF linked
<1>12. linked.hdr[b] = h.hdr[b] /\ linked.hdr[n] = h.hdr[n]
  BY <1>2, <1>3, <1>11
<1> HIDE DEF size
<1>13. /\ k.hdr = [[linked.hdr EXCEPT ![b].size = size] EXCEPT ![n] = None]
       /\ k.size = h.size /\ k.used = (h.used - Hdr) % Word /\ k.first = h.first
       /\ k.top = IF h.top = n THEN b ELSE h.top
  <2>1. (linked.hdr[b].size + Hdr + h.hdr[n].size) % Word = size
    BY <1>10, <1>12 DEF size
  <2> QED BY <1>11, <2>1 DEF HeapState
<1>14. [h.hdr[b] EXCEPT !.size = size] \in Header
  BY <1>2, <1>10 DEF Header
<1>15. /\ k.hdr \in [Addr -> Header \union {None}] /\ k.hdr[n] = None
       /\ k.hdr[b] = [h.hdr[b] EXCEPT !.size = size]
       /\ \A a \in Addr \ {b, n} : k.hdr[a] = linked.hdr[a]
  <2>1. b # n
    BY <1>2, <1>3
  <2> HIDE DEF k
  <2> QED BY <1>2, <1>3, <1>11, <1>12, <1>13, <1>14, <2>1
<1>16. k \in HeapState
  <2>1. (h.used - Hdr) % Word \in Size
    BY <1>2, <1>6 DEF Size
  <2>2. k.top \in Addr /\ k.first \in Addr /\ k.size \in Addr /\ k.used \in Size
    BY <1>2, <1>13, <2>1
  <2> QED BY <1>11, <1>15, <2>2 DEF HeapState
<1> HIDE DEF k
<1>17. m \in Blocks(h) => k.hdr[m] = [h.hdr[m] EXCEPT !.before = b] /\ k.hdr[m] \in Header
  BY <1>2, <1>3, <1>4, <1>11, <1>15
<1>18. \A a \in Addr \ {b, n} : a # m \/ m \notin Blocks(h) => k.hdr[a] = h.hdr[a]
  BY <1>11, <1>15
<1> QED BY <1>13, <1>14, <1>15, <1>16, <1>17, <1>18 DEF AbsorbedHeaders, size

Absorbed(h, g, b, n) ==
    /\ Linear(g) /\ b \in Blocks(g) /\ n \in Blocks(h)
    /\ Blocks(g) = Blocks(h) \ {n}
    /\ End(h, b) = n /\ End(g, b) = End(h, n)
    /\ \A c \in Blocks(g) : g.hdr[c].allocated = h.hdr[c].allocated
    /\ \A c \in Blocks(g) \ {b} : g.hdr[c].size = h.hdr[c].size
    /\ g.size = h.size /\ g.used = (h.used - Hdr) % Word /\ g.first = h.first

LEMMA AbsorbSpec ==
    ASSUME NEW h, Linear(h), NEW b \in Blocks(h), End(h, b) \in Blocks(h),
           Free(h, End(h, b))
    PROVE  Absorbed(h, Absorb(h, b), b, End(h, b))
<1> DEFINE g == Absorb(h, b)
           n == End(h, b)
           m == End(h, n)
           size == h.hdr[b].size + Hdr + h.hdr[n].size
<1>1. AbsorbedHeaders(h, g, b, n, m)
  BY AbsorbHeaders
<1>2. \A c \in Blocks(h) : /\ c \in Addr /\ c \in Nat /\ End(h, c) \in Nat /\ c < End(h, c)
                           /\ h.hdr[c] # None /\ h.hdr[c] \in Header
                           /\ h.hdr[c].size \in Nat /\ h.size \in Nat
  BY BlockTypes DEF Linear
<1>3. b + Hdr + size = m
  BY <1>2, SizeAssumption DEF End
<1>4. g.hdr[b].size = size => End(g, b) = m
  BY <1>3 DEF End
<1>5. g.hdr[b].size = size /\ g.hdr[b].allocated = h.hdr[b].allocated
      /\ g.hdr[b].before = h.hdr[b].before
  BY <1>1, <1>2 DEF AbsorbedHeaders, Header
<1>6. b < n /\ n < m /\ n \in Nat /\ m \in Nat /\ n \in Blocks(h) /\ b \in Nat
  BY <1>2
<1>7. m \in Blocks(h) \union {h.size} /\ m <= h.size
  BY DEF Linear
<1> SUFFICES Absorbed(h, g, b, n)
  OBVIOUS
<1>8. m \in Blocks(h) => /\ g.hdr[m].before = b /\ g.hdr[m].size = h.hdr[m].size
                         /\ g.hdr[m].allocated = h.hdr[m].allocated
  BY <1>1, <1>2 DEF AbsorbedHeaders, Header
<1>9. End(g, b) = m
  BY <1>4, <1>5
<1>10. \A c \in Blocks(h) : c > b => c >= n
  BY <1>2, <1>6 DEF Linear
<1>11. \A c \in Blocks(h) : c > n => c >= m
  BY <1>2, <1>6 DEF Linear
<1> HIDE DEF g, m, size
<1>12. Blocks(g) = Blocks(h) \ {n}
  <2>1. \A a \in Addr : g.hdr[a] = None <=> (h.hdr[a] = None \/ a = n)
    <3>1. g.hdr[b] # None /\ h.hdr[b] # None /\ g.hdr[n] = None
          /\ (m \in Blocks(h) => g.hdr[m] # None /\ h.hdr[m] # None)
      BY <1>1, <1>2, NoneAssumption DEF AbsorbedHeaders
    <3>2. \A a \in Addr \ {b, n} : a # m \/ m \notin Blocks(h) => g.hdr[a] = h.hdr[a]
      BY <1>1 DEF AbsorbedHeaders
    <3>3. b # n /\ m # n
      BY <1>6
    <3> HIDE DEF n
    <3> QED BY <3>1, <3>2, <3>3
  <2> HIDE DEF n
  <2> QED BY <2>1 DEF Blocks
<1>13. \A c \in Blocks(h) \ {b, n} :
          /\ g.hdr[c].size = h.hdr[c].size /\ g.hdr[c].allocated = h.hdr[c].allocated
          /\ c # m => g.hdr[c].before = h.hdr[c].before
  <2> SUFFICES ASSUME NEW c \in Blocks(h) \ {b, n}
               PROVE  /\ g.hdr[c].size = h.hdr[c].size /\ g.hdr[c].allocated = h.hdr[c].allocated
                      /\ c # m => g.hdr[c].before = h.hdr[c].before
    OBVIOUS
  <2> HIDE DEF n
  <2>1. CASE c = m
    BY <1>8, <2>1
  <2>2. CASE c # m
    <3>1. c \in Addr \ {b, n}
      BY <1>2
    <3>2. g.hdr[c] = h.hdr[c]
      BY <1>1, <2>2, <3>1 DEF AbsorbedHeaders
    <3> QED BY <3>2
  <2> QED BY <2>1, <2>2
<1>14. \A c \in Blocks(h) \ {b, n} : End(g, c) = End(h, c)
  BY <1>13 DEF End
<1>15. /\ g.size = h.size /\ g.used = (h.used - Hdr) % Word /\ g.first = h.first
       /\ g.top = (IF h.top = n THEN b ELSE h.top) /\ g \in HeapState
  BY <1>1 DEF AbsorbedHeaders
<1>16. Linear(g)
  <2>1. 0 \in Blocks(g) /\ g.hdr[0].before = None
    <3>1. 0 \in Blocks(h) /\ h.hdr[0].before = None /\ 0 # n /\ 0 # m
      BY <1>6 DEF Linear
    <3> HIDE DEF n
    <3> QED BY <1>5, <1>12, <1>13, <3>1
  <2>2. ASSUME NEW c \in Blocks(g)
        PROVE  End(g, c) <= g.size /\ End(g, c) \in Blocks(g) \union {g.size}
    <3>1. CASE c = b
      BY <1>6, <1>7, <1>9, <1>12, <1>15, <3>1
    <3>2. CASE c # b
      <4>1. c \in Blocks(h) \ {b, n} /\ End(g, c) = End(h, c)
        BY <1>12, <1>14, <2>2, <3>2
      <4>2. End(h, c) # n
        <5>1. CASE c < b
          <6>1. End(h, c) <= b
            BY <4>1, <5>1 DEF Linear
          <6> QED BY <1>2, <1>6, <4>1, <6>1
        <5>2. CASE c > b
          <6>1. c >= n
            BY <1>10, <4>1, <5>2
          <6> QED BY <1>2, <1>6, <4>1, <6>1
        <5> QED BY <1>2, <1>6, <3>2, <4>1, <5>1, <5>2
      <4>3. End(h, c) <= h.size /\ End(h, c) \in Blocks(h) \union {h.size}
        BY <4>1 DEF Linear
      <4> QED BY <1>12, <1>15, <4>1, <4>2, <4>3
    <3> QED BY <3>1, <3>2
  <2>3. ASSUME NEW c \in Blocks(g), NEW d \in Blocks(g), c < d
        PROVE  End(g, c) <= d
    <3>1. c \in Blocks(h) /\ d \in Blocks(h) /\ c # n /\ d # n
      BY <1>12
    <3>2. CASE c = b
      <4>1. d > n
        <5> n \in Nat /\ d \in Nat /\ d # n /\ d > b
          BY <1>2, <1>6, <2>3, <3>1, <3>2
        <5>1. d >= n
          BY <1>10, <3>1
        <5> QED BY <5>1
      <4> QED BY <1>2, <1>6, <1>9, <1>11, <3>1, <3>2, <4>1
    <3>3. CASE c # b
      BY <1>14, <2>3, <3>1, <3>3 DEF Linear
    <3> QED BY <3>2, <3>3
  <2>4. ASSUME NEW c \in Blocks(g) \ {0}
        PROVE  g.hdr[c].before \in Blocks(g) /\ End(g, g.hdr[c].before) = c
    <3>1. c \in Blocks(h) \ {0} /\ c # n
      BY <1>12
    <3>2. CASE c = m
      <4>1. b \in Blocks(g)
        BY <1>6, <1>12
      <4> QED BY <1>8, <1>9, <3>1, <3>2, <4>1
    <3>3. CASE c # m
      <4>1. h.hdr[c].before \in Blocks(h) /\ End(h, h.hdr[c].before) = c
        BY <3>1 DEF Linear
      <4>2. h.hdr[c].before # b /\ h.hdr[c].before # n
        BY <3>1, <3>3, <4>1 DEF m
      <4>3. g.hdr[c].before = h.hdr[c].before
        BY <1>5, <1>13, <3>1, <3>3
      <4> QED BY <1>12, <1>14, <4>1, <4>2, <4>3
    <3> QED BY <3>2, <3>3
  <2>5. g.top \in Blocks(g) /\ End(g, g.top) = g.size
    <3>1. h.top \in Blocks(h) /\ End(h, h.top) = h.size
      BY DEF Linear
    <3>2. CASE h.top = n
      <4>1. g.top = b /\ b \in Blocks(g) /\ m = h.size
        BY <1>6, <1>12, <1>15, <3>1, <3>2 DEF m
      <4> QED BY <1>9, <1>15, <4>1
    <3>3. CASE h.top # n
      <4>1. h.top # b
        BY <1>6, <1>7, <1>2, <3>1
      <4> QED BY <1>12, <1>14, <1>15, <3>1, <3>3, <4>1
    <3> QED BY <3>2, <3>3
  <2> QED BY <1>15, <2>1, <2>2, <2>3, <2>4, <2>5 DEF Linear
<1>17. b \in Blocks(g) /\ n \in Blocks(h) /\ End(h, b) = n
  BY <1>6, <1>12
<1>18. \A c \in Blocks(g) : g.hdr[c].allocated = h.hdr[c].allocated
  BY <1>5, <1>12, <1>13
<1>19. \A c \in Blocks(g) \ {b} : g.hdr[c].size = h.hdr[c].size
  BY <1>12, <1>13
<1> HIDE DEF n
<1> QED BY <1>9, <1>12, <1>15, <1>16, <1>17, <1>18, <1>19 DEF Absorbed, m

-----------------------------------------------------------------------------
(* Merging.                                                                *)

LEMMA FollowingType ==
    ASSUME NEW h \in HeapState, NEW b \in Blocks(h)
    PROVE  /\ Following(h, b) \in Nat
           /\ Valid(h, Following(h, b)) => Following(h, b) \in Blocks(h)
<1>1. b \in Nat /\ h.hdr[b].size \in Nat /\ h.size \in Addr
  BY BlockTypes
<1>2. Limit \in Nat /\ Word \in Nat /\ Limit < Word /\ Hdr \in Nat
  BY SizeAssumption
<1> DEFINE x == b + Hdr + h.hdr[b].size
<1>3. x \in Nat /\ Following(h, b) = x % Word
  BY <1>1, <1>2 DEF Following
<1> HIDE DEF x
<1>4. Following(h, b) \in Nat
  BY <1>2, <1>3
<1> QED BY <1>1, <1>2, <1>4 DEF Valid, Blocks, Addr

(* Whatever the headers are, heaps stay of their type.                     *)
LEMMA AbsorbType ==
    ASSUME NEW h \in HeapState, NEW b \in Blocks(h)
    PROVE  Absorb(h, b) \in HeapState
<1> DEFINE n == Following(h, b)
           m == Following(h, n)
           linked == IF Valid(h, m) THEN [h EXCEPT !.hdr[m].before = b] ELSE h
           k == [linked EXCEPT !.hdr[b].size = (@ + Hdr + h.hdr[n].size) % Word,
                               !.hdr[n] = None,
                               !.used = (@ - Hdr) % Word,
                               !.top = IF @ = n THEN b ELSE @]
<1>1. Absorb(h, b) = IF ~(Valid(h, n) /\ Free(h, n)) THEN h ELSE k
  BY DEF Absorb
<1> SUFFICES ASSUME Valid(h, n) PROVE k \in HeapState
  BY <1>1
<1>2. n \in Blocks(h)
  BY FollowingType
<1>3. Valid(h, m) => m \in Blocks(h)
  BY <1>2, FollowingType
<1> HIDE DEF n, m
<1>4. /\ b \in Addr /\ h.hdr \in [Addr -> Header \union {None}]
      /\ h.hdr[b] \in Header /\ h.used \in Size /\ h.top \in Addr /\ n \in Addr
      /\ h.hdr[n].size \in Nat
      /\ m \in Blocks(h) => m \in Addr /\ h.hdr[m] \in Header
  BY <1>2, BlockTypes
<1>5. Limit \in Nat /\ Word \in Nat /\ Hdr \in Nat /\ Hdr > 0 /\ Limit < Word
  BY SizeAssumption
<1>6. linked \in HeapState /\ linked.hdr[b] \in Header /\ linked.top = h.top
  <2>1. CASE ~Valid(h, m)
    BY <1>4, <2>1
  <2>2. CASE Valid(h, m)
    <3>1. linked = [h EXCEPT !.hdr[m].before = b] /\ m \in Addr /\ h.hdr[m] \in Header
      BY <1>3, <1>4, <2>2
    <3> HIDE DEF linked
    <3>2. [h.hdr[m] EXCEPT !.before = b] \in Header
      BY <1>4, <3>1 DEF Header
    <3>3. linked.hdr = [h.hdr EXCEPT ![m].before = b] /\ linked.top = h.top
      BY <3>1 DEF HeapState
    <3>4. linked.hdr \in [Addr -> Header \union {None}]
      BY <1>4, <3>2, <3>3
    <3>5. linked.hdr[b] \in Header
      BY <1>4, <3>1, <3>2, <3>3
    <3>6. linked \in HeapState
      BY <3>1, <3>4 DEF HeapState
    <3> QED BY <3>3, <3>5, <3>6
  <2> QED BY <2>1, <2>2
<1> HIDE DEF linked
<1> DEFINE size == (linked.hdr[b].size + Hdr + h.hdr[n].size) % Word
           used == (linked.used - Hdr) % Word
<1>7. size \in Size
  <2>1. linked.hdr[b].size \in Nat
    BY <1>5, <1>6 DEF Header, Size
  <2>2. linked.hdr[b].size + Hdr + h.hdr[n].size \in Nat
    BY <1>4, <1>5, <2>1
  <2> QED BY <1>5, <2>2 DEF Size
<1>8. used \in Size
  BY <1>5, <1>6 DEF HeapState, Size
<1>9. k = [linked EXCEPT !.hdr = [[linked.hdr EXCEPT ![b].size = size] EXCEPT ![n] = None],
                         !.used = used, !.top = IF h.top = n THEN b ELSE h.top]
  BY <1>6 DEF HeapState
<1> HIDE DEF size, used, k
<1>10. [linked.hdr[b] EXCEPT !.size = size] \in Header
  BY <1>6, <1>7 DEF Header
<1>11. linked.hdr \in [Addr -> Header \union {None}]
  BY <1>6 DEF HeapState
<1>12. [[linked.hdr EXCEPT ![b].size = size] EXCEPT ![n] = None]
          \in [Addr -> Header \union {None}]
  BY <1>4, <1>10, <1>11
<1>13. (IF h.top = n THEN b ELSE h.top) \in Addr
  BY <1>4
<1> QED BY <1>6, <1>8, <1>9, <1>12, <1>13 DEF HeapState

(* merge_empty_blocks goes on with the block before.                       *)
GoesOn(h, b) ==
    /\ h.hdr[b].before # None /\ Absorb(h, b).hdr[h.hdr[b].before] # None
    /\ Free(Absorb(h, b), h.hdr[b].before)

LEMMA MergeStep ==
    ASSUME NEW h \in HeapState, NEW b \in Blocks(h)
    PROVE  Merge(h, b) = IF GoesOn(h, b) THEN Merge(Absorb(h, b), h.hdr[b].before)
                         ELSE [heap |-> Absorb(h, b), block |-> b]
<1> DEFINE D == {s \in [heap : HeapState, block : Addr] : s.block \in Blocks(s.heap)}
           C == {s \in D : GoesOn(s.heap, s.block)}
           N == [s \in D |-> [heap |-> Absorb(s.heap, s.block),
                              block |-> s.heap.hdr[s.block].before]]
           V == [s \in D |-> [heap |-> Absorb(s.heap, s.block), block |-> s.block]]
           Merges(f) == f = [s \in D |->
               LET g == Absorb(s.heap, s.block)
                   before == s.heap.hdr[s.block].before
               IN  IF before # None /\ g.hdr[before] # None /\ Free(g, before)
                   THEN f[[heap |-> g, block |-> before]]
                   ELSE [heap |-> g, block |-> s.block]]
           f == CHOOSE f : Merges(f)
<1>1. \A g, c : Merge(g, c) = f[[heap |-> g, block |-> c]]
  BY DEF Merge
<1>2. \A g : Merges(g) <=> Continues(g, D, C, N, V)
  <2> HIDE DEF D
  <2> QED BY DEF Continues, GoesOn
<1>3. \A s \in C : N[s] \in D
  <2> SUFFICES ASSUME NEW s \in D, GoesOn(s.heap, s.block)
               PROVE  [heap |-> Absorb(s.heap, s.block),
                       block |-> s.heap.hdr[s.block].before] \in D
    OBVIOUS
  <2> DEFINE g == Absorb(s.heap, s.block)
             before == s.heap.hdr[s.block].before
  <2>1. s.heap \in HeapState /\ s.block \in Blocks(s.heap)
    OBVIOUS
  <2>2. g \in HeapState
    BY <2>1, AbsorbType
  <2>3. before \in Addr
    BY <2>1, BlockTypes DEF GoesOn
  <2>4. before \in Blocks(g)
    BY <2>3 DEF GoesOn, Blocks
  <2> HIDE DEF g, before
  <2> QED BY <2>2, <2>3, <2>4 DEF g, before
<1>4. Continues(f, D, C, N, V)
  <2>1. C \in SUBSET D
    OBVIOUS
  <2>2. \E g : Continues(g, D, C, N, V)
    <3> HIDE DEF C, D, N, V, Merges, f
    <3> QED BY <1>3, <2>1, TailRecursion, ZenonT(30)
  <2> HIDE DEF Merges
  <2> QED BY <1>2, <2>2
<1> DEFINE s == [heap |-> h, block |-> b]
<1>5. s \in D /\ s.heap = h /\ s.block = b
  BY BlockTypes
<1> HIDE DEF f, D, s
<1>6. f[s] = IF s \in C THEN f[N[s]] ELSE V[s]
  BY <1>4, <1>5 DEF Continues
<1>7. s \in C <=> GoesOn(h, b)
  BY <1>5
<1>8. N[s] = [heap |-> Absorb(h, b), block |-> h.hdr[b].before]
      /\ V[s] = [heap |-> Absorb(h, b), block |-> b]
  BY <1>5
<1> QED BY <1>1, <1>6, <1>7, <1>8 DEF s

-----------------------------------------------------------------------------
(* Counting the bytes in use.                                              *)

Counted(h) == h.used = Cardinality(InUse(h))

(* Where the bytes of block b end that are in use.                         *)
UseEnd(h, b) == b + Hdr + (IF Free(h, b) THEN 0 ELSE h.hdr[b].size)

LEMMA UseEnds ==
    ASSUME NEW h, Linear(h), NEW b \in Blocks(h)
    PROVE  /\ UseEnd(h, b) \in Nat /\ b + Hdr <= UseEnd(h, b) /\ UseEnd(h, b) <= End(h, b)
           /\ b \in Nat /\ End(h, b) \in Nat /\ End(h, b) <= h.size /\ h.size \in Addr
           /\ Free(h, b) => UseEnd(h, b) = b + Hdr
           /\ ~Free(h, b) => UseEnd(h, b) = End(h, b)
<1>1. b \in Nat /\ h.hdr[b].size \in Nat /\ h.size \in Addr
  BY BlockTypes DEF Linear
<1> QED BY <1>1, SizeAssumption DEF UseEnd, End, Linear

LEMMA InUseOf ==
    ASSUME NEW h, Linear(h)
    PROVE  /\ InUse(h) = {a \in Nat : \E b \in Blocks(h) : b <= a /\ a < UseEnd(h, b)}
           /\ IsFiniteSet(InUse(h)) /\ Cardinality(InUse(h)) \in Nat
           /\ Cardinality(InUse(h)) < Word
<1>1. \A b \in Blocks(h) : UseEnd(h, b) \in Nat /\ UseEnd(h, b) <= End(h, b)
                           /\ End(h, b) \in Nat /\ End(h, b) <= h.size /\ b \in Nat
  BY UseEnds
<1>2. h.size \in Nat /\ h.size <= Limit /\ Limit \in Nat /\ Word \in Nat /\ Limit < Word
  BY SizeAssumption DEF Linear, HeapState, Addr
<1>3. InUse(h) = {a \in Addr : \E b \in Blocks(h) : b <= a /\ a < UseEnd(h, b)}
  BY DEF InUse, UseEnd
<1>4. InUse(h) = {a \in Nat : \E b \in Blocks(h) : b <= a /\ a < UseEnd(h, b)}
  <2>1. ASSUME NEW a \in Nat, NEW b \in Blocks(h), a < UseEnd(h, b)
        PROVE  a \in Addr
    BY <1>1, <1>2, <2>1 DEF Addr
  <2>2. Addr \subseteq Nat
    BY <1>2 DEF Addr
  <2> QED BY <1>3, <2>1, <2>2
<1>6. InUse(h) \subseteq 0 .. (h.size - 1)
  BY <1>1, <1>2, <1>4
<1>7. IsFiniteSet(0 .. (h.size - 1)) /\ Cardinality(0 .. (h.size - 1)) = h.size
  <2>1. 0 \in Int /\ h.size - 1 \in Int
    BY <1>2
  <2>2. /\ IsFiniteSet(0 .. (h.size - 1))
        /\ Cardinality(0 .. (h.size - 1)) =
              IF 0 > h.size - 1 THEN 0 ELSE (h.size - 1) - 0 + 1
    BY <2>1, FS_Interval
  <2> QED BY <1>2, <2>2
<1>8. IsFiniteSet(InUse(h)) /\ Cardinality(InUse(h)) <= h.size
  BY <1>6, <1>7, FS_Subset
<1>9. Cardinality(InUse(h)) \in Nat
  BY <1>8, FS_CardinalityType
<1> QED BY <1>2, <1>4, <1>8, <1>9

Bytes(x, y) == {a \in Nat : x <= a /\ a < y}

LEMMA CountMore ==
    ASSUME NEW S, IsFiniteSet(S), NEW x \in Nat, NEW y \in Nat, x <= y,
           S \intersect Bytes(x, y) = {}
    PROVE  Cardinality(S \union Bytes(x, y)) = Cardinality(S) + (y - x)
<1> DEFINE I == x .. (y - 1)
<1>4. Bytes(x, y) = I
  BY DEF Bytes
<1>1. IsFiniteSet(I) /\ Cardinality(I) = y - x
  <2>1. CASE x = y
    <3>1. I = {}
      BY <2>1
    <3> QED BY <2>1, <3>1, FS_EmptySet
  <2>2. CASE x < y
    BY <2>2, FS_Interval
  <2> QED BY <2>1, <2>2
<1> HIDE DEF I
<1>2. Cardinality(S \union I) = Cardinality(S) + Cardinality(I) - Cardinality({})
  BY <1>1, <1>4, FS_Union
<1>3. Cardinality({}) = 0 /\ Cardinality(S) \in Nat
  BY FS_EmptySet, FS_CardinalityType
<1> QED BY <1>1, <1>2, <1>3, <1>4

(* In g the bytes from x to y are in use, too.                             *)
InUseToo(h, g, x, y) ==
    /\ x <= y /\ InUse(h) \intersect Bytes(x, y) = {}
    /\ InUse(g) = InUse(h) \union Bytes(x, y)

LEMMA MoreInUse ==
    ASSUME NEW h, Linear(h), NEW g, Linear(g), NEW x \in Nat, NEW y \in Nat,
           InUseToo(h, g, x, y)
    PROVE  /\ Cardinality(InUse(g)) = Cardinality(InUse(h)) + (y - x)
           /\ Counted(h) => (h.used + (y - x)) % Word = Cardinality(InUse(g))
           /\ Counted(g) => (g.used - (y - x)) % Word = Cardinality(InUse(h))
<1>1. /\ IsFiniteSet(InUse(h)) /\ Cardinality(InUse(h)) \in Nat
      /\ Cardinality(InUse(h)) < Word
  BY InUseOf
<1>2. Cardinality(InUse(g)) \in Nat /\ Cardinality(InUse(g)) < Word
  BY InUseOf
<1>3. Cardinality(InUse(g)) = Cardinality(InUse(h)) + (y - x)
  BY <1>1, CountMore DEF InUseToo
<1>4. Word \in Nat
  BY SizeAssumption
<1> DEFINE c == Cardinality(InUse(h))
           d == Cardinality(InUse(g))
<1>5. c \in Nat /\ d \in Nat /\ d = c + (y - x) /\ c = d - (y - x) /\ c < Word /\ d < Word
  BY <1>1, <1>2, <1>3 DEF InUseToo
<1>6. c % Word = c /\ d % Word = d
  BY <1>4, <1>5, WordMod
<1> HIDE DEF c, d
<1> QED BY <1>5, <1>6 DEF Counted, c, d

(* The header of a new block comes into use.                               *)
LEMMA DivideCounts ==
    ASSUME NEW h, Linear(h), NEW b \in Blocks(h), NEW n \in Nat,
           h.hdr[b].size > n + Hdr, Free(h, b), Counted(h)
    PROVE  Counted(Divide(h, b, n))
<1> DEFINE g == Divide(h, b, n)
           new == b + Hdr + n
<1>1. Divided(h, g, b, new)
  BY DivideSpec
<1> HIDE DEF g
<1>2. \A c \in Blocks(h) : /\ UseEnd(h, c) \in Nat /\ UseEnd(h, c) <= End(h, c) /\ c \in Nat
                           /\ End(h, c) \in Nat
                           /\ Free(h, c) => UseEnd(h, c) = c + Hdr
  BY UseEnds
<1>3. /\ Linear(g) /\ Blocks(g) = Blocks(h) \union {new} /\ b < new /\ new < End(h, b)
      /\ Free(g, new)
      /\ \A c \in Blocks(h) : g.hdr[c].allocated = h.hdr[c].allocated
      /\ \A c \in Blocks(h) \ {b} : g.hdr[c].size = h.hdr[c].size
      /\ g.used = (h.used + Hdr) % Word /\ End(g, new) = End(h, b)
  BY <1>1 DEF Divided
<1>4. new \in Nat /\ Hdr \in Nat /\ new \in Blocks(g)
  BY <1>2, <1>3, SizeAssumption
<1>5. UseEnd(g, b) = UseEnd(h, b) /\ UseEnd(g, new) = new + Hdr
      /\ \A c \in Blocks(h) : UseEnd(g, c) = UseEnd(h, c)
  BY <1>3, <1>4 DEF UseEnd, Free
<1>6. new + Hdr <= End(h, b)
  <2>1. new + Hdr <= End(g, new)
    BY <1>3, <1>4, BlockTypes DEF Linear
  <2> QED BY <1>3, <2>1
<1>11. b + Hdr <= new /\ UseEnd(h, b) = b + Hdr
  BY <1>2, SizeAssumption
<1> HIDE DEF new
<1>7. InUse(h) \intersect Bytes(new, new + Hdr) = {}
  <2> SUFFICES ASSUME NEW a \in Bytes(new, new + Hdr), NEW c \in Blocks(h),
                      c <= a, a < UseEnd(h, c)
               PROVE  FALSE
    BY InUseOf
  <2>1. a \in Nat /\ new <= a /\ a < new + Hdr
    BY DEF Bytes
  <2>5. /\ UseEnd(h, c) \in Nat /\ UseEnd(h, c) <= End(h, c) /\ c \in Nat
        /\ End(h, c) \in Nat /\ b \in Nat /\ End(h, b) \in Nat
        /\ a < UseEnd(h, c) /\ c <= a
    BY <1>2
  <2>2. CASE c = b
    BY <1>4, <1>11, <2>1, <2>2, <2>5
  <2>3. CASE c < b
    <3>1. End(h, c) <= b
      BY <2>3 DEF Linear
    <3> QED BY <1>3, <1>4, <2>1, <2>5, <3>1
  <2>4. CASE c > b
    <3>1. End(h, b) <= c
      BY <2>4 DEF Linear
    <3> QED BY <1>4, <1>6, <2>1, <2>5, <3>1
  <2> QED BY <2>2, <2>3, <2>4, <2>5
<1>8. InUse(g) = InUse(h) \union Bytes(new, new + Hdr)
  <2>1. /\ InUse(h) = {a \in Nat : \E c \in Blocks(h) : c <= a /\ a < UseEnd(h, c)}
        /\ InUse(g) = {a \in Nat : \E c \in Blocks(g) : c <= a /\ a < UseEnd(g, c)}
    BY <1>3, InUseOf
  <2>2. Bytes(new, new + Hdr) = {a \in Nat : new <= a /\ a < UseEnd(g, new)}
    BY <1>5 DEF Bytes
  <2> QED BY <1>3, <1>5, <2>1, <2>2
<1>9. (h.used + ((new + Hdr) - new)) % Word = Cardinality(InUse(g))
  <2>1. new + Hdr \in Nat /\ new <= new + Hdr
    BY <1>4
  <2>2. InUseToo(h, g, new, new + Hdr)
    BY <1>7, <1>8, <2>1 DEF InUseToo
  <2> QED BY <1>3, <1>4, <2>1, <2>2, MoreInUse
<1>10. (new + Hdr) - new = Hdr
  BY <1>4
<1>12. Counted(g)
  BY <1>3, <1>9, <1>10 DEF Counted
<1> QED BY <1>12 DEF g

(* No byte is in two blocks.                                               *)
LEMMA OneBlock ==
    ASSUME NEW h, Linear(h), NEW a \in Nat, NEW b \in Blocks(h), NEW c \in Blocks(h),
           b <= a, a < End(h, b), c <= a, a < End(h, c)
    PROVE  b = c
<1>1. b \in Nat /\ c \in Nat /\ End(h, b) \in Nat /\ End(h, c) \in Nat
  BY UseEnds
<1>2. CASE b < c
  <2>1. End(h, b) <= c
    BY <1>2 DEF Linear
  <2> QED BY <1>1, <2>1
<1>3. CASE c < b
  <2>1. End(h, c) <= b
    BY <1>3 DEF Linear
  <2> QED BY <1>1, <2>1
<1> QED BY <1>1, <1>2, <1>3

(* g is h with the free block b allocated.                                 *)
TakenBlock(h, g, b) ==
    /\ Linear(g) /\ Blocks(g) = Blocks(h) /\ g.size = h.size
    /\ Free(h, b) /\ ~Free(g, b)
    /\ \A c \in Blocks(h) : End(g, c) = End(h, c)
    /\ \A c \in Blocks(h) \ {b} : Free(g, c) <=> Free(h, c)

LEMMA TakenBytes ==
    ASSUME NEW h, Linear(h), NEW b \in Blocks(h), NEW g, TakenBlock(h, g, b)
    PROVE  /\ InUseToo(h, g, b + Hdr, End(h, b)) /\ b + Hdr \in Nat /\ End(h, b) \in Nat
           /\ End(h, b) - (b + Hdr) = h.hdr[b].size
<1>1. Linear(g) /\ Blocks(g) = Blocks(h)
  BY DEF TakenBlock
<1>2. \A c \in Blocks(h) : /\ UseEnd(h, c) \in Nat /\ UseEnd(h, c) <= End(h, c) /\ c \in Nat
                           /\ End(h, c) \in Nat
                           /\ Free(h, c) => UseEnd(h, c) = c + Hdr
                           /\ ~Free(h, c) => UseEnd(h, c) = End(h, c)
  BY UseEnds
<1>3. \A c \in Blocks(h) : /\ Free(g, c) => UseEnd(g, c) = c + Hdr
                           /\ ~Free(g, c) => UseEnd(g, c) = End(g, c)
  BY <1>1, UseEnds
<1>4. UseEnd(h, b) = b + Hdr /\ UseEnd(g, b) = End(h, b)
  BY <1>2, <1>3 DEF TakenBlock
<1>5. \A c \in Blocks(h) \ {b} : UseEnd(g, c) = UseEnd(h, c)
  BY <1>2, <1>3 DEF TakenBlock
<1>6. Hdr \in Nat /\ h.hdr[b].size \in Nat /\ b \in Nat /\ b + Hdr <= End(h, b)
  BY BlockTypes, SizeAssumption DEF Linear
<1>7. End(h, b) - (b + Hdr) = h.hdr[b].size
  BY <1>6 DEF End
<1>8. InUse(h) \intersect Bytes(b + Hdr, End(h, b)) = {}
  <2> SUFFICES ASSUME NEW a \in Bytes(b + Hdr, End(h, b)), NEW c \in Blocks(h),
                      c <= a, a < UseEnd(h, c)
               PROVE  FALSE
    BY InUseOf
  <2>1. a \in Nat /\ b + Hdr <= a /\ a < End(h, b)
    BY DEF Bytes
  <2>2. /\ UseEnd(h, c) \in Nat /\ UseEnd(h, c) <= End(h, c) /\ c \in Nat
        /\ End(h, c) \in Nat
    BY <1>2
  <2>3. b <= a /\ c <= a /\ a < End(h, c)
    BY <1>6, <2>1, <2>2
  <2>4. b = c
    BY <2>1, <2>3, OneBlock
  <2> QED BY <1>4, <1>6, <2>1, <2>4
<1>9. InUse(g) = InUse(h) \union Bytes(b + Hdr, End(h, b))
  <2>1. /\ InUse(h) = {a \in Nat : \E c \in Blocks(h) : c <= a /\ a < UseEnd(h, c)}
        /\ InUse(g) = {a \in Nat : \E c \in Blocks(h) : c <= a /\ a < UseEnd(g, c)}
    BY <1>1, InUseOf
  <2>2. \A a \in Nat : (b <= a /\ a < UseEnd(g, b)) <=>
                       ((b <= a /\ a < UseEnd(h, b)) \/ (b + Hdr <= a /\ a < End(h, b)))
    BY <1>2, <1>4, <1>6
  <2>3. Bytes(b + Hdr, End(h, b)) = {a \in Nat : b + Hdr <= a /\ a < End(h, b)}
    BY DEF Bytes
  <2>4. ASSUME NEW a \in Nat
        PROVE  (\E c \in Blocks(h) : c <= a /\ a < UseEnd(g, c)) <=>
               \/ \E c \in Blocks(h) : c <= a /\ a < UseEnd(h, c)
               \/ b + Hdr <= a /\ a < End(h, b)
    BY <1>5, <2>2
  <2> QED BY <2>1, <2>3, <2>4
<1> QED BY <1>2, <1>6, <1>7, <1>8, <1>9 DEF InUseToo

LEMMA AbsorbBytes ==
    ASSUME NEW h, Linear(h), NEW b \in Blocks(h), NEW g, NEW n, Absorbed(h, g, b, n),
           Free(h, b), Free(h, n)
    PROVE  InUseToo(g, h, n, n + Hdr) /\ n \in Nat /\ n + Hdr \in Nat
<1>1. /\ Linear(g) /\ b \in Blocks(g) /\ n \in Blocks(h)
      /\ Blocks(g) = Blocks(h) \ {n}
      /\ End(h, b) = n /\ End(g, b) = End(h, n)
      /\ \A c \in Blocks(g) : g.hdr[c].allocated = h.hdr[c].allocated
      /\ \A c \in Blocks(g) \ {b} : g.hdr[c].size = h.hdr[c].size
  BY DEF Absorbed
<1>2. \A c \in Blocks(g) : UseEnd(g, c) = UseEnd(h, c)
  BY <1>1 DEF UseEnd, Free
<1>3. UseEnd(h, n) = n + Hdr /\ n \in Nat /\ Hdr \in Nat /\ n + Hdr <= End(h, n)
      /\ b \in Nat /\ b < n
  BY <1>1, UseEnds, BlockTypes, SizeAssumption DEF Linear
<1>4. InUse(g) \intersect Bytes(n, n + Hdr) = {}
  <2> SUFFICES ASSUME NEW a \in Bytes(n, n + Hdr), NEW c \in Blocks(g),
                      c <= a, a < UseEnd(g, c)
               PROVE  FALSE
    BY <1>1, InUseOf
  <2>1. a \in Nat /\ n <= a /\ a < n + Hdr
    BY DEF Bytes
  <2>2. c \in Blocks(h) /\ c # n /\ UseEnd(g, c) = UseEnd(h, c)
    BY <1>1, <1>2
  <2>3. UseEnd(h, c) \in Nat /\ UseEnd(h, c) <= End(h, c) /\ End(h, c) \in Nat /\ c \in Nat
    BY <2>2, UseEnds
  <2>4. c <= a /\ a < End(h, c) /\ a < End(h, n)
    <3>1. End(h, n) \in Nat
      BY <1>1, UseEnds
    <3> QED BY <1>3, <2>1, <2>2, <2>3, <3>1
  <2>5. c = n
    BY <1>1, <2>1, <2>2, <2>4, OneBlock
  <2> QED BY <2>2, <2>5
<1>5. InUse(h) = InUse(g) \union Bytes(n, n + Hdr)
  <2>1. /\ InUse(h) = {a \in Nat : \E c \in Blocks(h) : c <= a /\ a < UseEnd(h, c)}
        /\ InUse(g) = {a \in Nat : \E c \in Blocks(g) : c <= a /\ a < UseEnd(g, c)}
    BY <1>1, InUseOf
  <2>2. Bytes(n, n + Hdr) = {a \in Nat : n <= a /\ a < UseEnd(h, n)}
    BY <1>3 DEF Bytes
  <2>3. Blocks(h) = Blocks(g) \union {n}
    BY <1>1
  <2> QED BY <1>2, <2>1, <2>2, <2>3
<1>6. n <= n + Hdr /\ n + Hdr \in Nat
  BY <1>3
<1> QED BY <1>3, <1>4, <1>5, <1>6 DEF InUseToo

-----------------------------------------------------------------------------
(* Freeing.                                                                *)

(* g is h with the free block c enlarged by free blocks behind it.         *)
Grown(h, g, c) ==
    /\ Linear(g) /\ c \in Blocks(g) /\ Free(h, c) /\ Blocks(g) \subseteq Blocks(h)
    /\ \A d \in Blocks(h) \ Blocks(g) : Free(h, d) /\ d > c
    /\ \A d \in Blocks(g) : Free(g, d) <=> Free(h, d)
    /\ \A d \in Blocks(g) \ {c} :
        End(g, d) = End(h, d) /\ g.hdr[d].size = h.hdr[d].size
    /\ g.size = h.size /\ g.first = h.first
    /\ Counted(h) => Counted(g)

(* Block b is not followed by a free one.                                  *)
Apart(h, b) == End(h, b) \in Blocks(h) => ~Free(h, End(h, b))

LEMMA AbsorbGrown ==
    ASSUME NEW h, Linear(h), NEW b \in Blocks(h), Free(h, b)
    PROVE  /\ Grown(h, Absorb(h, b), b)
           /\ Apart(h, b) => Absorb(h, b) = h
           /\ ~Apart(h, b) =>
                /\ End(h, b) \in Blocks(h) /\ Free(h, End(h, b))
                /\ Blocks(Absorb(h, b)) = Blocks(h) \ {End(h, b)}
                /\ End(Absorb(h, b), b) = End(h, End(h, b))
<1> DEFINE g == Absorb(h, b)
           n == End(h, b)
<1>1. CASE Apart(h, b)
  <2>1. ~(Valid(h, n) /\ Free(h, n))
    BY <1>1, NextBlock DEF Apart
  <2>2. ~(Valid(h, Following(h, b)) /\ Free(h, Following(h, b)))
    BY <2>1, NextBlock
  <2>3. g = h
    BY <2>2 DEF Absorb
  <2>4. Grown(h, h, b)
    BY DEF Grown
  <2> HIDE DEF g
  <2> QED BY <1>1, <2>3, <2>4 DEF g
<1>2. CASE ~Apart(h, b)
  <2>1. n \in Blocks(h) /\ Free(h, n)
    BY <1>2 DEF Apart
  <2>2. Absorbed(h, g, b, n)
    BY <2>1, AbsorbSpec
  <2>3. InUseToo(g, h, n, n + Hdr) /\ n \in Nat /\ n + Hdr \in Nat
    BY <2>1, <2>2, AbsorbBytes
  <2>4. b \in Nat /\ n > b /\ Hdr \in Nat
    BY BlockTypes, SizeAssumption DEF Linear
  <2> HIDE DEF g, n
  <2>5. Counted(h) => Counted(g)
    <3>1. Linear(g) /\ g.used = (h.used - Hdr) % Word
      BY <2>2 DEF Absorbed
    <3>2. Counted(h) => (h.used - ((n + Hdr) - n)) % Word = Cardinality(InUse(g))
      BY <2>3, <3>1, MoreInUse
    <3>3. (n + Hdr) - n = Hdr
      BY <2>3, <2>4
    <3> QED BY <3>1, <3>2, <3>3 DEF Counted
  <2>6. \A d \in Blocks(g) : Free(g, d) <=> Free(h, d)
    BY <2>2 DEF Absorbed, Free
  <2>7. \A d \in Blocks(g) \ {b} :
            End(g, d) = End(h, d) /\ g.hdr[d].size = h.hdr[d].size
    BY <2>2 DEF Absorbed, End
  <2>8. Grown(h, g, b)
    BY <2>1, <2>2, <2>4, <2>5, <2>6, <2>7 DEF Grown, Absorbed
  <2>9. Blocks(g) = Blocks(h) \ {n} /\ End(g, b) = End(h, n)
    BY <2>2 DEF Absorbed
  <2> QED BY <1>2, <2>1, <2>8, <2>9 DEF g, n
<1> QED BY <1>1, <1>2

LEMMA GrownTwice ==
    ASSUME NEW h, NEW g, NEW k, NEW b, NEW c, Grown(h, g, b), Grown(g, k, c),
           b \in Nat, c \in Nat, c < b, b \notin Blocks(k), Free(h, c),
           Blocks(h) \subseteq Nat
    PROVE  Grown(h, k, c)
<1>1. \A d \in Blocks(h) \ Blocks(k) : Free(h, d) /\ d > c
  <2> SUFFICES ASSUME NEW d \in Blocks(h), d \notin Blocks(k)
               PROVE  Free(h, d) /\ d > c
    OBVIOUS
  <2>1. CASE d \in Blocks(g)
    BY <2>1 DEF Grown
  <2>2. CASE d \notin Blocks(g)
    BY <2>2 DEF Grown
  <2> QED BY <2>1, <2>2
<1>2. \A d \in Blocks(k) \ {c} : d \in Blocks(g) \ {b, c}
  BY DEF Grown
<1> QED BY <1>1, <1>2 DEF Grown

LEMMA SameEnd ==
    ASSUME NEW h, Linear(h), NEW b \in Blocks(h), NEW c \in Blocks(h),
           End(h, b) = End(h, c)
    PROVE  b = c
<1>1. b \in Nat /\ c \in Nat /\ b < End(h, b) /\ c < End(h, c) /\ End(h, b) \in Nat
  BY BlockTypes DEF Linear
<1>2. b < c => End(h, b) <= c
  BY DEF Linear
<1>3. c < b => End(h, c) <= b
  BY DEF Linear
<1> QED BY <1>1, <1>2, <1>3

(* merge_empty_blocks, where only the block it is given has neighbours     *)
(* that are free: none has afterwards.                                     *)
LEMMA MergeSpec ==
    ASSUME NEW h, Linear(h), NEW b \in Blocks(h), Free(h, b),
           \A d \in Blocks(h) : Free(h, d) /\ d # b /\ End(h, d) # b => Apart(h, d)
    PROVE  /\ Grown(h, Merge(h, b).heap, Merge(h, b).block) /\ Merge(h, b).block <= b
           /\ Merge(h, b).block \in Nat
           /\ \A d \in Blocks(Merge(h, b).heap) :
                Free(Merge(h, b).heap, d) => Apart(Merge(h, b).heap, d)
<1> DEFINE g == Absorb(h, b)
           p == h.hdr[b].before
           k == Absorb(g, p)
<1>1. Grown(h, g, b)
  BY AbsorbGrown
<1>2. /\ Apart(h, b) => g = h
      /\ ~Apart(h, b) => /\ End(h, b) \in Blocks(h) /\ Free(h, End(h, b))
                         /\ End(g, b) = End(h, End(h, b))
  BY AbsorbGrown
<1>3. h \in HeapState /\ \A d \in Blocks(h) : d \in Nat /\ d < End(h, d) /\ End(h, d) \in Nat
  BY BlockTypes DEF Linear
<1>4. /\ Linear(g) /\ b \in Blocks(g) /\ Blocks(g) \subseteq Blocks(h)
      /\ \A d \in Blocks(g) : Free(g, d) <=> Free(h, d)
      /\ \A d \in Blocks(g) \ {b} : End(g, d) = End(h, d)
  BY <1>1 DEF Grown
<1>5. g \in HeapState /\ \A d \in Blocks(g) : d \in Nat /\ d < End(g, d) /\ End(g, d) \in Nat
  BY <1>4, BlockTypes DEF Linear
<1>6. Merge(h, b) = IF GoesOn(h, b) THEN Merge(g, p) ELSE [heap |-> g, block |-> b]
  BY <1>3, MergeStep
<1>7. GoesOn(h, b) <=> p # None /\ g.hdr[p] # None /\ Free(g, p)
  BY DEF GoesOn
<1> HIDE DEF g
<1>8. Apart(g, b)
  <2>1. CASE Apart(h, b)
    BY <1>2, <2>1
  <2>2. CASE ~Apart(h, b)
    <3> DEFINE n == End(h, b)
    <3>1. n \in Blocks(h) /\ Free(h, n) /\ End(g, b) = End(h, n)
      BY <1>2, <2>2
    <3>2. n # b /\ End(h, n) # b
      BY <1>3, <3>1
    <3> HIDE DEF n
    <3>3. Apart(h, n)
      BY <3>1, <3>2
    <3> QED BY <1>4, <3>1, <3>3 DEF Apart
  <2> QED BY <2>1, <2>2
<1>9. ASSUME NEW d \in Blocks(g), Free(g, d), End(g, d) # b
      PROVE  Apart(g, d)
  <2>1. CASE d = b
    BY <1>8, <2>1
  <2>2. CASE d # b
    <3>1. d \in Blocks(h) /\ End(g, d) = End(h, d) /\ Free(h, d)
      BY <1>4, <1>9, <2>2
    <3>2. Apart(h, d)
      BY <1>9, <2>2, <3>1
    <3> QED BY <1>4, <3>1, <3>2 DEF Apart
  <2> QED BY <2>1, <2>2
<1>10. b # 0 => p \in Blocks(h) /\ End(h, p) = b
  BY DEF Linear
<1>11. b = 0 => p = None
  BY DEF Linear
<1>12. p \in Blocks(h) => p # None /\ (p \in Blocks(g) <=> g.hdr[p] # None)
  BY SizeAssumption DEF Blocks
<1> HIDE DEF p
<1>13. CASE ~GoesOn(h, b)
  <2>1. Merge(h, b).heap = g /\ Merge(h, b).block = b
    BY <1>6, <1>13
  <2>2. ASSUME NEW d \in Blocks(g), Free(g, d), End(g, d) = b
        PROVE  FALSE
    <3>1. d < b
      BY <1>5, <2>2
    <3>2. b # 0 /\ d # b
      BY <1>3, <1>5, <3>1
    <3>3. End(h, d) = b /\ d \in Blocks(h)
      BY <1>4, <2>2, <3>2
    <3>4. d = p
      BY <1>10, <3>2, <3>3, SameEnd
    <3> QED BY <1>7, <1>12, <1>13, <2>2, <3>3, <3>4
  <2> QED BY <1>1, <1>3, <1>9, <2>1, <2>2
<1>14. CASE GoesOn(h, b)
  <2>1. p # None /\ g.hdr[p] # None /\ Free(g, p)
    BY <1>7, <1>14
  <2>2. b # 0 /\ p \in Blocks(h) /\ End(h, p) = b /\ p \in Blocks(g)
    BY <1>10, <1>11, <1>12, <2>1
  <2>3. p < b /\ p # b /\ End(g, p) = b /\ p \in Nat /\ Free(h, p)
    BY <1>3, <1>4, <2>1, <2>2
  <2>4. ~Apart(g, p)
    BY <1>4, <2>3 DEF Apart
  <2>5. Grown(g, k, p) /\ Blocks(k) = Blocks(g) \ {b} /\ End(k, p) = End(g, b)
    <3>1. /\ Grown(g, k, p)
          /\ ~Apart(g, p) =>
                /\ Blocks(k) = Blocks(g) \ {End(g, p)}
                /\ End(k, p) = End(g, End(g, p))
      BY <1>4, <2>1, <2>2, AbsorbGrown
    <3> HIDE DEF k
    <3> QED BY <2>3, <2>4, <3>1
  <2>6. Merge(g, p) = IF GoesOn(g, p) THEN Merge(k, g.hdr[p].before)
                      ELSE [heap |-> k, block |-> p]
    BY <1>5, <2>2, MergeStep
  <2> DEFINE pp == g.hdr[p].before
  <2>7. GoesOn(g, p) <=> pp # None /\ k.hdr[pp] # None /\ Free(k, pp)
    BY DEF GoesOn
  <2>8. (p # 0 => pp \in Blocks(g) /\ End(g, pp) = p) /\ (p = 0 => pp = None)
    BY <1>4, <2>2 DEF Linear
  <2> HIDE DEF k, pp
  <2>9. /\ Linear(k) /\ Blocks(k) \subseteq Blocks(g)
        /\ \A d \in Blocks(k) : Free(k, d) <=> Free(g, d)
        /\ \A d \in Blocks(k) \ {p} : End(k, d) = End(g, d)
    BY <2>5 DEF Grown
  <2>10. ~GoesOn(g, p)
    <3> SUFFICES ASSUME GoesOn(g, p) PROVE FALSE
      OBVIOUS
    <3>1. pp \in Blocks(g) /\ End(g, pp) = p
      BY <2>7, <2>8
    <3>2. pp \in Blocks(k)
      BY <2>7, <3>1 DEF Blocks
    <3>3. Free(g, pp)
      BY <2>7, <2>9, <3>2
    <3>4. Apart(g, pp)
      BY <1>9, <2>3, <3>1, <3>3
    <3> QED BY <2>1, <2>2, <3>1, <3>4 DEF Apart
  <2>11. Merge(h, b).heap = k /\ Merge(h, b).block = p
    BY <1>6, <1>14, <2>6, <2>10
  <2>12. Grown(h, k, p)
    <3>1. b \notin Blocks(k) /\ b \in Nat /\ Blocks(h) \subseteq Nat
      BY <1>3, <2>5
    <3> QED BY <1>1, <2>3, <2>5, <3>1, GrownTwice
  <2>13. ASSUME NEW d \in Blocks(k), Free(k, d)
         PROVE  Apart(k, d)
    <3>1. CASE d = p
      BY <1>8, <2>5, <2>9, <3>1 DEF Apart
    <3>2. CASE d # p
      <4>1. d \in Blocks(g) /\ Free(g, d) /\ End(k, d) = End(g, d)
        BY <2>9, <2>13, <3>2
      <4>2. End(g, d) # b
        BY <1>4, <2>2, <2>3, <3>2, <4>1, SameEnd
      <4>3. Apart(g, d)
        BY <1>9, <4>1, <4>2
      <4> QED BY <2>9, <4>1, <4>3 DEF Apart
    <3> QED BY <3>1, <3>2
  <2>14. p <= b
    BY <1>3, <2>3
  <2> QED BY <2>3, <2>11, <2>12, <2>13, <2>14
<1> QED BY <1>13, <1>14

-----------------------------------------------------------------------------
(* Handing out.                                                            *)

(* first_free is the lowest free block, and no two free blocks are         *)
(* neighbours.                                                             *)
Sorted(h) ==
    /\ h.first \in Blocks(h) /\ Free(h, h.first)
    /\ \A b \in Blocks(h) : Free(h, b) => b >= h.first /\ Apart(h, b)

(* The blocks in use are those of the user of the heap, with the sizes L.  *)
Held(h, L) ==
    /\ DOMAIN L = {b + Hdr : b \in {c \in Blocks(h) : ~Free(h, c)}}
    /\ \A p \in DOMAIN L : L[p] \in Sizes /\ h.hdr[p - Hdr].size >= L[p]

(* What does not depend on first_free and used_size.                       *)
LEMMA SameHeaders ==
    ASSUME NEW h, Linear(h), NEW g \in HeapState,
           g.hdr = h.hdr, g.size = h.size, g.top = h.top
    PROVE  /\ Linear(g) /\ Blocks(g) = Blocks(h) /\ InUse(g) = InUse(h)
           /\ \A b : End(g, b) = End(h, b) /\ (Free(g, b) <=> Free(h, b))
<1>1. Blocks(g) = Blocks(h)
  BY DEF Blocks
<1>2. \A b : End(g, b) = End(h, b) /\ (Free(g, b) <=> Free(h, b))
  BY DEF End, Free
<1>3. Linear(g)
  BY <1>1, <1>2 DEF Linear
<1>4. InUse(g) = InUse(h)
  BY <1>1, <1>2 DEF InUse
<1> QED BY <1>1, <1>2, <1>3, <1>4

(* h with block b marked, as used or as free, and used_size adjusted.      *)
Marked(h, b, alloc, used) == [h EXCEPT !.hdr[b].allocated = alloc, !.used = used]

MarkedSo(h, g, b, alloc, used) ==
    /\ Linear(g) /\ Blocks(g) = Blocks(h) /\ g.size = h.size /\ g.first = h.first
    /\ g.used = used /\ (Free(g, b) <=> ~alloc)
    /\ \A c \in Blocks(h) : End(g, c) = End(h, c) /\ g.hdr[c].size = h.hdr[c].size
    /\ \A c \in Blocks(h) \ {b} : Free(g, c) <=> Free(h, c)

LEMMA MarkSpec ==
    ASSUME NEW h, Linear(h), NEW b \in Blocks(h), NEW alloc \in BOOLEAN, NEW used \in Size
    PROVE  MarkedSo(h, Marked(h, b, alloc, used), b, alloc, used)
<1> DEFINE g == Marked(h, b, alloc, used)
           x == [h.hdr[b] EXCEPT !.allocated = alloc]
<1>1. h \in HeapState
  BY DEF Linear
<1>2. /\ b \in Addr /\ h.hdr \in [Addr -> Header \union {None}] /\ h.hdr[b] \in Header
      /\ h.hdr[b] # None /\ h.used \in Size /\ h.top \in Addr /\ h.first \in Addr
  BY <1>1, BlockTypes
<1>3. x \in Header /\ x.allocated = alloc /\ x.size = h.hdr[b].size
      /\ x.before = h.hdr[b].before
  BY <1>2 DEF Header
<1>4. /\ g.hdr = [h.hdr EXCEPT ![b].allocated = alloc] /\ g.size = h.size
      /\ g.used = used /\ g.top = h.top /\ g.first = h.first
  BY <1>1 DEF HeapState, Marked
<1>5. g.hdr = [h.hdr EXCEPT ![b] = x]
  BY <1>4
<1> HIDE DEF x
<1>6. g.hdr \in [Addr -> Header \union {None}]
  BY <1>2, <1>3, <1>5
<1>7. g \in HeapState
  BY <1>1, <1>6 DEF HeapState, Marked
<1> SUFFICES MarkedSo(h, g, b, alloc, used)
  OBVIOUS
<1> HIDE DEF g
<1>8. g.hdr[b] = x /\ \A c \in Addr \ {b} : g.hdr[c] = h.hdr[c]
  BY <1>2, <1>5
<1>9. Blocks(g) = Blocks(h)
  BY <1>2, <1>3, <1>8, NoneAssumption DEF Blocks
<1>10. \A c \in Blocks(h) : /\ g.hdr[c].size = h.hdr[c].size
                            /\ g.hdr[c].before = h.hdr[c].before
  BY <1>3, <1>8 DEF Blocks
<1>11. \A c \in Blocks(h) : End(g, c) = End(h, c)
  BY <1>10 DEF End
<1>12. Linear(g)
  <2>1. 0 \in Blocks(g) /\ g.hdr[0].before = None
    BY <1>9, <1>10 DEF Linear
  <2>2. \A c \in Blocks(g) : End(g, c) <= g.size /\ End(g, c) \in Blocks(g) \union {g.size}
    BY <1>4, <1>9, <1>11 DEF Linear
  <2>3. \A c, d \in Blocks(g) : c < d => End(g, c) <= d
    BY <1>9, <1>11 DEF Linear
  <2>4. \A c \in Blocks(g) \ {0} :
            g.hdr[c].before \in Blocks(g) /\ End(g, g.hdr[c].before) = c
    BY <1>9, <1>10, <1>11 DEF Linear
  <2>5. g.top \in Blocks(g) /\ End(g, g.top) = g.size
    BY <1>4, <1>9, <1>11 DEF Linear
  <2> QED BY <1>7, <2>1, <2>2, <2>3, <2>4, <2>5 DEF Linear
<1>13. \A c \in Blocks(h) \ {b} : Free(g, c) <=> Free(h, c)
  BY <1>8 DEF Free, Blocks
<1>14. Free(g, b) <=> ~alloc
  BY <1>3, <1>8 DEF Free
<1> QED BY <1>4, <1>9, <1>10, <1>11, <1>12, <1>13, <1>14 DEF MarkedSo

(* A free block is handed out.                                             *)
LEMMA TakeSpec ==
    ASSUME NEW h, Linear(h), NEW b \in Blocks(h), Free(h, b)
    PROVE  /\ TakenBlock(h, Take(h, b), b) /\ Take(h, b).first = h.first
           /\ \A c \in Blocks(h) : Take(h, b).hdr[c].size = h.hdr[c].size
           /\ Counted(h) => Counted(Take(h, b))
<1> DEFINE used == (h.used + h.hdr[b].size) % Word
           g == Take(h, b)
<1>1. /\ h.used \in Size /\ h.hdr[b].size \in Nat /\ Word \in Nat /\ Word > 0 /\ b \in Nat
  BY BlockTypes, SizeAssumption DEF Linear
<1>2. used \in Size
  <2>1. h.used + h.hdr[b].size \in Nat
    BY <1>1 DEF Size
  <2> HIDE DEF used
  <2> QED BY <1>1, <2>1 DEF Size, used
<1>3. g = Marked(h, b, TRUE, used)
  BY DEF Take, Marked, Linear, HeapState
<1> HIDE DEF g, used
<1>4. /\ Linear(g) /\ Blocks(g) = Blocks(h) /\ g.size = h.size /\ g.first = h.first
      /\ g.used = used /\ ~Free(g, b)
      /\ \A c \in Blocks(h) : End(g, c) = End(h, c) /\ g.hdr[c].size = h.hdr[c].size
      /\ \A c \in Blocks(h) \ {b} : Free(g, c) <=> Free(h, c)
  <2>1. MarkedSo(h, g, b, TRUE, used)
    BY <1>2, <1>3, MarkSpec
  <2> QED BY <2>1 DEF MarkedSo
<1>5. TakenBlock(h, g, b)
  BY <1>4 DEF TakenBlock
<1>6. /\ InUseToo(h, g, b + Hdr, End(h, b)) /\ b + Hdr \in Nat /\ End(h, b) \in Nat
      /\ End(h, b) - (b + Hdr) = h.hdr[b].size
  BY <1>5, TakenBytes
<1>7. Counted(h) => Counted(g)
  <2>1. Counted(h) => (h.used + (End(h, b) - (b + Hdr))) % Word = Cardinality(InUse(g))
    BY <1>4, <1>6, MoreInUse
  <2> QED BY <1>4, <1>6, <2>1 DEF Counted, used
<1> QED BY <1>4, <1>5, <1>7 DEF g

-----------------------------------------------------------------------------
(* The operations keep a heap whose blocks are those of its user.          *)

Good(h, L) == Linear(h) /\ Sorted(h) /\ Held(h, L)

(* The blocks of the user, and those of the heap.                          *)
LEMMA HeldBlock ==
    ASSUME NEW h, Linear(h), NEW L, Held(h, L), NEW p \in DOMAIN L
    PROVE  /\ p - Hdr \in Blocks(h) /\ ~Free(h, p - Hdr) /\ p = (p - Hdr) + Hdr
           /\ p \in Addr /\ p \in Nat /\ Valid(h, p - Hdr) /\ h.hdr[p - Hdr].size \in Nat
           /\ End(h, p - Hdr) = p + h.hdr[p - Hdr].size
<1>1. PICK b \in Blocks(h) : ~Free(h, b) /\ p = b + Hdr
  BY DEF Held
<1>2. /\ b \in Nat /\ End(h, b) \in Nat /\ End(h, b) <= h.size /\ h.size \in Addr
      /\ h.hdr[b].size \in Nat /\ b < h.size /\ h.hdr[b] # None /\ b + Hdr <= End(h, b)
  BY BlockTypes, BlockBelow DEF Linear
<1>3. Hdr \in Nat /\ Limit \in Nat
  BY SizeAssumption
<1>4. p - Hdr = b
  BY <1>1, <1>2, <1>3
<1>5. End(h, b) = p + h.hdr[b].size
  BY <1>1, <1>2, <1>3 DEF End
<1>6. p \in Nat /\ p \in Addr
  BY <1>1, <1>2, <1>3 DEF Addr
<1> QED BY <1>1, <1>2, <1>4, <1>5, <1>6 DEF Valid

LEMMA HeldSame ==
    ASSUME NEW h, NEW L, Held(h, L), NEW g, Linear(h),
           Blocks(g) \subseteq Blocks(h), \A c \in Blocks(h) \ Blocks(g) : Free(h, c),
           \A c \in Blocks(g) : Free(g, c) <=> Free(h, c),
           \A c \in Blocks(g) : ~Free(h, c) => g.hdr[c].size = h.hdr[c].size
    PROVE  Held(g, L)
<1>1. {c \in Blocks(g) : ~Free(g, c)} = {c \in Blocks(h) : ~Free(h, c)}
  OBVIOUS
<1>2. DOMAIN L = {b + Hdr : b \in {c \in Blocks(g) : ~Free(g, c)}}
  BY <1>1 DEF Held
<1>3. \A p \in DOMAIN L : p - Hdr \in Blocks(g) /\ ~Free(h, p - Hdr)
  <2> SUFFICES ASSUME NEW p \in DOMAIN L
               PROVE  p - Hdr \in Blocks(g) /\ ~Free(h, p - Hdr)
    OBVIOUS
  <2>1. p - Hdr \in Blocks(h) /\ ~Free(h, p - Hdr)
    BY HeldBlock
  <2> QED BY <2>1
<1>4. \A p \in DOMAIN L : L[p] \in Sizes /\ g.hdr[p - Hdr].size >= L[p]
  BY <1>3 DEF Held
<1> QED BY <1>2, <1>4 DEF Held

(* h with the block b of the user marked as free.                          *)
LEMMA FreedSpec ==
    ASSUME NEW h, NEW L, Good(h, L), NEW b \in Blocks(h), ~Free(h, b),
           NEW g, MarkedSo(h, g, b, FALSE, (h.used - h.hdr[b].size) % Word)
    PROVE  /\ Linear(g) /\ b \in Blocks(g) /\ Free(g, b) /\ Held(g, Without(L, b + Hdr))
           /\ \A d \in Blocks(g) : Free(g, d) /\ d # b /\ End(g, d) # b => Apart(g, d)
           /\ Counted(h) => Counted(g)
<1>1. /\ Linear(g) /\ Blocks(g) = Blocks(h) /\ g.size = h.size /\ g.first = h.first
      /\ g.used = (h.used - h.hdr[b].size) % Word /\ Free(g, b)
      /\ \A c \in Blocks(h) : End(g, c) = End(h, c) /\ g.hdr[c].size = h.hdr[c].size
      /\ \A c \in Blocks(h) \ {b} : Free(g, c) <=> Free(h, c)
  BY DEF MarkedSo
<1>2. Linear(h) /\ Sorted(h) /\ Held(h, L)
  BY DEF Good
<1>3. \A c \in Blocks(h) : c \in Nat
  BY <1>2, UseEnds
<1>4. Hdr \in Nat
  BY SizeAssumption
<1>5. Held(g, Without(L, b + Hdr))
  <2> DEFINE M == Without(L, b + Hdr)
  <2>1. DOMAIN M = DOMAIN L \ {b + Hdr}
    BY DEF Without
  <2>2. {c \in Blocks(g) : ~Free(g, c)} = {c \in Blocks(h) : ~Free(h, c)} \ {b}
    BY <1>1
  <2>3. DOMAIN M = {c + Hdr : c \in {c \in Blocks(g) : ~Free(g, c)}}
    <3>1. DOMAIN L = {c + Hdr : c \in {c \in Blocks(h) : ~Free(h, c)}}
      BY <1>2 DEF Held
    <3>2. \A c \in Blocks(h) : c + Hdr = b + Hdr => c = b
      BY <1>3, <1>4
    <3> HIDE DEF M
    <3> QED BY <2>1, <2>2, <3>1, <3>2
  <2>4. ASSUME NEW p \in DOMAIN M
        PROVE  M[p] \in Sizes /\ g.hdr[p - Hdr].size >= M[p]
    <3>1. p \in DOMAIN L /\ M[p] = L[p]
      BY <2>1 DEF Without
    <3>2. p - Hdr \in Blocks(h)
      BY <1>2, <3>1, HeldBlock
    <3>3. L[p] \in Sizes /\ h.hdr[p - Hdr].size >= L[p]
      BY <1>2, <3>1 DEF Held
    <3> HIDE DEF M
    <3> QED BY <1>1, <3>1, <3>2, <3>3
  <2> HIDE DEF M
  <2>5. Held(g, M)
    BY <2>3, <2>4 DEF Held
  <2> QED BY <2>5 DEF M
<1>6. ASSUME NEW d \in Blocks(g), Free(g, d), d # b, End(g, d) # b
      PROVE  Apart(g, d)
  <2>1. d \in Blocks(h) /\ Free(h, d) /\ End(g, d) = End(h, d)
    BY <1>1, <1>6
  <2>2. Apart(h, d)
    BY <1>2, <2>1 DEF Sorted
  <2> QED BY <1>1, <1>6, <2>1, <2>2 DEF Apart
<1>7. Counted(h) => Counted(g)
  <2>1. TakenBlock(g, h, b)
    BY <1>1, <1>2 DEF TakenBlock
  <2>2. /\ InUseToo(g, h, b + Hdr, End(g, b)) /\ b + Hdr \in Nat /\ End(g, b) \in Nat
        /\ End(g, b) - (b + Hdr) = g.hdr[b].size
    BY <1>1, <2>1, TakenBytes
  <2>3. Counted(h) => (h.used - (End(g, b) - (b + Hdr))) % Word = Cardinality(InUse(g))
    BY <1>1, <1>2, <2>2, MoreInUse
  <2> QED BY <1>1, <2>2, <2>3 DEF Counted
<1> QED BY <1>1, <1>5, <1>6, <1>7

(* heap_free.                                                              *)
LEMMA ReleaseGood ==
    ASSUME NEW h, NEW L, Good(h, L), NEW p \in DOMAIN L
    PROVE  /\ Good(Release(h, p), Without(L, p))
           /\ Counted(h) => Counted(Release(h, p))
<1> DEFINE b == p - Hdr
           used == (h.used - h.hdr[b].size) % Word
           f == Marked(h, b, FALSE, used)
           m == Merge(f, b)
           g == m.heap
           c == m.block
           k == [g EXCEPT !.first = IF c < @ THEN c ELSE @]
           M == Without(L, p)
<1>1. Linear(h) /\ Sorted(h) /\ Held(h, L)
  BY DEF Good
<1>2. /\ b \in Blocks(h) /\ ~Free(h, b) /\ p = b + Hdr /\ Valid(h, b)
      /\ h.hdr[b].size \in Nat
  BY <1>1, HeldBlock
<1>3. h \in HeapState /\ h.used \in Size /\ Word \in Nat /\ Word > 0 /\ b \in Nat
  BY <1>1, <1>2, BlockTypes, SizeAssumption DEF Linear
<1>4. used \in Size
  <2>1. h.used - h.hdr[b].size \in Int
    BY <1>2, <1>3 DEF Size
  <2> DEFINE x == h.used - h.hdr[b].size
  <2> HIDE DEF x
  <2>2. x \in Int
    BY <2>1 DEF x
  <2>3. x % Word \in Size
    BY <1>3, <2>2 DEF Size
  <2> QED BY <2>3 DEF x
<1>5. Release(h, p) = k
  <2>1. f = [h EXCEPT !.hdr[b].allocated = FALSE, !.used = (@ - h.hdr[b].size) % Word]
    BY <1>3 DEF Marked, HeapState
  <2> HIDE DEF f
  <2> QED BY <1>2, <2>1 DEF Release
<1> HIDE DEF k, M
<1> SUFFICES Good(k, M) /\ (Counted(h) => Counted(k))
  BY <1>5 DEF M
<1>6. MarkedSo(h, f, b, FALSE, used)
  BY <1>1, <1>2, <1>4, MarkSpec
<1> HIDE DEF f
<1>7. /\ Linear(f) /\ b \in Blocks(f) /\ Free(f, b) /\ Held(f, M)
      /\ \A d \in Blocks(f) : Free(f, d) /\ d # b /\ End(f, d) # b => Apart(f, d)
      /\ Counted(h) => Counted(f)
  BY <1>2, <1>6, FreedSpec DEF M
<1>8. /\ Blocks(f) = Blocks(h) /\ f.first = h.first
      /\ \A d \in Blocks(h) \ {b} : Free(f, d) <=> Free(h, d)
  BY <1>6 DEF MarkedSo
<1>9. /\ Grown(f, g, c) /\ c <= b /\ c \in Nat
      /\ \A d \in Blocks(g) : Free(g, d) => Apart(g, d)
  BY <1>7, MergeSpec
<1> HIDE DEF m, g, c, b, used
<1>10. /\ Linear(g) /\ c \in Blocks(g) /\ Free(f, c) /\ Blocks(g) \subseteq Blocks(f)
       /\ \A d \in Blocks(f) \ Blocks(g) : Free(f, d) /\ d > c
       /\ \A d \in Blocks(g) : Free(g, d) <=> Free(f, d)
       /\ \A d \in Blocks(g) \ {c} : g.hdr[d].size = f.hdr[d].size
       /\ g.first = f.first
       /\ Counted(f) => Counted(g)
  BY <1>9 DEF Grown
<1>11. /\ h.first \in Blocks(h) /\ Free(h, h.first)
       /\ \A d \in Blocks(h) : Free(h, d) => d >= h.first
       /\ h.first # b
  BY <1>1, <1>2 DEF Sorted
<1>12. g \in HeapState /\ c \in Addr /\ g.first \in Addr
  BY <1>10, BlockTypes DEF Linear
<1> DEFINE first == IF c < g.first THEN c ELSE g.first
<1>13. k.hdr = g.hdr /\ k.size = g.size /\ k.used = g.used /\ k.top = g.top
       /\ k.first = first /\ k \in HeapState
  BY <1>12 DEF HeapState, k
<1>14. /\ Linear(k) /\ Blocks(k) = Blocks(g) /\ InUse(k) = InUse(g)
       /\ \A d : End(k, d) = End(g, d) /\ (Free(k, d) <=> Free(g, d))
  BY <1>10, <1>13, SameHeaders
<1>15. \A d \in Blocks(h) : d \in Nat
  BY <1>1, UseEnds
<1>16. Sorted(k)
  <2>1. g.first = h.first
    BY <1>8, <1>10
  <2>2. k.first \in Blocks(k) /\ Free(k, k.first)
    <3>1. CASE c < g.first
      BY <1>10, <1>13, <1>14, <3>1
    <3>2. CASE ~(c < g.first)
      <4>1. ~(g.first > c)
        BY <1>9, <1>11, <1>15, <2>1, <3>2
      <4>2. g.first \in Blocks(g)
        BY <1>8, <1>10, <1>11, <2>1, <4>1
      <4>3. Free(g, g.first)
        BY <1>8, <1>10, <1>11, <2>1, <4>2
      <4> QED BY <1>13, <1>14, <3>2, <4>2, <4>3
    <3> QED BY <3>1, <3>2
  <2>3. ASSUME NEW d \in Blocks(k), Free(k, d)
        PROVE  d >= k.first
    <3>1. d \in Blocks(h) /\ Free(f, d)
      BY <1>8, <1>10, <1>14, <2>3
    <3>2. d = b \/ d >= h.first
      BY <1>8, <1>11, <3>1
    <3>3. d \in Nat /\ b \in Nat /\ h.first \in Nat
      BY <1>2, <1>11, <1>15, <3>1
    <3> QED BY <1>9, <1>13, <2>1, <3>2, <3>3
  <2>4. ASSUME NEW d \in Blocks(k), Free(k, d)
        PROVE  Apart(k, d)
    BY <1>9, <1>14, <2>4 DEF Apart
  <2> QED BY <2>2, <2>3, <2>4 DEF Sorted
<1>17. Held(k, M)
  <2> HIDE DEF M
  <2>1. \A d \in Blocks(k) : ~Free(f, d) => k.hdr[d].size = f.hdr[d].size
    BY <1>10, <1>13, <1>14
  <2>2. Blocks(k) \subseteq Blocks(f) /\ \A d \in Blocks(f) \ Blocks(k) : Free(f, d)
    BY <1>10, <1>14
  <2>3. \A d \in Blocks(k) : Free(k, d) <=> Free(f, d)
    BY <1>10, <1>14
  <2> QED BY <1>7, <2>1, <2>2, <2>3, HeldSame
<1>18. Counted(h) => Counted(k)
  BY <1>7, <1>10, <1>13, <1>14 DEF Counted
<1> QED BY <1>14, <1>16, <1>17, <1>18 DEF Good

(* The user gets block b as well.                                          *)
LEMMA HeldMore ==
    ASSUME NEW h, Linear(h), Held(h, live), NEW b \in Blocks(h), Free(h, b),
           NEW n \in Sizes, NEW k, Linear(k), b \in Blocks(k), ~Free(k, b),
           k.hdr[b].size >= n,
           \A c \in Blocks(k) : c # b /\ ~Free(k, c) => c \in Blocks(h) /\ ~Free(h, c),
           \A c \in Blocks(h) : ~Free(h, c) =>
               c \in Blocks(k) /\ ~Free(k, c) /\ k.hdr[c].size = h.hdr[c].size
    PROVE  Held(k, With(b + Hdr, n)) /\ b + Hdr \notin DOMAIN live
<1> DEFINE M == With(b + Hdr, n)
<1>1. b + Hdr \in Addr /\ b \in Nat /\ Hdr \in Nat
  <2>1. b \in Nat /\ End(h, b) \in Nat /\ b + Hdr <= End(h, b) /\ End(h, b) <= h.size
        /\ h.size \in Addr
    BY BlockTypes DEF Linear
  <2> QED BY <2>1, SizeAssumption DEF Addr
<1>2. b + Hdr # None
  BY <1>1, SizeAssumption
<1>3. DOMAIN M = DOMAIN live \union {b + Hdr}
  BY <1>2 DEF With
<1>4. \A p \in DOMAIN M : M[p] = IF p = b + Hdr THEN n ELSE live[p]
  BY <1>2 DEF With
<1>5. DOMAIN live = {c + Hdr : c \in {c \in Blocks(h) : ~Free(h, c)}}
  BY DEF Held
<1>6. {c \in Blocks(k) : ~Free(k, c)} = {c \in Blocks(h) : ~Free(h, c)} \union {b}
  OBVIOUS
<1>7. b + Hdr \notin DOMAIN live
  <2> SUFFICES ASSUME b + Hdr \in DOMAIN live PROVE FALSE
    OBVIOUS
  <2>1. ~Free(h, (b + Hdr) - Hdr)
    BY HeldBlock
  <2>2. (b + Hdr) - Hdr = b
    BY <1>1
  <2> QED BY <2>1, <2>2
<1> HIDE DEF M
<1>8. DOMAIN M = {c + Hdr : c \in {c \in Blocks(k) : ~Free(k, c)}}
  BY <1>3, <1>5, <1>6
<1>9. ASSUME NEW p \in DOMAIN M
      PROVE  M[p] \in Sizes /\ k.hdr[p - Hdr].size >= M[p]
  <2>1. CASE p = b + Hdr
    <3>1. p - Hdr = b
      BY <1>1, <2>1
    <3> QED BY <1>4, <2>1, <3>1
  <2>2. CASE p # b + Hdr
    <3>1. p \in DOMAIN live /\ M[p] = live[p]
      BY <1>3, <1>4, <2>2
    <3>2. p - Hdr \in Blocks(h) /\ ~Free(h, p - Hdr)
      BY <3>1, HeldBlock
    <3>3. live[p] \in Sizes /\ h.hdr[p - Hdr].size >= live[p]
      BY <3>1 DEF Held
    <3> QED BY <3>1, <3>2, <3>3
  <2> QED BY <2>1, <2>2
<1>10. Held(k, M)
  BY <1>8, <1>9 DEF Held
<1> QED BY <1>7, <1>10 DEF M

(* A free block that leaves room for more than a header is divided.        *)
LEMMA PlaceDivided ==
    ASSUME NEW h, Good(h, live), NEW b \in Blocks(h), Free(h, b), NEW n \in Sizes,
           n \in Nat, h.hdr[b].size > n + Hdr
    PROVE  LET k == Take(Divide(h, b, n), b) IN
           /\ Good(k, With(b + Hdr, n)) /\ b + Hdr \notin DOMAIN live
           /\ Counted(h) => Counted(k)
<1> DEFINE g == Divide(h, b, n)
           k == Take(g, b)
           new == b + Hdr + n
<1>1. Linear(h) /\ Sorted(h) /\ Held(h, live)
  BY DEF Good
<1>2. Divided(h, g, b, new)
  BY <1>1, DivideSpec
<1>3. Counted(h) => Counted(g)
  BY <1>1, DivideCounts
<1>4. Hdr \in Nat /\ b \in Nat /\ h.hdr[b].size \in Nat
  BY <1>1, BlockTypes, SizeAssumption DEF Linear
<1> HIDE DEF g
<1>5. /\ Linear(g) /\ new \in Addr \ Blocks(h) /\ b < new /\ new < End(h, b)
      /\ Blocks(g) = Blocks(h) \union {new}
      /\ End(g, b) = new /\ End(g, new) = End(h, b)
      /\ Free(g, new)
      /\ \A c \in Blocks(h) : g.hdr[c].allocated = h.hdr[c].allocated
      /\ \A c \in Blocks(h) \ {b} : g.hdr[c].size = h.hdr[c].size
      /\ g.size = h.size
      /\ g.first = IF h.first = b THEN new ELSE h.first
  BY <1>2 DEF Divided
<1>6. \A c \in Blocks(h) : Free(g, c) <=> Free(h, c)
  BY <1>5 DEF Free
<1>7. \A c \in Blocks(h) \ {b} : End(g, c) = End(h, c)
  BY <1>5 DEF End
<1>8. /\ TakenBlock(g, k, b) /\ k.first = g.first
      /\ \A c \in Blocks(g) : k.hdr[c].size = g.hdr[c].size
      /\ Counted(g) => Counted(k)
  BY <1>5, <1>6, TakeSpec
<1>9. /\ Linear(k) /\ Blocks(k) = Blocks(h) \union {new} /\ ~Free(k, b) /\ Free(k, new)
      /\ \A c \in Blocks(h) \ {b} : Free(k, c) <=> Free(h, c)
      /\ \A c \in Blocks(h) \ {b} : End(k, c) = End(h, c)
      /\ End(k, new) = End(h, b) /\ new # b
  BY <1>4, <1>5, <1>6, <1>7, <1>8 DEF TakenBlock
<1> HIDE DEF k
<1>10. \A c \in Blocks(h) : c \in Nat /\ End(h, c) \in Nat /\ h.size \in Nat /\ End(h, c) <= h.size
  BY <1>1, BlockTypes DEF Linear
<1>11. /\ h.first \in Blocks(h) /\ Free(h, h.first)
       /\ \A c \in Blocks(h) : Free(h, c) => c >= h.first /\ Apart(h, c)
  BY <1>1 DEF Sorted
<1>12. new \in Nat /\ k.first = IF h.first = b THEN new ELSE h.first
  BY <1>4, <1>5, <1>8
<1>13. \A c \in Blocks(h) : End(h, c) # new
  <2>1. new # h.size
    BY <1>5, <1>10, <1>12
  <2> QED BY <1>1, <1>5, <2>1 DEF Linear
<1>14. ASSUME NEW c \in Blocks(k), Free(k, c)
       PROVE  c >= k.first /\ Apart(k, c)
  <2>1. CASE c = new
    <3>1. c >= k.first
      <4>1. b >= h.first /\ b \in Nat /\ h.first \in Nat /\ b < new
        BY <1>5, <1>10, <1>11
      <4> HIDE DEF new
      <4> QED BY <1>12, <2>1, <4>1
    <3>2. Apart(h, b)
      BY <1>11
    <3>3. End(h, b) # new /\ End(h, b) # b
      BY <1>5, <1>10, <1>12, <1>13
    <3>4. Apart(k, c)
      BY <1>9, <2>1, <3>2, <3>3 DEF Apart
    <3> QED BY <3>1, <3>4
  <2>2. CASE c # new
    <3>1. c \in Blocks(h) \ {b} /\ Free(h, c)
      BY <1>9, <1>14, <2>2
    <3>2. c >= h.first /\ Apart(h, c)
      BY <1>11, <3>1
    <3>3. End(h, c) # b => Apart(k, c)
      BY <1>9, <1>13, <3>1, <3>2 DEF Apart
    <3>4. End(h, c) # b
      BY <3>2 DEF Apart
    <3>5. c >= k.first
      <4>1. CASE h.first = b
        <5>1. c > b
          BY <1>10, <3>1, <3>2, <4>1
        <5>2. End(h, b) <= c
          BY <1>1, <3>1, <5>1 DEF Linear
        <5> QED BY <1>5, <1>10, <1>12, <3>1, <4>1, <5>2
      <4>2. CASE h.first # b
        BY <1>12, <3>2, <4>2
      <4> QED BY <4>1, <4>2
    <3> QED BY <3>3, <3>4, <3>5
  <2> QED BY <2>1, <2>2
<1>15. k.first \in Blocks(k) /\ Free(k, k.first)
  BY <1>9, <1>11, <1>12
<1>16. Sorted(k)
  BY <1>14, <1>15 DEF Sorted
<1>17. Held(k, With(b + Hdr, n)) /\ b + Hdr \notin DOMAIN live
  <2>1. k.hdr[b].size >= n
    <3>1. g.hdr[b].size \in Nat /\ (b + Hdr) + g.hdr[b].size = new
      <4>1. g.hdr[b].size \in Nat
        BY <1>5, BlockTypes DEF Linear
      <4> QED BY <1>4, <1>5, <4>1 DEF End
    <3>2. k.hdr[b].size = g.hdr[b].size
      BY <1>5, <1>8
    <3> QED BY <1>4, <3>1, <3>2
  <2>2. \A c \in Blocks(k) : c # b /\ ~Free(k, c) => c \in Blocks(h) /\ ~Free(h, c)
    BY <1>9
  <2>3. \A c \in Blocks(h) : ~Free(h, c) =>
            c \in Blocks(k) /\ ~Free(k, c) /\ k.hdr[c].size = h.hdr[c].size
    BY <1>5, <1>8, <1>9
  <2> HIDE DEF new
  <2> QED BY <1>1, <1>9, <2>1, <2>2, <2>3, HeldMore
<1> QED BY <1>3, <1>8, <1>9, <1>16, <1>17 DEF Good, k, g

LEMMA PlaceWhole ==
    ASSUME NEW h, Good(h, live), NEW b \in Blocks(h), Free(h, b), NEW n \in Sizes,
           h.hdr[b].size >= n,
           NEW first \in Addr,
           IF h.first = b THEN NextFree(h, b) # None /\ first = NextFree(h, b)
           ELSE first = h.first
    PROVE  LET k == Take([h EXCEPT !.first = first], b) IN
           /\ Good(k, With(b + Hdr, n)) /\ b + Hdr \notin DOMAIN live
           /\ Counted(h) => Counted(k)
<1> DEFINE g == [h EXCEPT !.first = first]
           k == Take(g, b)
<1>1. Linear(h) /\ Sorted(h) /\ Held(h, live)
  BY DEF Good
<1>2. g \in HeapState /\ g.hdr = h.hdr /\ g.size = h.size /\ g.top = h.top
      /\ g.used = h.used /\ g.first = first
  BY <1>1 DEF Linear, HeapState
<1> HIDE DEF g
<1>3. /\ Linear(g) /\ Blocks(g) = Blocks(h) /\ InUse(g) = InUse(h)
      /\ \A c : End(g, c) = End(h, c) /\ (Free(g, c) <=> Free(h, c))
  BY <1>1, <1>2, SameHeaders
<1>4. Counted(h) => Counted(g)
  BY <1>2, <1>3 DEF Counted
<1>5. /\ TakenBlock(g, k, b) /\ k.first = g.first
      /\ \A c \in Blocks(g) : k.hdr[c].size = g.hdr[c].size
      /\ Counted(g) => Counted(k)
  BY <1>3, TakeSpec
<1>6. /\ Linear(k) /\ Blocks(k) = Blocks(h) /\ ~Free(k, b) /\ k.first = first
      /\ \A c \in Blocks(h) \ {b} : Free(k, c) <=> Free(h, c)
      /\ \A c \in Blocks(h) : End(k, c) = End(h, c) /\ k.hdr[c].size = h.hdr[c].size
  BY <1>2, <1>3, <1>5 DEF TakenBlock
<1> HIDE DEF k
<1>7. \A c \in Blocks(h) : c \in Nat
  BY <1>1, BlockTypes DEF Linear
<1>8. /\ h.first \in Blocks(h) /\ Free(h, h.first)
      /\ \A c \in Blocks(h) : Free(h, c) => c >= h.first /\ Apart(h, c)
  BY <1>1 DEF Sorted
<1>9. /\ first \in Blocks(h) /\ first # b /\ Free(h, first)
      /\ \A c \in Blocks(h) : Free(h, c) /\ c # b => c >= first
  <2>1. CASE h.first = b
    <3> DEFINE x == NextFree(h, b)
    <3>1. x # None /\ first = x
      BY <2>1
    <3>2. /\ x \in Blocks(h) /\ x > b /\ Free(h, x)
          /\ \A c \in Blocks(h) : b < c /\ c < x => ~Free(h, c)
      BY <1>1, <3>1, NextFreeSpec
    <3> HIDE DEF x
    <3>3. ASSUME NEW c \in Blocks(h), Free(h, c), c # b
          PROVE  c >= x
      <4>1. c >= b
        BY <1>8, <2>1, <3>3
      <4> QED BY <1>7, <3>2, <3>3, <4>1
    <3> QED BY <1>7, <3>1, <3>2, <3>3
  <2>2. CASE h.first # b
    BY <1>8, <2>2
  <2> QED BY <2>1, <2>2
<1>10. Sorted(k)
  <2>1. \A c \in Blocks(k) : Free(k, c) => c \in Blocks(h) /\ c # b /\ Free(h, c)
    BY <1>6
  <2>2. \A c \in Blocks(k) : Free(k, c) => Apart(k, c)
    <3> SUFFICES ASSUME NEW c \in Blocks(k), Free(k, c), End(k, c) \in Blocks(k)
                 PROVE  ~Free(k, End(k, c))
      BY DEF Apart
    <3>1. ~Free(h, End(k, c))
      BY <1>6, <1>8, <2>1 DEF Apart
    <3> QED BY <1>6, <3>1
  <2> QED BY <1>6, <1>9, <2>1, <2>2 DEF Sorted
<1>11. Held(k, With(b + Hdr, n)) /\ b + Hdr \notin DOMAIN live
  <2>1. k.hdr[b].size >= n
    BY <1>6
  <2>2. \A c \in Blocks(k) : c # b /\ ~Free(k, c) => c \in Blocks(h) /\ ~Free(h, c)
    BY <1>6
  <2>3. \A c \in Blocks(h) : ~Free(h, c) =>
            c \in Blocks(k) /\ ~Free(k, c) /\ k.hdr[c].size = h.hdr[c].size
    BY <1>6
  <2> QED BY <1>1, <1>6, <2>1, <2>2, <2>3, HeldMore
<1> QED BY <1>4, <1>5, <1>6, <1>10, <1>11 DEF Good, k, g

(* A block divided beyond its end leaves numbers and pointers in the       *)
(* headers: their types are all that is known of them.                     *)
LEMMA DivideTypes ==
    ASSUME NEW h, Linear(h), NEW b \in Blocks(h), NEW n \in Nat, h.hdr[b].size >= n
    PROVE  Divide(h, b, n) \in HeapState /\ b \in Blocks(Divide(h, b, n))
<1> DEFINE new == b + Hdr + n
           x == [allocated |-> FALSE, before |-> b, size |-> Rest(h, b, n)]
           y == [h.hdr[b] EXCEPT !.size = n]
           g == [h EXCEPT !.hdr[new] = x,
                          !.hdr[b].size = n,
                          !.used = (@ + Hdr) % Word,
                          !.first = IF @ = b THEN new ELSE @,
                          !.top = IF new > @ THEN new ELSE @]
           next == Following(g, new)
           k == [g EXCEPT !.hdr[next].before = new]
           T == [Addr -> Header \union {None}]
<1>1. h \in HeapState /\ End(h, b) <= h.size
  BY DEF Linear
<1>2. /\ b \in Addr /\ b \in Nat /\ h.size \in Nat /\ h.size <= Limit /\ h.hdr \in T
      /\ h.hdr[b] \in Header /\ h.hdr[b].size \in Nat /\ h.hdr[b].size < Word
      /\ h.used \in Nat /\ h.first \in Addr /\ h.top \in Addr
  BY <1>1, BlockTypes, SizeAssumption DEF Addr, Size
<1>3. Hdr \in Nat /\ Hdr > 0 /\ Word \in Nat /\ Word > 0 /\ Limit \in Nat /\ Limit < Word
  BY SizeAssumption
<1>4. new \in Addr /\ new # b /\ n \in Size
  BY <1>1, <1>2, <1>3 DEF End, Addr, Size
<1>5. Rest(h, b, n) \in Size /\ (h.used + Hdr) % Word \in Size
  BY <1>2, <1>3 DEF Rest, Size
<1>6. x \in Header /\ y \in Header
  BY <1>2, <1>4, <1>5 DEF Header
<1>7. /\ g.hdr = [[h.hdr EXCEPT ![new] = x] EXCEPT ![b].size = n]
      /\ g.size = h.size /\ g.used = (h.used + Hdr) % Word
      /\ g.first = (IF h.first = b THEN new ELSE h.first)
      /\ g.top = (IF new > h.top THEN new ELSE h.top)
  BY <1>1 DEF HeapState
<1>8. g.hdr = [[h.hdr EXCEPT ![new] = x] EXCEPT ![b] = y]
  <2> HIDE DEF new, x, g
  <2> QED BY <1>2, <1>4, <1>7
<1> HIDE DEF x, y
<1>9. g.hdr \in T /\ g.hdr[b] = y /\ g.hdr[new] = x
  <2> HIDE DEF new, g
  <2> QED BY <1>2, <1>4, <1>6, <1>8
<1>10. g \in HeapState
  <2> HIDE DEF new, x
  <2> QED BY <1>1, <1>2, <1>4, <1>5, <1>7, <1>9 DEF HeapState
<1> HIDE DEF g, new
<1>11. g.hdr[b] # None
  BY <1>6, <1>9, NoneAssumption
<1>12. ASSUME Valid(g, next)
       PROVE  k \in HeapState /\ k.hdr[b] # None
  <2> DEFINE z == [g.hdr[next] EXCEPT !.before = new]
  <2>1. next \in Nat
    BY <1>2, <1>3, <1>4, <1>6, <1>9 DEF Following, Header, Size, Addr
  <2> HIDE DEF next
  <2>2. next \in Addr
    BY <1>2, <1>3, <1>7, <1>12, <2>1 DEF Valid, Addr
  <2>3. g.hdr[next] \in Header
    BY <1>9, <1>12, <2>2 DEF Valid
  <2>4. z \in Header
    BY <1>4, <2>3 DEF Header
  <2>5. k.hdr = [g.hdr EXCEPT ![next] = z]
    BY <1>10 DEF HeapState
  <2> HIDE DEF z
  <2>6. k.hdr \in T /\ k.hdr[b] # None
    <3> HIDE DEF k
    <3> QED BY <1>2, <1>9, <1>11, <2>2, <2>4, <2>5, NoneAssumption
  <2> QED BY <1>10, <2>6 DEF HeapState
<1>13. Divide(h, b, n) = IF Valid(g, next) THEN k ELSE g
  BY DEF Divide, g, new, x
<1> HIDE DEF k, next
<1> QED BY <1>2, <1>10, <1>11, <1>12, <1>13 DEF Blocks

LEMMA TakeTypes ==
    ASSUME NEW h \in HeapState, NEW b \in Blocks(h)
    PROVE  Take(h, b) \in HeapState
<1> DEFINE x == [h.hdr[b] EXCEPT !.allocated = TRUE]
           used == (h.used + h.hdr[b].size) % Word
           k == Take(h, b)
<1>1. /\ b \in Addr /\ h.hdr \in [Addr -> Header \union {None}] /\ h.hdr[b] \in Header
      /\ h.hdr[b].size \in Nat /\ h.used \in Nat /\ Word \in Nat /\ Word > 0
  BY BlockTypes, SizeAssumption DEF Size
<1>2. used \in Size
  BY <1>1 DEF Size
<1>3. x \in Header
  BY <1>1 DEF Header
<1> HIDE DEF used
<1>4. k = [h EXCEPT !.hdr[b].allocated = TRUE, !.used = used]
  BY DEF Take, HeapState, used
<1> HIDE DEF k
<1>5. k.hdr = [h.hdr EXCEPT ![b] = x]
  BY <1>1, <1>4 DEF HeapState
<1> HIDE DEF x
<1>6. k.hdr \in [Addr -> Header \union {None}]
  BY <1>1, <1>3, <1>5
<1>7. k \in HeapState
  BY <1>2, <1>4, <1>6 DEF HeapState
<1> QED BY <1>7 DEF k

(* The block that is found is handed out; or there is no free one left; or *)
(* it is too small for the header of the rest.                             *)
Handed(h, r, n) ==
    \/ r.halt = "panic" /\ r.heap = h
    \/ r.halt = "overrun" /\ r.heap \in HeapState
    \/ /\ r.halt = "no" /\ r.ptr \in Addr /\ r.ptr \notin DOMAIN live
       /\ Good(r.heap, With(r.ptr, n)) /\ (Counted(h) => Counted(r.heap))

LEMMA PlaceGood ==
    ASSUME NEW h, Good(h, live), NEW b \in Blocks(h), Free(h, b), NEW n \in Sizes,
           h.hdr[b].size >= n
    PROVE  Handed(h, Place(h, b, n), n)
<1> DEFINE r == Place(h, b, n)
           next == NextFree(h, b)
           rest == Rest(h, b, n)
<1>1. Linear(h) /\ Sorted(h) /\ Held(h, live)
  BY DEF Good
<1>2. /\ b \in Nat /\ h.hdr[b].size \in Nat /\ h.hdr[b].size < Word /\ End(h, b) \in Nat
      /\ End(h, b) <= h.size /\ b + Hdr <= End(h, b) /\ h.size \in Addr
      /\ h.first \in Addr
  BY <1>1, BlockTypes, SizeAssumption DEF Linear, Size
<1>3. Hdr \in Nat /\ Word \in Nat /\ Limit \in Nat /\ n \in Nat
  BY SizeAssumption DEF Addr
<1>4. b + Hdr \in Addr
  BY <1>2, <1>3 DEF Addr
<1>5. CASE Overruns(h, b, n)
  <2> DEFINE k == Take(Divide(h, b, n), b)
  <2>1. r.halt = "overrun" /\ r.heap = k
    BY <1>5 DEF Place, Overruns
  <2>2. k \in HeapState
    BY <1>1, <1>3, DivideTypes, TakeTypes
  <2> HIDE DEF k, r
  <2> QED BY <2>1, <2>2 DEF Handed, r
<1>6. CASE rest > 0 /\ ~Overruns(h, b, n)
  <2> DEFINE k == Take(Divide(h, b, n), b)
  <2>1. r = [halt |-> "no", ptr |-> b + Hdr, heap |-> k]
    BY <1>6 DEF Place
  <2>2. h.hdr[b].size > n + Hdr
    <3> DEFINE x == h.hdr[b].size - n - Hdr
    <3>1. h.hdr[b].size >= n + Hdr
      BY <1>2, <1>3, <1>6 DEF Overruns
    <3>2. x \in Nat /\ x < Word /\ x = h.hdr[b].size - (n + Hdr)
      BY <1>2, <1>3, <3>1
    <3> HIDE DEF x
    <3>3. x % Word = x
      BY <1>3, <3>2, WordMod
    <3>4. x > 0
      BY <1>6, <3>3 DEF Rest, x
    <3> QED BY <1>2, <1>3, <3>2, <3>4
  <2>3. /\ Good(k, With(b + Hdr, n)) /\ b + Hdr \notin DOMAIN live
        /\ Counted(h) => Counted(k)
    BY <1>3, <2>2, PlaceDivided
  <2> HIDE DEF k, r
  <2> QED BY <1>4, <2>1, <2>3 DEF Handed, r
<1>7. CASE ~(rest > 0) /\ h.first = b /\ next = None
  <2>1. r = [halt |-> "panic", ptr |-> None, heap |-> h]
    BY <1>7 DEF Place, Overruns
  <2> HIDE DEF r
  <2> QED BY <2>1 DEF Handed, r
<1>8. CASE ~(rest > 0) /\ ~(h.first = b /\ next = None)
  <2> DEFINE first == IF h.first = b THEN next ELSE h.first
             k == Take([h EXCEPT !.first = first], b)
  <2>1. r = [halt |-> "no", ptr |-> b + Hdr, heap |-> k]
    <3>1. r = [halt |-> "no", ptr |-> b + Hdr,
               heap |-> Take(IF h.first = b /\ next # None
                             THEN [h EXCEPT !.first = next] ELSE h, b)]
      BY <1>8 DEF Place, Overruns
    <3>2. (IF h.first = b /\ next # None THEN [h EXCEPT !.first = next] ELSE h)
          = [h EXCEPT !.first = first]
      <4>1. CASE h.first = b
        BY <1>8, <4>1
      <4>2. CASE h.first # b
        <5>1. [h EXCEPT !.first = h.first] = h
          BY <1>1 DEF Linear, HeapState
        <5> QED BY <4>2, <5>1
      <4> QED BY <4>1, <4>2
    <3> HIDE DEF next, first, r
    <3> QED BY <3>1, <3>2
  <2>2. first \in Addr
    <3>1. next # None => next \in Addr
      BY <1>1, NextFreeSpec DEF Blocks
    <3> QED BY <1>2, <1>8, <3>1
  <2>3. IF h.first = b THEN NextFree(h, b) # None /\ first = NextFree(h, b)
        ELSE first = h.first
    BY <1>8
  <2>4. h.hdr[b].size >= n
    BY <1>2, <1>3
  <2> HIDE DEF first
  <2>5. /\ Good(k, With(b + Hdr, n)) /\ b + Hdr \notin DOMAIN live
        /\ Counted(h) => Counted(k)
    BY <2>2, <2>3, <2>4, PlaceWhole
  <2> HIDE DEF k, r
  <2> QED BY <1>4, <2>1, <2>5 DEF Handed, r
<1> QED BY <1>5, <1>6, <1>7, <1>8

LEMMA GrowthType ==
    ASSUME NEW h \in HeapState, NEW n \in Nat
    PROVE  Growth(h, n) \in Nat
<1>1. h.used \in Nat /\ h.size \in Nat /\ Page \in Nat /\ Page > 0
  BY SizeAssumption DEF HeapState, Size, Addr
<1> DEFINE x == h.used + n - h.size
           q == x \div Page + 1
<1>2. CASE h.used + n < h.size
  BY <1>2 DEF Growth
<1>3. CASE ~(h.used + n < h.size)
  <2>1. x \in Nat
    BY <1>1, <1>3
  <2>2. q \in Nat
    <3> HIDE DEF x
    <3> QED BY <1>1, <2>1
  <2>3. q * Page \in Nat
    <3> HIDE DEF q
    <3> QED BY <1>1, <2>2
  <2> QED BY <1>3, <2>3 DEF Growth
<1> QED BY <1>2, <1>3

(* expand: the last block is enlarged.                                     *)
Expanded(h, e) ==
    /\ Linear(e) /\ Blocks(e) = Blocks(h) /\ e.used = h.used /\ e.first = h.first
    /\ \A c \in Blocks(h) : Free(e, c) <=> Free(h, c)
    /\ \A c \in Blocks(h) : e.hdr[c].size >= h.hdr[c].size
    /\ \A c \in Blocks(h) \ {h.top} :
        e.hdr[c].size = h.hdr[c].size /\ End(e, c) = End(h, c)
    /\ End(e, h.top) = e.size

LEMMA ExpandSpec ==
    ASSUME NEW h, Linear(h), NEW n \in Nat, Expand(h, n).size <= Limit
    PROVE  Expanded(h, Expand(h, n))
<1> DEFINE d == Growth(h, n)
           e == Expand(h, n)
           t == h.top
           x == [h.hdr[t] EXCEPT !.size = @ + d]
<1>1. h \in HeapState /\ t \in Blocks(h) /\ End(h, t) = h.size
  BY DEF Linear
<1>2. /\ t \in Addr /\ t \in Nat /\ h.hdr \in [Addr -> Header \union {None}]
      /\ h.hdr[t] \in Header /\ h.hdr[t].size \in Nat /\ h.size \in Nat
      /\ h.used \in Size /\ h.first \in Addr
  BY <1>1, BlockTypes
<1>3. d \in Nat
  BY <1>1, GrowthType
<1>4. Hdr \in Nat /\ Limit \in Nat /\ Word \in Nat /\ Limit < Word
  BY SizeAssumption
<1> HIDE DEF d
<1>5. /\ e.hdr = [h.hdr EXCEPT ![t].size = @ + d] /\ e.size = h.size + d
      /\ e.used = h.used /\ e.top = t /\ e.first = h.first
  BY <1>1 DEF Expand, HeapState, d
<1>6. h.size + d <= Limit
  BY <1>5
<1>7. h.hdr[t].size + d \in Size
  <2>1. t + Hdr + h.hdr[t].size = h.size
    BY <1>1 DEF End
  <2> QED BY <1>2, <1>3, <1>4, <1>6, <2>1 DEF Size
<1>8. x \in Header /\ x.size = h.hdr[t].size + d /\ x.allocated = h.hdr[t].allocated
      /\ x.before = h.hdr[t].before
  BY <1>2, <1>7 DEF Header
<1>9. e.hdr = [h.hdr EXCEPT ![t] = x]
  BY <1>5
<1> HIDE DEF x
<1>10. e.hdr \in [Addr -> Header \union {None}]
  BY <1>2, <1>8, <1>9
<1>11. e.size \in Addr
  BY <1>2, <1>3, <1>4, <1>5, <1>6 DEF Addr
<1>12. e \in HeapState
  BY <1>1, <1>10, <1>11 DEF HeapState, Expand
<1> HIDE DEF e
<1>13. e.hdr[t] = x /\ \A c \in Addr \ {t} : e.hdr[c] = h.hdr[c]
  BY <1>2, <1>9
<1>14. Blocks(e) = Blocks(h)
  BY <1>1, <1>2, <1>8, <1>13, NoneAssumption DEF Blocks
<1>15. \A c \in Blocks(h) : /\ e.hdr[c].before = h.hdr[c].before
                            /\ e.hdr[c].allocated = h.hdr[c].allocated
                            /\ c # t => e.hdr[c].size = h.hdr[c].size
  BY <1>8, <1>13 DEF Blocks
<1>16. \A c \in Blocks(h) \ {t} : End(e, c) = End(h, c)
  BY <1>15 DEF End
<1>17. End(e, t) = e.size /\ e.hdr[t].size = h.hdr[t].size + d
  <2>1. e.hdr[t].size = h.hdr[t].size + d
    BY <1>8, <1>13
  <2>2. t + Hdr + h.hdr[t].size = h.size
    BY <1>1 DEF End
  <2>3. t + Hdr + (h.hdr[t].size + d) = h.size + d
    BY <1>2, <1>3, <1>4, <2>2
  <2> QED BY <1>5, <2>1, <2>3 DEF End
<1>18. \A c \in Blocks(h) : c \in Nat /\ h.hdr[c].size \in Nat /\ c < h.size
                            /\ End(h, c) \in Nat
  BY <1>1, BlockTypes, BlockBelow
<1>19. \A c \in Blocks(h) \ {t} : End(h, c) # h.size
  BY <1>1, SameEnd
<1>20. Linear(e)
  <2>1. 0 \in Blocks(e) /\ e.hdr[0].before = None
    BY <1>14, <1>15 DEF Linear
  <2>2. ASSUME NEW c \in Blocks(e)
        PROVE  End(e, c) <= e.size /\ End(e, c) \in Blocks(e) \union {e.size}
    <3>1. CASE c = t
      BY <1>2, <1>3, <1>5, <1>17, <3>1
    <3>2. CASE c # t
      <4>1. c \in Blocks(h) \ {t}
        BY <1>14, <3>2
      <4>2. End(h, c) \in Blocks(h) /\ End(e, c) = End(h, c) /\ End(h, c) <= h.size
        BY <1>16, <1>19, <4>1 DEF Linear
      <4> QED BY <1>2, <1>3, <1>5, <1>14, <1>18, <4>1, <4>2
    <3> QED BY <3>1, <3>2
  <2>3. ASSUME NEW c \in Blocks(e), NEW f \in Blocks(e), c < f
        PROVE  End(e, c) <= f
    <3>1. End(h, c) <= f /\ c \in Blocks(h) /\ f \in Blocks(h)
      BY <1>14, <2>3 DEF Linear
    <3>2. c # t
      BY <1>1, <1>2, <1>18, <3>1
    <3> QED BY <1>16, <3>1, <3>2
  <2>4. ASSUME NEW c \in Blocks(e) \ {0}
        PROVE  e.hdr[c].before \in Blocks(e) /\ End(e, e.hdr[c].before) = c
    <3>1. c \in Blocks(h) \ {0}
      BY <1>14
    <3>2. h.hdr[c].before \in Blocks(h) /\ End(h, h.hdr[c].before) = c
      BY <3>1 DEF Linear
    <3>3. h.hdr[c].before # t
      BY <1>1, <1>2, <1>18, <3>1, <3>2
    <3> QED BY <1>14, <1>15, <1>16, <3>1, <3>2, <3>3
  <2>5. e.top \in Blocks(e) /\ End(e, e.top) = e.size
    BY <1>1, <1>5, <1>14, <1>17
  <2> QED BY <1>12, <2>1, <2>2, <2>3, <2>4, <2>5 DEF Linear
<1>21. \A c \in Blocks(h) : e.hdr[c].size >= h.hdr[c].size
  BY <1>3, <1>15, <1>17, <1>18
<1>22. \A c \in Blocks(h) : Free(e, c) <=> Free(h, c)
  BY <1>15 DEF Free
<1>23. Expanded(h, e)
  BY <1>5, <1>14, <1>15, <1>16, <1>17, <1>20, <1>21, <1>22 DEF Expanded
<1> QED BY <1>23 DEF e

LEMMA ExpandGood ==
    ASSUME NEW h, NEW L, Good(h, L), NEW e, Expanded(h, e)
    PROVE  Good(e, L) /\ (Free(h, h.top) /\ Counted(h) => Counted(e))
<1>1. Linear(h) /\ Sorted(h) /\ Held(h, L)
  BY DEF Good
<1>2. /\ Linear(e) /\ Blocks(e) = Blocks(h) /\ e.used = h.used /\ e.first = h.first
      /\ \A c \in Blocks(h) : Free(e, c) <=> Free(h, c)
      /\ \A c \in Blocks(h) : e.hdr[c].size >= h.hdr[c].size
      /\ \A c \in Blocks(h) \ {h.top} : End(e, c) = End(h, c)
      /\ End(e, h.top) = e.size
  BY DEF Expanded
<1>3. h.top \in Blocks(h)
  BY <1>1 DEF Linear
<1>4. \A c \in Blocks(h) : c \in Nat /\ h.hdr[c].size \in Nat
  BY <1>1, BlockTypes DEF Linear
<1>5. \A c \in Blocks(h) : c < e.size /\ e.hdr[c].size \in Nat
  BY <1>2, BlockTypes, BlockBelow DEF Linear
<1>6. Sorted(e)
  <2>1. e.size \notin Blocks(h)
    BY <1>4, <1>5
  <2>2. ASSUME NEW c \in Blocks(e), Free(e, c)
        PROVE  c >= e.first /\ Apart(e, c)
    <3>1. c \in Blocks(h) /\ c >= h.first /\ Apart(h, c)
      BY <1>1, <1>2, <2>2 DEF Sorted
    <3>2. Apart(e, c)
      <4>1. CASE c = h.top
        BY <1>2, <2>1, <4>1 DEF Apart
      <4>2. CASE c # h.top
        <5>1. End(e, c) = End(h, c)
          BY <1>2, <3>1, <4>2
        <5> QED BY <1>2, <3>1, <5>1 DEF Apart
      <4> QED BY <4>1, <4>2
    <3> QED BY <1>2, <3>1, <3>2
  <2>3. e.first \in Blocks(e) /\ Free(e, e.first)
    BY <1>1, <1>2 DEF Sorted
  <2> QED BY <2>2, <2>3 DEF Sorted
<1>7. Held(e, L)
  <2>1. DOMAIN L = {b + Hdr : b \in {c \in Blocks(e) : ~Free(e, c)}}
    <3>1. {c \in Blocks(e) : ~Free(e, c)} = {c \in Blocks(h) : ~Free(h, c)}
      BY <1>2
    <3> QED BY <1>1, <3>1 DEF Held
  <2>2. ASSUME NEW p \in DOMAIN L
        PROVE  L[p] \in Sizes /\ e.hdr[p - Hdr].size >= L[p]
    <3>1. L[p] \in Sizes /\ h.hdr[p - Hdr].size >= L[p] /\ L[p] \in Nat
      <4>1. Sizes \subseteq Nat
        BY SizeAssumption DEF Addr
      <4>2. L[p] \in Sizes /\ h.hdr[p - Hdr].size >= L[p]
        BY <1>1 DEF Held
      <4> QED BY <4>1, <4>2
    <3>2. p - Hdr \in Blocks(h)
      BY <1>1, HeldBlock
    <3> QED BY <1>2, <1>4, <1>5, <3>1, <3>2
  <2> QED BY <2>1, <2>2 DEF Held
<1>8. ASSUME Free(h, h.top), Counted(h)
      PROVE  Counted(e)
  <2>1. \A c \in Blocks(h) : UseEnd(e, c) = UseEnd(h, c)
    <3> SUFFICES ASSUME NEW c \in Blocks(h) PROVE UseEnd(e, c) = UseEnd(h, c)
      OBVIOUS
    <3>1. CASE Free(h, c)
      BY <1>2, <3>1 DEF UseEnd
    <3>2. CASE ~Free(h, c)
      <4>1. End(e, c) = End(h, c) /\ ~Free(e, c)
        BY <1>2, <1>8, <3>2
      <4> QED BY <1>1, <1>2, <3>2, <4>1, UseEnds
    <3> QED BY <3>1, <3>2
  <2>2. /\ InUse(h) = {a \in Nat : \E b \in Blocks(h) : b <= a /\ a < UseEnd(h, b)}
        /\ InUse(e) = {a \in Nat : \E b \in Blocks(e) : b <= a /\ a < UseEnd(e, b)}
    BY <1>1, <1>2, InUseOf
  <2>3. InUse(e) = InUse(h)
    BY <1>2, <2>1, <2>2
  <2> QED BY <1>2, <1>8, <2>3 DEF Counted
<1> QED BY <1>1, <1>2, <1>6, <1>7, <1>8 DEF Good

(* heap_allocate.  If it expands the heap and finds a block then, that is  *)
(* the last one: it was free.                                              *)
Allocated(h, r, n) ==
    \/ r.halt = "no" /\ r.ptr = None /\ r.heap = h
    \/ r.halt = "loop" /\ Good(r.heap, live)
    \/ r.halt = "overrun" /\ r.heap \in HeapState
    \/ r.halt = "panic" /\ Good(r.heap, live) /\ (Counted(h) => Counted(r.heap))
    \/ /\ r.halt = "no" /\ r.ptr \in Addr /\ r.ptr \notin DOMAIN live
       /\ Good(r.heap, With(r.ptr, n)) /\ (Counted(h) => Counted(r.heap))

LEMMA ExpandedTop ==
    ASSUME NEW h, NEW L, Good(h, L), NEW e, Expanded(h, e), NEW n,
           FirstFit(h, n) = None, FirstFit(e, n) # None
    PROVE  Free(h, h.top)
<1> DEFINE b == FirstFit(e, n)
<1>1. Linear(h) /\ Sorted(h)
  BY DEF Good
<1>2. /\ Linear(e) /\ Blocks(e) = Blocks(h) /\ e.first = h.first
      /\ \A c \in Blocks(h) : Free(e, c) <=> Free(h, c)
      /\ \A c \in Blocks(h) \ {h.top} : e.hdr[c].size = h.hdr[c].size
  BY DEF Expanded
<1>3. h.first \in Blocks(h) /\ \A c \in Blocks(h) : Free(h, c) => c >= h.first
  BY <1>1 DEF Sorted
<1>4. b \in Blocks(e) /\ Free(e, b) /\ e.hdr[b].size >= n
  BY <1>2, <1>3, FirstFitSpec
<1>5. \A c \in Blocks(h) : c >= h.first /\ Free(h, c) => ~(h.hdr[c].size >= n)
  BY <1>1, <1>3, FirstFitSpec
<1> HIDE DEF b
<1>6. b \in Blocks(h) /\ Free(h, b) /\ b >= h.first
  BY <1>2, <1>3, <1>4
<1>7. b = h.top
  BY <1>2, <1>4, <1>5, <1>6
<1> QED BY <1>6, <1>7

LEMMA AllocateGood ==
    ASSUME NEW h, Good(h, live), NEW n \in Sizes, NEW g,
           g = IF FirstFit(h, n) = None THEN Expand(h, n) ELSE h,
           FirstFit(h, n) = None => g.size <= Limit
    PROVE  Allocated(h, Allocate(h, n), n)
<1> DEFINE e == Expand(h, n)
           b == FirstFit(g, n)
           r == Allocate(h, n)
<1>1. r = IF n = 0 THEN [halt |-> "no", ptr |-> None, heap |-> h]
          ELSE IF FirstFit(h, n) # None THEN Place(h, FirstFit(h, n), n)
          ELSE IF FirstFit(e, n) # None THEN Place(e, FirstFit(e, n), n)
          ELSE [halt |-> "loop", ptr |-> None, heap |-> e]
  BY DEF Allocate
<1>2. n \in Nat
  BY SizeAssumption DEF Addr
<1>3. Linear(h)
  BY DEF Good
<1> HIDE DEF e, r
<1>4. CASE n = 0
  BY <1>1, <1>4 DEF Allocated, r
<1>5. ASSUME Good(g, live), Counted(h) => Counted(g), b # None, r = Place(g, b, n)
      PROVE  Allocated(h, r, n)
  <2>1. Linear(g) /\ g.first \in Blocks(g)
    BY <1>5 DEF Good, Sorted
  <2>2. b \in Blocks(g) /\ Free(g, b) /\ g.hdr[b].size >= n
    BY <1>5, <2>1, FirstFitSpec
  <2>3. Handed(g, r, n)
    BY <1>5, <2>2, PlaceGood
  <2> HIDE DEF b
  <2> QED BY <1>5, <2>3 DEF Handed, Allocated
<1>6. CASE n # 0 /\ FirstFit(h, n) # None
  <2>1. g = h
    BY <1>6
  <2>2. r = Place(g, b, n)
    BY <1>1, <1>6, <2>1
  <2> QED BY <1>5, <1>6, <2>1, <2>2 DEF r
<1>7. CASE n # 0 /\ FirstFit(h, n) = None
  <2>1. g = e
    BY <1>7 DEF e
  <2>2. Expanded(h, g)
    BY <1>2, <1>3, <1>7, <2>1, ExpandSpec DEF e
  <2>3. Good(g, live)
    BY <2>2, ExpandGood
  <2>4. CASE b = None
    <3>1. r = [halt |-> "loop", ptr |-> None, heap |-> g]
      BY <1>1, <1>7, <2>1, <2>4
    <3>2. r.halt = "loop" /\ r.heap = g
      BY <3>1
    <3> QED BY <2>3, <3>2 DEF Allocated, r
  <2>5. CASE b # None
    <3>1. Free(h, h.top)
      BY <1>7, <2>2, <2>5, ExpandedTop
    <3>2. Counted(h) => Counted(g)
      BY <2>2, <3>1, ExpandGood
    <3>3. r = Place(g, b, n)
      BY <1>1, <1>7, <2>1, <2>5
    <3> QED BY <1>5, <2>3, <2>5, <3>2, <3>3 DEF r
  <2> QED BY <2>4, <2>5
<1> QED BY <1>4, <1>6, <1>7

-----------------------------------------------------------------------------
(* The heap's invariant.  After heap_allocate has begun to call itself for *)
(* ever, a block in use may have been enlarged uncounted; after a division *)
(* beyond the end of a block only the types are left.                      *)

HeapInv ==
    /\ TypeOK
    /\ ~lost
    /\ Intact => Good(heap, live)
    /\ Intact /\ halted # "loop" => Counted(heap)

LEMMA GoodTypes ==
    ASSUME NEW h, NEW L, Good(h, L)
    PROVE  h \in HeapState /\ DOMAIN L \subseteq Addr /\ \A p \in DOMAIN L : L[p] \in Sizes
<1>1. Linear(h) /\ Held(h, L)
  BY DEF Good
<1>2. \A p \in DOMAIN L : p \in Addr
  BY <1>1, HeldBlock
<1> QED BY <1>1, <1>2 DEF Linear, Held

(* What a step must establish, of the values it gives to the variables.    *)
LEMMA HeapInvNext ==
    ASSUME Good(heap', live'), halted' \in {"no", "panic", "loop"},
           halted' # "loop" => Counted(heap'), lost' = FALSE
    PROVE  HeapInv'
<1>1. /\ heap' \in HeapState /\ DOMAIN live' \subseteq Addr
      /\ \A p \in DOMAIN live' : live'[p] \in Sizes
  BY GoodTypes
<1>2. TypeOK'
  BY <1>1 DEF TypeOK
<1>3. (Good(heap, live))' /\ (halted # "loop" => Counted(heap))'
  BY DEF Good, Linear, Sorted, Held, Counted, Blocks, End, Apart, Free, InUse
<1> QED BY <1>2, <1>3 DEF HeapInv

LEMMA HeldEqual ==
    ASSUME NEW h, NEW L, Good(h, L), NEW M, DOMAIN M = DOMAIN L,
           \A p \in DOMAIN L : M[p] = L[p]
    PROVE  Good(h, M)
BY DEF Good, Held

LEMMA HeapInit ==
    ASSUME StartSize = Page - Hdr, Init
    PROVE  HeapInv
<1> DEFINE h == Created
           x == [allocated |-> FALSE, before |-> None, size |-> StartSize]
<1>1. heap = h /\ live = <<>> /\ lost = FALSE /\ halted = "no"
  BY DEF Init
<1>2. /\ Hdr \in Nat /\ Hdr > 0 /\ Page \in Nat /\ Limit \in Nat /\ Word \in Nat
      /\ Limit < Word /\ StartSize \in Nat /\ StartSize + Hdr = Page /\ Page <= Limit
      /\ None \notin Addr
  BY SizeAssumption
<1>3. x \in Header
  BY <1>2 DEF Header, Size
<1> HIDE DEF x
<1>4. 0 \in Addr /\ Page \in Addr /\ Hdr \in Size
  BY <1>2 DEF Addr, Size
<1>5. /\ h.hdr = [a \in Addr |-> IF a = 0 THEN x ELSE None]
      /\ h.size = Page /\ h.used = Hdr /\ h.top = 0 /\ h.first = 0
      /\ h = [hdr |-> [a \in Addr |-> IF a = 0 THEN x ELSE None],
              size |-> Page, used |-> Hdr, top |-> 0, first |-> 0]
  BY DEF Created, x
<1>6. h \in HeapState
  BY <1>3, <1>4, <1>5 DEF HeapState
<1> HIDE DEF h
<1>7. Blocks(h) = {0} /\ h.hdr[0] = x
  BY <1>3, <1>4, <1>5, NoneAssumption DEF Blocks
<1>8. End(h, 0) = h.size /\ Free(h, 0) /\ h.hdr[0].before = None
  BY <1>2, <1>5, <1>7 DEF End, Free, x
<1>9. Linear(h)
  BY <1>2, <1>5, <1>6, <1>7, <1>8 DEF Linear
<1>10. Sorted(h)
  BY <1>2, <1>5, <1>7, <1>8 DEF Sorted, Apart
<1>11. DOMAIN live = {}
  BY <1>1
<1>12. Held(h, live)
  BY <1>7, <1>8, <1>11 DEF Held
<1>13. Counted(h)
  <2>1. UseEnd(h, 0) = Hdr
    BY <1>2, <1>8 DEF UseEnd
  <2>2. InUse(h) = {a \in Nat : 0 <= a /\ a < Hdr}
    BY <1>7, <1>9, <2>1, InUseOf
  <2>3. InUse(h) = 0 .. (Hdr - 1)
    BY <1>2, <2>2
  <2>4. Cardinality(0 .. (Hdr - 1)) = IF 0 > Hdr - 1 THEN 0 ELSE (Hdr - 1) - 0 + 1
    BY <1>2, FS_Interval
  <2> QED BY <1>2, <1>5, <2>3, <2>4 DEF Counted
<1>14. Good(h, live) /\ Counted(h)
  BY <1>9, <1>10, <1>12, <1>13 DEF Good
<1>15. TypeOK
  BY <1>1, <1>14, GoodTypes DEF TypeOK
<1> QED BY <1>1, <1>14, <1>15 DEF HeapInv

LEMMA Allocates ==
    ASSUME HeapInv, NEW n \in Sizes, Bounded(n)
    PROVE  Allocated(heap, Allocate(heap, n), n) /\ Counted(heap) /\ Good(heap, live)
<1> DEFINE g == IF FirstFit(heap, n) = None THEN Expand(heap, n) ELSE heap
<1>1. halted = "no" /\ (FirstFit(heap, n) = None => g.size <= Limit)
  BY DEF Bounded
<1>2. Good(heap, live) /\ Counted(heap)
  BY <1>1 DEF HeapInv, Intact
<1>3. g = IF FirstFit(heap, n) = None THEN Expand(heap, n) ELSE heap
  OBVIOUS
<1> HIDE DEF g
<1> QED BY <1>1, <1>2, <1>3, AllocateGood

(* What the user holds after a call that may have returned null.           *)
LEMMA HeldAfter ==
    ASSUME NEW h, NEW r, NEW n, Good(h, live), Allocated(h, r, n), r.halt = "no"
    PROVE  Good(r.heap, With(r.ptr, n)) /\ (Counted(h) => Counted(r.heap))
<1>1. CASE r.ptr = None /\ r.heap = h
  <2> DEFINE M == With(r.ptr, n)
  <2>1. None \notin DOMAIN live
    <3>1. \A p \in DOMAIN live : p \in Addr
      BY HeldBlock DEF Good
    <3> QED BY <3>1, SizeAssumption
  <2>2. DOMAIN M = DOMAIN live /\ \A p \in DOMAIN live : M[p] = live[p]
    BY <1>1, <2>1 DEF With
  <2> HIDE DEF M
  <2>3. Good(h, M)
    BY <2>2, HeldEqual
  <2> QED BY <1>1, <2>3 DEF M
<1>2. CASE ~(r.ptr = None /\ r.heap = h)
  BY <1>2 DEF Allocated
<1> QED BY <1>1, <1>2

(* A block is divided beyond its end.                                      *)
LEMMA OverrunStep ==
    ASSUME HeapInv, halted' = "overrun", heap' \in HeapState, live' = live, lost' = FALSE
    PROVE  HeapInv'
<1>1. TypeOK'
  BY DEF TypeOK, HeapInv
<1> QED BY <1>1 DEF HeapInv, Intact

LEMMA MallocStep ==
    ASSUME HeapInv, NEW n \in Sizes, Malloc(n)
    PROVE  HeapInv'
<1> DEFINE r == Allocate(heap, n)
<1>1. /\ heap' = r.heap /\ halted' = r.halt /\ lost' = lost
      /\ live' = IF r.halt = "no" THEN With(r.ptr, n) ELSE live
      /\ Bounded(n)
  BY DEF Malloc
<1>2. Allocated(heap, r, n) /\ Counted(heap) /\ Good(heap, live)
  BY <1>1, Allocates
<1>3. lost' = FALSE
  BY <1>1 DEF HeapInv, TypeOK
<1> HIDE DEF r
<1>4. CASE r.halt = "no"
  <2>1. Good(heap', live') /\ Counted(heap')
    BY <1>1, <1>2, <1>4, HeldAfter
  <2> QED BY <1>1, <1>3, <1>4, <2>1, HeapInvNext
<1>5. CASE r.halt = "overrun"
  BY <1>1, <1>2, <1>3, <1>5, OverrunStep DEF Allocated
<1>6. CASE r.halt \notin {"no", "overrun"}
  <2>1. Good(heap', live') /\ (halted' # "loop" => Counted(heap'))
    BY <1>1, <1>2, <1>6 DEF Allocated
  <2>2. halted' \in {"panic", "loop"}
    BY <1>1, <1>2, <1>6 DEF Allocated
  <2> QED BY <1>3, <2>1, <2>2, HeapInvNext
<1> QED BY <1>4, <1>5, <1>6

LEMMA FreeStep ==
    ASSUME HeapInv, NEW p \in DOMAIN live, FreePtr(p)
    PROVE  HeapInv'
<1>1. /\ heap' = Release(heap, p) /\ live' = Without(live, p)
      /\ lost' = lost /\ halted' = halted /\ halted = "no"
  BY DEF FreePtr
<1>2. Good(heap, live) /\ Counted(heap)
  BY <1>1 DEF HeapInv, Intact
<1>3. Good(heap', live') /\ Counted(heap')
  BY <1>1, <1>2, ReleaseGood
<1>4. lost' = FALSE
  BY <1>1 DEF HeapInv, TypeOK
<1> QED BY <1>1, <1>3, <1>4, HeapInvNext

LEMMA MinOfTwo ==
    ASSUME NEW a \in Int, NEW b \in Int
    PROVE  Min({a, b}) = IF a <= b THEN a ELSE b
<1> DEFINE S == {a, b}
           m == IF a <= b THEN a ELSE b
<1>1. m \in S /\ \A y \in S : m <= y
  OBVIOUS
<1>2. \A x \in S : (\A y \in S : x <= y) => x = m
  OBVIOUS
<1>3. Min(S) = CHOOSE x \in S : \A y \in S : x <= y
  BY DEF Min
<1> HIDE DEF S, m
<1>4. (CHOOSE x \in S : \A y \in S : x <= y) = m
  BY <1>1, <1>2
<1> QED BY <1>3, <1>4 DEF S, m

LEMMA ReallocStep ==
    ASSUME HeapInv, NEW p \in DOMAIN live, NEW n \in Sizes, Realloc(p, n)
    PROVE  HeapInv'
<1> DEFINE r == Allocate(heap, n)
           L == With(r.ptr, n)
<1>1. /\ halted' = r.halt /\ Bounded(n)
      /\ heap' = IF r.halt = "no" THEN Release(r.heap, p) ELSE r.heap
      /\ live' = IF r.halt = "no" THEN Without(L, p) ELSE live
      /\ lost' = (lost \/ (r.halt = "no" /\ Copied(heap, p, n) < Min({n, live[p]})))
  BY DEF Realloc
<1>2. Allocated(heap, r, n) /\ Counted(heap) /\ Good(heap, live)
  BY <1>1, Allocates
<1> HIDE DEF r
<1>3. ~(Copied(heap, p, n) < Min({n, live[p]}))
  <2> DEFINE size == heap.hdr[p - Hdr].size
  <2>1. Linear(heap) /\ Held(heap, live)
    BY <1>2 DEF Good
  <2>2. Valid(heap, p - Hdr) /\ size \in Nat
    BY <2>1, HeldBlock
  <2>3. live[p] \in Nat /\ n \in Nat /\ size >= live[p]
    <3>1. Sizes \subseteq Nat
      BY SizeAssumption DEF Addr
    <3>2. live[p] \in Sizes /\ size >= live[p]
      BY <2>1 DEF Held
    <3> QED BY <3>1, <3>2
  <2>4. Copied(heap, p, n) = Min({n, size})
    BY <2>2 DEF Copied
  <2> HIDE DEF size
  <2>5. Min({n, size}) = (IF n <= size THEN n ELSE size)
        /\ Min({n, live[p]}) = (IF n <= live[p] THEN n ELSE live[p])
    BY <2>2, <2>3, MinOfTwo
  <2> QED BY <2>2, <2>3, <2>4, <2>5
<1>4. lost' = FALSE
  BY <1>1, <1>3 DEF HeapInv, TypeOK
<1>5. CASE r.halt = "no"
  <2>1. Good(r.heap, L) /\ Counted(r.heap)
    BY <1>2, <1>5, HeldAfter
  <2>2. p \in DOMAIN L
    BY DEF With
  <2> HIDE DEF L
  <2>3. Good(heap', live') /\ Counted(heap')
    BY <1>1, <1>5, <2>1, <2>2, ReleaseGood
  <2> QED BY <1>1, <1>4, <1>5, <2>3, HeapInvNext
<1>6. CASE r.halt = "overrun"
  BY <1>1, <1>2, <1>4, <1>6, OverrunStep DEF Allocated
<1>7. CASE r.halt \notin {"no", "overrun"}
  <2>1. Good(heap', live') /\ (halted' # "loop" => Counted(heap'))
    BY <1>1, <1>2, <1>7 DEF Allocated
  <2>2. halted' \in {"panic", "loop"}
    BY <1>1, <1>2, <1>7 DEF Allocated
  <2> QED BY <1>4, <2>1, <2>2, HeapInvNext
<1> QED BY <1>5, <1>6, <1>7

-----------------------------------------------------------------------------
(* Theorems.                                                               *)

(* The heap of a process, whose first block fills the first page, is       *)
(* well-formed after any sequence of allocations, frees and reallocations, *)
(* up to one that divides a block beyond its end: heap_create establishes  *)
(* it, heap_allocate, heap_free and heap_reallocate keep it.               *)
THEOREM HeapInvariant ==
    ASSUME StartSize = Page - Hdr
    PROVE  Spec => []HeapInv
<1>1. Init => HeapInv
  BY HeapInit
<1>2. HeapInv /\ [Next]_vars => HeapInv'
  <2> SUFFICES ASSUME HeapInv, [Next]_vars PROVE HeapInv'
    OBVIOUS
  <2>1. ASSUME NEW n \in Sizes, Malloc(n)
        PROVE  HeapInv'
    BY <2>1, MallocStep
  <2>2. ASSUME NEW p \in DOMAIN live, FreePtr(p)
        PROVE  HeapInv'
    BY <2>2, FreeStep
  <2>3. ASSUME NEW p \in DOMAIN live, NEW n \in Sizes, Realloc(p, n)
        PROVE  HeapInv'
    BY <2>3, ReallocStep
  <2>4. CASE UNCHANGED vars
    BY <2>4 DEF vars, HeapInv, TypeOK, Intact, Good, Linear, Sorted, Held, Counted,
                Blocks, End, Apart, Free, InUse
  <2> QED BY <2>1, <2>2, <2>3, <2>4 DEF Next
<1> QED BY <1>1, <1>2, PTL DEF Spec

(* Headers, sizes and pointers have their types, even where a block was    *)
(* divided beyond its end.                                                 *)
THEOREM HeapTypes ==
    ASSUME StartSize = Page - Hdr
    PROVE  Spec => []TypeOK
<1>1. HeapInv => TypeOK
  BY DEF HeapInv
<1> QED BY <1>1, HeapInvariant, PTL

(* What heap_allocate returns belongs to its user alone: it is in the      *)
(* heap, and overlaps neither a header nor another allocation.             *)
THEOREM AllocationsAreDisjoint ==
    ASSUME StartSize = Page - Hdr
    PROVE  Spec => []AllocationsDisjoint
<1>1. HeapInv => AllocationsDisjoint
  <2> SUFFICES ASSUME HeapInv, Intact, NEW p \in DOMAIN live
               PROVE  /\ p + live[p] <= heap.size
                      /\ Payload(p) \intersect Blocks(heap) = {}
                      /\ \A q \in DOMAIN live \ {p} : Payload(p) \intersect Payload(q) = {}
    BY DEF AllocationsDisjoint
  <2>1. Linear(heap) /\ Held(heap, live)
    BY DEF HeapInv, Good
  <2>2. \A q \in DOMAIN live :
            /\ q - Hdr \in Blocks(heap) /\ q \in Nat /\ q - Hdr \in Nat /\ q - Hdr < q
            /\ live[q] \in Nat /\ q + live[q] <= End(heap, q - Hdr)
            /\ End(heap, q - Hdr) \in Nat /\ End(heap, q - Hdr) <= heap.size
            /\ heap.size \in Nat
    <3> SUFFICES ASSUME NEW q \in DOMAIN live
                 PROVE  /\ q - Hdr \in Blocks(heap) /\ q \in Nat /\ q - Hdr \in Nat
                        /\ q - Hdr < q
                        /\ live[q] \in Nat /\ q + live[q] <= End(heap, q - Hdr)
                        /\ End(heap, q - Hdr) \in Nat /\ End(heap, q - Hdr) <= heap.size
                        /\ heap.size \in Nat
      OBVIOUS
    <3>1. /\ q - Hdr \in Blocks(heap) /\ q \in Nat /\ heap.hdr[q - Hdr].size \in Nat
          /\ End(heap, q - Hdr) = q + heap.hdr[q - Hdr].size
      BY <2>1, HeldBlock
    <3>2. live[q] \in Nat /\ heap.hdr[q - Hdr].size >= live[q]
      <4>1. Sizes \subseteq Nat
        BY SizeAssumption DEF Addr
      <4>2. live[q] \in Sizes /\ heap.hdr[q - Hdr].size >= live[q]
        BY <2>1 DEF Held
      <4> QED BY <4>1, <4>2
    <3>3. /\ q - Hdr \in Nat /\ End(heap, q - Hdr) \in Nat
          /\ End(heap, q - Hdr) <= heap.size /\ heap.size \in Nat
      BY <2>1, <3>1, BlockTypes DEF Linear
    <3>4. Hdr \in Nat /\ Hdr > 0
      BY SizeAssumption
    <3> QED BY <3>1, <3>2, <3>3, <3>4
  <2>3. \A q \in DOMAIN live : \A a \in Payload(q) :
            a \in Nat /\ q <= a /\ q - Hdr < a /\ a < End(heap, q - Hdr)
    BY <2>2 DEF Payload
  <2>4. Payload(p) \intersect Blocks(heap) = {}
    <3> SUFFICES ASSUME NEW c \in Blocks(heap), c \in Payload(p)
                 PROVE  FALSE
      OBVIOUS
    <3>1. c \in Nat /\ p - Hdr < c /\ c < End(heap, p - Hdr)
      BY <2>3
    <3>2. End(heap, p - Hdr) <= c
      BY <2>1, <2>2, <3>1 DEF Linear
    <3> QED BY <2>2, <3>1, <3>2
  <2>5. ASSUME NEW q \in DOMAIN live \ {p}
        PROVE  Payload(p) \intersect Payload(q) = {}
    <3> SUFFICES ASSUME NEW a \in Payload(p), a \in Payload(q)
                 PROVE  FALSE
      OBVIOUS
    <3>1. /\ a \in Nat /\ p - Hdr <= a /\ a < End(heap, p - Hdr)
          /\ q - Hdr <= a /\ a < End(heap, q - Hdr)
      BY <2>2, <2>3
    <3>2. p - Hdr = q - Hdr
      BY <2>1, <2>2, <3>1, OneBlock
    <3> QED BY <2>2, <3>2, SizeAssumption
  <2>6. p + live[p] <= heap.size
    BY <2>2
  <2> QED BY <2>4, <2>5, <2>6
<1> QED BY <1>1, HeapInvariant, PTL

(* The headers lead from the start of the heap to its end and back.        *)
THEOREM BlocksTileTheHeap ==
    ASSUME StartSize = Page - Hdr
    PROVE  Spec => []BlocksTile
<1>1. HeapInv => BlocksTile
  <2> SUFFICES ASSUME HeapInv, Intact PROVE BlocksTile
    BY DEF BlocksTile
  <2>1. Linear(heap)
    BY DEF HeapInv, Good
  <2>2. \A b \in Blocks(heap) : Following(heap, b) = End(heap, b)
    BY <2>1, NextBlock
  <2> QED BY <2>1, <2>2 DEF BlocksTile, Linear
<1> QED BY <1>1, HeapInvariant, PTL

(* used_size is the bytes of the headers and of the blocks in use, until   *)
(* heap_allocate calls itself for ever; the blocks in use are the user's.  *)
THEOREM UsedSizeIsExact ==
    ASSUME StartSize = Page - Hdr
    PROVE  Spec => []UsedIsExact
<1>1. HeapInv => UsedIsExact
  BY DEF HeapInv, Good, Held, Counted, UsedIsExact
<1> QED BY <1>1, HeapInvariant, PTL

(* The search from first_free sees every free block, and no two of them    *)
(* are neighbours: heap_free has merged them.                              *)
THEOREM FreeBlocksAreFound ==
    ASSUME StartSize = Page - Hdr
    PROVE  Spec => []FreeBlocksFound
<1>1. HeapInv => FreeBlocksFound
  <2> SUFFICES ASSUME HeapInv, Intact PROVE FreeBlocksFound
    BY DEF FreeBlocksFound
  <2>1. Linear(heap) /\ Sorted(heap)
    BY DEF HeapInv, Good
  <2>2. \A b \in Blocks(heap) : Following(heap, b) = End(heap, b)
    BY <2>1, NextBlock
  <2> QED BY <2>1, <2>2 DEF FreeBlocksFound, Sorted, Apart
<1> QED BY <1>1, HeapInvariant, PTL

(* heap_reallocate copies all the user wrote, up to the smaller size.      *)
THEOREM ContentsAreKept ==
    ASSUME StartSize = Page - Hdr
    PROVE  Spec => []ContentsKept
<1>1. HeapInv => ContentsKept
  BY DEF HeapInv, ContentsKept
<1> QED BY <1>1, HeapInvariant, PTL
=============================================================================
