---------------------------- MODULE PagingProofs ----------------------------
(***************************************************************************)
(* Theorems about Paging.tla, for every value of its constants: the types, *)
(* that first_free never passes a free frame, and, under two hypotheses on *)
(* how processes are created, that no frame has two uses, that the kernel  *)
(* is mapped, in the current space too, and that no frame is lost.         *)
(***************************************************************************)
EXTENDS Paging, TLAPS, FiniteSetTheorems, SequenceTheorems, WellFoundedInduction

-----------------------------------------------------------------------------
(* Arithmetic.                                                             *)

LEMMA Divide ==
    ASSUME NEW f \in Nat, NEW n \in Nat \ {0}
    PROVE  /\ f \div n \in Nat /\ f % n \in 0..(n - 1)
           /\ f = ((f \div n) * n) + (f % n)
  OBVIOUS

LEMMA Quotient ==
    ASSUME NEW n \in Nat \ {0}, NEW q \in Nat, NEW r \in 0..(n - 1)
    PROVE  (q * n + r) \div n = q
  OBVIOUS

LEMMA Positive ==
    ASSUME NEW a \in Nat \ {0}, NEW b \in Nat \ {0}
    PROVE  a * b >= 1
  OBVIOUS

(* A frame lies below byte b exactly when its own byte does.               *)
LEMMA Below ==
    ASSUME NEW f \in Nat, NEW n \in Nat \ {0}, NEW b \in Nat
    PROVE  f < b * n <=> f \div n < b
<1>1. f \div n \in Nat /\ f % n \in 0..(n - 1) /\ f = ((f \div n) * n) + (f % n)
  BY Divide
<1>2. ASSUME f \div n < b PROVE f < b * n
  <2>1. (f \div n + 1) * n <= b * n BY <1>1, <1>2
  <2> QED BY <1>1, <2>1
<1>3. ASSUME ~(f \div n < b) PROVE ~(f < b * n)
  <2>1. (f \div n) * n >= b * n BY <1>1, <1>3
  <2> QED BY <1>1, <2>1
<1> QED BY <1>2, <1>3

LEMMA MinExists ==
    ASSUME NEW S \in SUBSET Nat, S # {}
    PROVE  Min(S) \in S /\ \A y \in S : Min(S) <= y
<1> DEFINE Upto(i) == 1..i
           T == {Upto(i) : i \in S}
           R == StrictSubsetOrdering(Nat)
<1>1. \A i \in S : Upto(i) \subseteq Nat /\ IsFiniteSet(Upto(i))
  BY FS_Interval
<1>2. T \subseteq FiniteSubsetsOf(Nat) /\ T # {}
  BY <1>1 DEF FiniteSubsetsOf
<1>3. PICK x \in T : \A y \in T : ~(<<y, x>> \in R)
  <2> HIDE DEF T, R
  <2>1. IsWellFoundedOn(R, FiniteSubsetsOf(Nat))
    BY FS_StrictSubsetOrderingWellFounded DEF R
  <2> QED BY <2>1, <1>2, WFMin
<1>4. PICK i \in S : x = Upto(i)
  OBVIOUS
<1>5. \A j \in S : i <= j
  <2> SUFFICES ASSUME NEW j \in S, j < i PROVE FALSE
    OBVIOUS
  <2>1. Upto(j) \subseteq Upto(i) /\ Upto(j) # Upto(i)
    OBVIOUS
  <2>2. <<Upto(j), Upto(i)>> \in R
    BY <2>1, <1>1 DEF StrictSubsetOrdering
  <2> QED BY <2>2, <1>3, <1>4
<1> QED BY <1>5 DEF Min

-----------------------------------------------------------------------------
(* The bitmap.                                                             *)

(* first_free, as paging_allocate_new_page and paging_free_page keep it.   *)
Lowest(u, b) ==
    /\ b \in 0..(IndexMod - 1)
    /\ \A f \in 0..(b * Bits - 1) : f \in u
    /\ HasFree(u, b)

Full(u, b) == \A f \in 0..(b * Bits - 1) : f \in u

(* A frame whose bit is clear makes its byte one with a free bit.          *)
LEMMA ClearBit ==
    ASSUME NEW u, NEW f \in Nat, f \notin u
    PROVE  HasFree(u, f \div Bits)
<1> USE BitmapAssumption
<1>1. f \div Bits \in Nat /\ f % Bits \in 0..(Bits - 1)
      /\ f = ((f \div Bits) * Bits) + (f % Bits)
  BY Divide
<1>2. f % Bits \in FreeBits(u, f \div Bits)
  BY <1>1 DEF FreeBits
<1> QED BY <1>2 DEF HasFree

(* The byte first_free stands on is the one a frame is taken from.         *)
LEMMA StandsOnFree ==
    ASSUME NEW u, NEW b, Lowest(u, b)
    PROVE  NextByte(u, b) = b
<1> USE BitmapAssumption
<1>1. b \in Ahead(u, b) /\ Ahead(u, b) \subseteq Nat /\ \A c \in Ahead(u, b) : b <= c
  BY DEF Lowest, Ahead
<1>2. Min(Ahead(u, b)) \in Ahead(u, b) /\ Min(Ahead(u, b)) <= b
  BY <1>1, MinExists
<1>3. Min(Ahead(u, b)) = b
  <2>1. b <= Min(Ahead(u, b)) /\ Min(Ahead(u, b)) \in Nat
    BY <1>1, <1>2
  <2> QED BY <2>1, <1>2 DEF Lowest
<1> QED BY <1>1, <1>3 DEF NextByte

LEMMA NewFrameIsFree ==
    ASSUME NEW u, NEW b, Lowest(u, b)
    PROVE  /\ NewFrame(u, b) \in Frames /\ NewFrame(u, b) \in Nat
           /\ NewFrame(u, b) \notin u
<1> USE BitmapAssumption
<1> DEFINE i == Min(FreeBits(u, b))
<1>1. FreeBits(u, b) \in SUBSET Nat /\ FreeBits(u, b) # {}
  BY DEF FreeBits, Lowest, HasFree
<1>2. i \in FreeBits(u, b)
  BY <1>1, MinExists
<1> HIDE DEF i
<1>3. i \in 0..(Bits - 1) /\ b * Bits + i \notin u
  BY <1>2 DEF FreeBits
<1>4. NewFrame(u, b) = b * Bits + i
  BY StandsOnFree DEF NewFrame, i
<1>5. b \in Nat /\ b + 1 <= Bytes
  BY DEF Lowest
<1>6. (b + 1) * Bits <= Bits * Bytes /\ b * Bits \in Nat
  BY <1>5
<1> QED BY <1>3, <1>4, <1>5, <1>6 DEF Frames

(* What follows an allocation: first_free moves only past taken frames.    *)
LEMMA AllocateKeepsLowest ==
    ASSUME NEW u, NEW b, Lowest(u, b), Allocate(u, b), halted = "no"
    PROVE  /\ used' = u \union {NewFrame(u, b)}
           /\ first' \in 0..(IndexMod - 1)
           /\ Full(used', first')
           /\ halted' # "hang" => Lowest(used', first') /\ halted' = "no"
           /\ halted' \in {"no", "hang"}
<1> USE BitmapAssumption
<1> DEFINE v == u \union {NewFrame(u, b)}
<1>1. used' = v
  BY DEF Allocate
<1>2. \A f \in 0..(b * Bits - 1) : f \in v
  BY DEF Lowest
<1>3. CASE Endless(v)
  BY <1>1, <1>2, <1>3 DEF Allocate, Full, Lowest
<1>4. CASE ~Endless(v)
  <2> DEFINE c == NextByte(v, b)
  <2>1. first' = c /\ halted' = "no"
    <3>1. NextByte(u, b) = b
      BY StandsOnFree
    <3>2. first' = NextByte(v, NextByte(u, b)) /\ halted' = halted
      BY <1>4 DEF Allocate
    <3> QED BY <3>1, <3>2
  <2>2. \A k \in Behind(v) : k \in Ahead(v, b)
    <3> SUFFICES ASSUME NEW k \in Behind(v) PROVE k \in Ahead(v, b)
      OBVIOUS
    <3>1. k \in 0..(IndexMod - 1) /\ HasFree(v, k)
      BY DEF Behind
    <3>2. PICK i \in 0..(Bits - 1) : k * Bits + i \notin v
      BY <3>1 DEF HasFree, FreeBits
    <3>3. b \in Nat /\ k \in Nat /\ k * Bits \in Nat /\ k * Bits + i \in Nat
      BY <3>1 DEF Lowest
    <3>4. ~(k * Bits + i < b * Bits)
      BY <3>2, <3>3, <1>2
    <3>5. (k * Bits + i) \div Bits = k
      BY <3>3, Quotient
    <3>6. k >= b
      BY <3>3, <3>4, <3>5, Below
    <3> QED BY <3>1, <3>3, <3>6 DEF Ahead
  <2> HIDE DEF v
  <2>3. Ahead(v, b) # {} /\ Ahead(v, b) \in SUBSET Nat
    BY <1>4, <2>2 DEF Endless, Ahead, Lowest
  <2>4. c \in Ahead(v, b) /\ \A k \in Ahead(v, b) : c <= k
    <3>1. c = Min(Ahead(v, b))
      BY <2>3 DEF NextByte
    <3> QED BY <2>3, <3>1, MinExists
  <2> HIDE DEF c
  <2>5. c \in 0..(IndexMod - 1) /\ HasFree(v, c) /\ c >= b
    BY <2>4 DEF Ahead, Lowest
  <2>6. \A f \in 0..(c * Bits - 1) : f \in v
    <3> SUFFICES ASSUME NEW f \in 0..(c * Bits - 1), f \notin v PROVE FALSE
      OBVIOUS
    <3>1. f \in Nat /\ c \in Nat /\ f < c * Bits /\ c * Bits \in Nat
      BY <2>5
    <3>2. f \div Bits < c /\ f \div Bits \in Nat
      BY <3>1, Below, Divide
    <3>3. HasFree(v, f \div Bits)
      BY <3>1, ClearBit
    <3>4. f \div Bits \in Behind(v)
      BY <2>5, <3>2, <3>3 DEF Behind
    <3>5. c <= f \div Bits
      BY <2>2, <2>4, <3>4
    <3> QED BY <3>1, <3>2, <3>5
  <2>7. used' = v
    BY <1>1 DEF v
  <2>8. Full(used', first') /\ Lowest(used', first') /\ first' \in 0..(IndexMod - 1)
    BY <2>1, <2>5, <2>6, <2>7 DEF Full, Lowest
  <2> QED BY <1>1, <2>1, <2>8 DEF v
<1> QED BY <1>3, <1>4

(* Giving frames back moves first_free down to the lowest of them.         *)
LEMMA ReleaseKeepsLowest ==
    ASSUME NEW u, NEW b, Lowest(u, b), NEW F \in SUBSET Frames
    PROVE  Lowest(u \ F, LowerFirst(b, F))
<1> USE BitmapAssumption
<1> DEFINE B == {b} \union {f \div Bits : f \in F}
           c == LowerFirst(b, F)
           v == u \ F
<1>0. \A f \in F : f \in Nat /\ f \div Bits \in Nat
  <2> SUFFICES ASSUME NEW f \in F PROVE f \in Nat /\ f \div Bits \in Nat
    OBVIOUS
  <2>1. f \in Nat
    BY DEF Frames
  <2> QED BY <2>1, Divide
<1>1. B \in SUBSET Nat /\ b \in B
  BY <1>0 DEF Lowest
<1>2. c \in B /\ \A k \in B : c <= k
  <2>1. c = Min(B)
    BY DEF LowerFirst
  <2> HIDE DEF B, c
  <2> QED BY <1>1, <2>1, MinExists
<1> HIDE DEF c
<1>3. c \in 0..(IndexMod - 1) /\ c <= b /\ b \in Nat
  BY <1>1, <1>2 DEF Lowest
<1>4. \A f \in 0..(c * Bits - 1) : f \in v
  <2> SUFFICES ASSUME NEW f \in 0..(c * Bits - 1) PROVE f \in u /\ f \notin F
    OBVIOUS
  <2>1. f \in Nat /\ c \in Nat /\ f < c * Bits
    BY <1>3
  <2>2. f \div Bits < c /\ f \div Bits \in Nat
    BY <2>1, Below, Divide
  <2>3. f < b * Bits /\ b * Bits \in Nat
    BY <1>3, <2>1, <2>2, Below
  <2>4. f \in u
    BY <2>1, <2>3 DEF Lowest
  <2>5. f \notin F
    <3> SUFFICES ASSUME f \in F PROVE FALSE
      OBVIOUS
    <3>1. c <= f \div Bits
      BY <1>2
    <3> QED BY <3>1, <2>1, <2>2
  <2> QED BY <2>4, <2>5
<1>5. HasFree(v, c)
  <2>1. CASE c = b
    BY <2>1 DEF HasFree, FreeBits, Lowest
  <2>2. CASE c # b
    <3>1. PICK f \in F : c = f \div Bits
      BY <1>2, <2>2
    <3> QED BY <3>1, <1>0, ClearBit
  <2> QED BY <2>1, <2>2
<1> QED BY <1>3, <1>4, <1>5 DEF Lowest, c

-----------------------------------------------------------------------------
(* Address spaces.                                                         *)

MemoryOK == mem \in [Frames -> [Index -> Entry \union {Absent}]]
DirOK ==
    /\ dir \in [Owners -> Frames \union {Nobody}]
    /\ cr3 \in Live \union {Nobody}
    /\ paging \in BOOLEAN /\ (paging => cr3 \in Live)

(* Every page has its entry in the directory and in the table.             *)
LEMMA IndexOK ==
    ASSUME NEW p \in Pages
    PROVE  DirIndex(p) \in Index /\ TableIndex(p) \in Index
<1> USE LayoutAssumption
<1>1. p \in Nat /\ p < Entries * Entries
  BY DEF Pages
<1>2. p \div Entries \in Nat /\ p % Entries \in 0..(Entries - 1)
  BY <1>1, Divide
<1>3. p \div Entries < Entries
  BY <1>1, Below
<1> QED BY <1>2, <1>3 DEF DirIndex, TableIndex, Index

LEMMA FramesArePages == Frames = Pages
  BY LayoutAssumption DEF Frames, Pages

LEMMA ReachedOK ==
    ASSUME MemoryOK, DirOK, NEW p \in Pages
    PROVE  Reached(p) \subseteq Frames
<1>1. CASE ~paging
  BY <1>1, FramesArePages DEF Reached
<1>2. CASE paging
  <2>1. dir[cr3] \in Frames
    BY <1>2 DEF DirOK, Live
  <2>2. mem[dir[cr3]][DirIndex(p)] \in Entry \union {Absent}
    BY <2>1, IndexOK DEF MemoryOK
  <2>3. ASSUME NEW e \in Entry \union {Absent}, e # Absent
        PROVE  e.frame \in Frames
    BY <2>3 DEF Entry
  <2>4. Translate(dir[cr3], p) \in Entry \union {Absent}
    <3>1. CASE mem[dir[cr3]][DirIndex(p)] = Absent
      BY <3>1 DEF Translate
    <3>2. CASE mem[dir[cr3]][DirIndex(p)] # Absent
      <4>1. mem[dir[cr3]][DirIndex(p)].frame \in Frames
        BY <2>2, <2>3, <3>2
      <4> QED BY <4>1, <3>2, IndexOK DEF Translate, MemoryOK
    <3> QED BY <3>1, <3>2
  <2> QED BY <1>2, <2>3, <2>4 DEF Reached
<1> QED BY <1>1, <1>2

LEMMA OwnedOK ==
    ASSUME MemoryOK, NEW d \in Frames
    PROVE  Owned(d) \subseteq Frames
<1>1. \A f \in Frames : Tables(f) \subseteq Frames /\ Leaves(f) \subseteq Frames
  <2> SUFFICES ASSUME NEW f \in Frames, NEW i \in Index, mem[f][i] # Absent
               PROVE  mem[f][i].frame \in Frames
    BY DEF Tables, Leaves
  <2>1. mem[f][i] \in Entry
    BY DEF MemoryOK
  <2> QED BY <2>1 DEF Entry
<1> QED BY <1>1 DEF Owned

LEMMA NonEmpty ==
    ASSUME NEW s, Len(s) > 0
    PROVE  s # <<>>
<1> SUFFICES ASSUME s = <<>> PROVE FALSE
  OBVIOUS
<1>1. Len(<<>>) = 0
  OBVIOUS
<1> QED BY <1>1

LEMMA FunctionIsSeq ==
    ASSUME NEW S, NEW n \in Nat, NEW t \in [1..n -> S]
    PROVE  t \in Seq(S) /\ Len(t) = n
<1>1. t \in Seq(S)
  BY SeqDef
<1>2. Len(t) \in Nat /\ DOMAIN t = 1..Len(t) /\ DOMAIN t = 1..n
  BY <1>1, LenProperties
<1> QED BY <1>1, <1>2

LEMMA MappingsOK ==
    /\ \A p : ProcessMappings(p) \in Seq(Request) /\ ProcessMappings(p) # <<>>
    /\ Fresh(<<HeapTop>>) \in Seq(Request) /\ Fresh(<<HeapTop>>) # <<>>
<1> USE LayoutAssumption
<1>1. ASSUME NEW s \in Seq(Pages), NEW u \in BOOLEAN
      PROVE  /\ Identity(u, s) \in Seq(Request) /\ Fresh(s) \in Seq(Request)
             /\ Len(Identity(u, s)) = Len(s) /\ Len(Fresh(s)) = Len(s)
  <2>1. Len(s) \in Nat /\ \A i \in 1..Len(s) : s[i] \in Pages
    OBVIOUS
  <2>2. \A i \in 1..Len(s) :
           /\ [page |-> s[i], identity |-> TRUE, user |-> u] \in Request
           /\ [page |-> s[i], identity |-> FALSE, user |-> TRUE] \in Request
    BY <2>1 DEF Request
  <2>3. /\ Identity(u, s) \in [1..Len(s) -> Request]
        /\ Fresh(s) \in [1..Len(s) -> Request]
    BY <2>2 DEF Identity, Fresh
  <2> QED BY <2>1, <2>3, FunctionIsSeq
<1>2. /\ Identity(FALSE, Image) \in Seq(Request)
      /\ Identity(TRUE, KernelHeap) \in Seq(Request)
      /\ Identity(TRUE, Vga) \in Seq(Request)
      /\ Len(Identity(FALSE, Image)) > 0
  <2>1. Len(Image) > 0
    BY EmptySeq
  <2> QED BY <1>1, <2>1
<1>3. KernelMappings \in Seq(Request) /\ Len(KernelMappings) > 0
  <2> DEFINE a == Identity(FALSE, Image)
             b == Identity(TRUE, KernelHeap)
             c == Identity(TRUE, Vga)
  <2>1. a \in Seq(Request) /\ b \in Seq(Request) /\ c \in Seq(Request) /\ Len(a) > 0
    BY <1>2
  <2>2. KernelMappings = (a \o b) \o c
    BY DEF KernelMappings
  <2> HIDE DEF a, b, c
  <2>3. a \o b \in Seq(Request) /\ Len(a \o b) > 0
    BY <2>1, ConcatProperties, LenProperties
  <2> QED BY <2>1, <2>2, <2>3, ConcatProperties, LenProperties
<1>4. <<HeapPage>> \in Seq(Pages) /\ <<HeapTop>> \in Seq(Pages) /\ Len(<<HeapTop>>) = 1
  OBVIOUS
<1>5. /\ Fresh(StackPages) \in Seq(Request)
      /\ Fresh(<<HeapPage>>) \in Seq(Request)
      /\ Fresh(<<HeapTop>>) \in Seq(Request) /\ Len(Fresh(<<HeapTop>>)) = 1
  BY <1>1, <1>4
<1>6. ASSUME NEW p
      PROVE  ProcessMappings(p) \in Seq(Request) /\ Len(ProcessMappings(p)) > 0
  <2> DEFINE rest == IF p = Alive THEN <<>> ELSE Fresh(StackPages) \o Fresh(<<HeapPage>>)
  <2>1. rest \in Seq(Request)
    BY <1>5, ConcatProperties
  <2>2. ProcessMappings(p) = KernelMappings \o rest
    BY DEF ProcessMappings
  <2> HIDE DEF rest
  <2>3. Len(KernelMappings \o rest) = Len(KernelMappings) + Len(rest)
        /\ KernelMappings \o rest \in Seq(Request)
    BY <1>3, <2>1, ConcatProperties
  <2>4. Len(KernelMappings) \in Nat /\ Len(rest) \in Nat
    BY <1>3, <2>1, LenProperties
  <2>5. Len(KernelMappings \o rest) > 0
    BY <1>3, <2>3, <2>4
  <2> QED BY <2>2, <2>3, <2>5
<1>7. 1 > 0
  OBVIOUS
<1> QED BY <1>5, <1>6, <1>7, NonEmpty

-----------------------------------------------------------------------------
(* The invariant.  The search is right as long as the allocator answers;   *)
(* once it loops, the frames below first_free are still all taken.  That   *)
(* paging_free_directory frees frames, and not stray addresses, needs the  *)
(* types of everything the MMU reads.                                      *)
SearchOK ==
    /\ first \in 0..(IndexMod - 1) /\ Full(used, first)
    /\ halted # "hang" => Lowest(used, first)

JobOK ==
    /\ job \in Job \union {Nobody}
    /\ job # Nobody => /\ dir[job.owner] # Nobody
                       /\ job.todo # <<>>
                       /\ job.was => cr3 \in Live

RestOK ==
    /\ used \subseteq Frames
    /\ halted \in {"no", "hang", "fault"}

PagingInv == MemoryOK /\ DirOK /\ JobOK /\ SearchOK /\ RestOK

LEMMA InvImplies == PagingInv => TypeOK /\ FirstIsLowest
<1> SUFFICES ASSUME PagingInv PROVE TypeOK /\ FirstIsLowest
  OBVIOUS
<1>1. TypeOK
  BY DEF TypeOK, PagingInv, MemoryOK, DirOK, JobOK, SearchOK, RestOK, Live
<1>2. FirstIsLowest
  BY DEF FirstIsLowest, PagingInv, SearchOK, Full, Lowest
<1> QED BY <1>1, <1>2

LEMMA InitOK == Init => PagingInv
<1> SUFFICES ASSUME Init PROVE PagingInv
  OBVIOUS
<1> USE BitmapAssumption, LayoutAssumption DEF Init
<1>1. MemoryOK
  BY DEF MemoryOK
<1>2. DirOK /\ JobOK
  BY DEF DirOK, JobOK
<1>3. used \subseteq Frames
  <2>1. 0 \in Frames
    <3>1. Bits * Bytes >= 1
      BY Positive
    <3> QED BY <3>1 DEF Frames
  <2>2. Image \o KernelHeap \in Seq(Pages)
    BY ConcatProperties
  <2>3. IdentityPages \in Seq(Pages)
    BY <2>2, ConcatProperties DEF IdentityPages
  <2>4. Range(IdentityPages) \subseteq Pages
    BY <2>3, LenProperties DEF Range
  <2> QED BY <2>1, <2>4, FramesArePages DEF Reserved
<1>4. Lowest(used, first)
  <2>1. HasFree(Reserved, 0)
    <3>1. PICK f \in 0..(Bits - 1) : f \notin Reserved
      BY FirstByteAssumption
    <3>2. 0 * Bits + f = f
      OBVIOUS
    <3> QED BY <3>1, <3>2 DEF HasFree, FreeBits
  <2>2. 0 \in 0..(IndexMod - 1) /\ 0 * Bits - 1 = -1
    OBVIOUS
  <2> QED BY <2>1, <2>2 DEF Lowest
<1>5. SearchOK
  BY <1>4 DEF SearchOK, Lowest, Full
<1>6. RestOK
  BY <1>3 DEF RestOK
<1> QED BY <1>1, <1>2, <1>5, <1>6 DEF PagingInv

-----------------------------------------------------------------------------
(* The steps.                                                              *)

LEMMA AllocateOK ==
    ASSUME NEW u, NEW b, Lowest(u, b), u \subseteq Frames, halted = "no", Allocate(u, b)
    PROVE  /\ SearchOK' /\ used' \subseteq Frames /\ halted' \in {"no", "hang"}
           /\ NewFrame(u, b) \in Frames
<1>1. NewFrame(u, b) \in Frames
  BY NewFrameIsFree
<1>2. /\ used' = u \union {NewFrame(u, b)}
      /\ first' \in 0..(IndexMod - 1)
      /\ Full(used', first')
      /\ halted' # "hang" => Lowest(used', first')
      /\ halted' \in {"no", "hang"}
  BY AllocateKeepsLowest
<1>3. SearchOK'
  BY <1>2 DEF SearchOK
<1> QED BY <1>1, <1>2, <1>3

LEMMA CreateOK ==
    ASSUME PagingInv, NEW p \in Owners, Create(p)
    PROVE  PagingInv'
<1> USE DEF PagingInv
<1>1. halted = "no" /\ Lowest(used, first) /\ used \subseteq Frames /\ Allocate(used, first)
  BY DEF Create, Idle, SearchOK, RestOK
<1>2. /\ SearchOK' /\ used' \subseteq Frames /\ halted' \in {"no", "hang"}
      /\ NewFrame(used, first) \in Frames
  BY <1>1, AllocateOK
<1>3. RestOK'
  BY <1>2 DEF RestOK, Create
<1>4. CASE halted' = "hang"
  <2>1. UNCHANGED <<mem, paging, dir, job, cr3>>
    BY <1>4 DEF Create
  <2> QED BY <1>2, <1>3, <2>1 DEF MemoryOK, DirOK, JobOK, Live
<1>5. CASE halted' # "hang"
  <2> DEFINE d == NewFrame(used, first)
  <2>1. /\ mem' = [mem EXCEPT ![d] = Empty]
        /\ dir' = [dir EXCEPT ![p] = d]
        /\ job' = [owner |-> p, todo |-> ProcessMappings(p), was |-> paging]
        /\ paging' = FALSE /\ cr3' = cr3 /\ dir[p] = Nobody
    BY <1>5 DEF Create
  <2>2. d \in Frames
    BY <1>2
  <2>3. ASSUME d = Nobody PROVE FALSE
    <3>1. d = Nobody /\ Nobody \in Frames
      BY <2>2, <2>3
    <3> QED BY <3>1, NobodyAssumption
  <2> HIDE DEF d
  <2>4. MemoryOK'
    BY <2>1 DEF MemoryOK, Empty
  <2>5. Live \subseteq Live'
    BY <2>1, <2>3 DEF Live, DirOK
  <2>6. DirOK'
    BY <2>1, <2>2, <2>5 DEF DirOK
  <2>7. JobOK'
    <3>1. dir'[p] # Nobody
      BY <2>1, <2>3 DEF DirOK
    <3>2. paging \in BOOLEAN /\ (paging => cr3' \in Live')
      BY <2>1, <2>5 DEF DirOK
    <3>3. job' \in Job
      BY <2>1, <3>2, MappingsOK DEF Job
    <3> QED BY <2>1, <3>1, <3>2, <3>3, MappingsOK DEF JobOK
  <2> QED BY <1>2, <1>3, <2>4, <2>6, <2>7
<1> QED BY <1>4, <1>5

(* What a step of the address space being built can rely on.               *)
LEMMA BusyOK ==
    ASSUME PagingInv, Busy
    PROVE  /\ halted = "no" /\ Lowest(used, first) /\ used \subseteq Frames
           /\ job \in Job /\ job.owner \in Owners /\ Directory \in Frames
           /\ Pending \in Request /\ Tail(job.todo) \in Seq(Request)
           /\ Reached(Directory) \subseteq Frames
<1>1. halted = "no" /\ Lowest(used, first) /\ used \subseteq Frames
  BY DEF Busy, PagingInv, SearchOK, RestOK
<1>2. job \in Job /\ dir[job.owner] # Nobody /\ job.todo # <<>>
  BY DEF Busy, PagingInv, JobOK
<1>3. job.owner \in Owners /\ job.todo \in Seq(Request)
  BY <1>2 DEF Job
<1>4. Directory \in Frames
  BY <1>2, <1>3 DEF Directory, PagingInv, DirOK
<1>5. Pending \in Request /\ Tail(job.todo) \in Seq(Request)
  BY <1>2, <1>3, HeadTailProperties DEF Pending
<1>6. Reached(Directory) \subseteq Frames
  BY <1>4, ReachedOK, FramesArePages DEF PagingInv
<1> QED BY <1>1, <1>2, <1>3, <1>4, <1>5, <1>6

LEMMA AddTableOK ==
    ASSUME PagingInv, AddTable
    PROVE  PagingInv'
<1> USE DEF PagingInv
<1>1. /\ halted = "no" /\ Lowest(used, first) /\ used \subseteq Frames
      /\ Allocate(used, first) /\ UNCHANGED <<paging, cr3, dir, job>>
  BY BusyOK DEF AddTable
<1>2. /\ SearchOK' /\ used' \subseteq Frames /\ halted' \in {"no", "hang"}
      /\ NewFrame(used, first) \in Frames
  BY <1>1, AllocateOK
<1>3. TableEntry(NewFrame(used, first)) \in Entry
  BY <1>2 DEF TableEntry, Entry
<1>4. MemoryOK'
  <2>1. CASE halted' = "hang"
    <3>1. UNCHANGED mem
      BY <2>1 DEF AddTable
    <3> QED BY <3>1 DEF MemoryOK
  <2>2. CASE halted' # "hang"
    <3>1. PICK d, cleared, i :
            mem' = [mem EXCEPT ![cleared] = Empty, ![d][i] = TableEntry(NewFrame(used, first))]
      BY <2>2 DEF AddTable
    <3>2. [mem EXCEPT ![cleared] = Empty] \in [Frames -> [Index -> Entry \union {Absent}]]
      BY DEF MemoryOK, Empty
    <3> QED BY <3>1, <3>2, <1>3 DEF MemoryOK
  <2> QED BY <2>1, <2>2
<1>5. DirOK' /\ JobOK' /\ RestOK'
  BY <1>1, <1>2 DEF DirOK, JobOK, RestOK, Live
<1> QED BY <1>2, <1>4, <1>5

(* What the last line of a mapping call leaves behind.                     *)
LEMMA FinishOK ==
    ASSUME PagingInv, Busy, Finish(Tail(job.todo)), UNCHANGED <<cr3, dir>>
    PROVE  DirOK' /\ JobOK'
<1> USE DEF PagingInv
<1> DEFINE todo == Tail(job.todo)
<1>1. /\ job \in Job /\ job.owner \in Owners /\ Pending \in Request
      /\ todo \in Seq(Request)
  BY BusyOK
<1>2. /\ dir[job.owner] # Nobody /\ (job.was => cr3 \in Live) /\ job.was \in BOOLEAN
      /\ Live' = Live
  BY <1>1 DEF Busy, JobOK, Job, Live
<1>3. paging' \in {paging, job.was}
  BY DEF Finish
<1>4. DirOK'
  BY <1>2, <1>3 DEF DirOK
<1> HIDE DEF todo
<1>5. JobOK'
  <2>1. CASE todo = <<>>
    <3>1. job' = Nobody
      BY <2>1 DEF Finish, todo
    <3> QED BY <3>1 DEF JobOK
  <2>2. CASE todo # <<>>
    <3>1. job' = [job EXCEPT !.todo = todo]
      BY <2>2 DEF Finish, todo
    <3>2. /\ job' \in Job /\ job'.owner = job.owner /\ job'.todo = todo
          /\ job'.was = job.was
      BY <1>1, <3>1 DEF Job
    <3> QED BY <1>2, <2>2, <3>2 DEF JobOK
  <2> QED BY <2>1, <2>2
<1> QED BY <1>4, <1>5

LEMMA MapPageOK ==
    ASSUME PagingInv, MapPage
    PROVE  PagingInv'
<1> USE DEF PagingInv
<1> DEFINE page == Pending.page
           at == TableIndex(page)
           Old(t) == IF mem[t][at] = Absent THEN {} ELSE {mem[t][at].frame}
<1>1. Busy
  BY DEF MapPage
<1>2. /\ halted = "no" /\ Lowest(used, first) /\ used \subseteq Frames
      /\ Pending \in Request /\ Reached(Directory) \subseteq Frames
  BY <1>1, BusyOK
<1>3. page \in Pages /\ DirIndex(page) \in Index /\ at \in Index
  BY <1>2, IndexOK DEF Request
<1>4. PICK d \in Reached(Directory) :
        /\ mem[d][DirIndex(page)] # Absent
        /\ \E t \in Reached(mem[d][DirIndex(page)].frame) :
            IF Pending.identity
            THEN /\ used' = used \ Old(t) /\ first' = LowerFirst(first, Old(t))
                 /\ halted' = halted
                 /\ mem' = [mem EXCEPT ![t][at] =
                        [frame |-> page, user |-> Pending.user, write |-> FALSE]]
            ELSE /\ Allocate(used \ Old(t), LowerFirst(first, Old(t)))
                 /\ mem' = [mem EXCEPT ![t][at] =
                        TableEntry(NewFrame(used \ Old(t), LowerFirst(first, Old(t))))]
  BY DEF MapPage
<1>5. mem[d][DirIndex(page)].frame \in Pages
  <2>1. mem[d][DirIndex(page)] \in Entry
    BY <1>2, <1>3, <1>4 DEF MemoryOK
  <2> QED BY <2>1, FramesArePages DEF Entry
<1>6. PICK t \in Frames :
        IF Pending.identity
        THEN /\ used' = used \ Old(t) /\ first' = LowerFirst(first, Old(t))
             /\ halted' = halted
             /\ mem' = [mem EXCEPT ![t][at] =
                    [frame |-> page, user |-> Pending.user, write |-> FALSE]]
        ELSE /\ Allocate(used \ Old(t), LowerFirst(first, Old(t)))
             /\ mem' = [mem EXCEPT ![t][at] =
                    TableEntry(NewFrame(used \ Old(t), LowerFirst(first, Old(t))))]
  BY <1>4, <1>5, ReachedOK
<1>7. Old(t) \in SUBSET Frames
  <2>1. mem[t][at] \in Entry \union {Absent}
    BY <1>3, <1>6 DEF MemoryOK
  <2> QED BY <2>1 DEF Entry
<1> DEFINE u == used \ Old(t)
           b == LowerFirst(first, Old(t))
<1> HIDE DEF Old
<1>8. Lowest(u, b) /\ u \subseteq Frames
  BY <1>2, <1>7, ReleaseKeepsLowest
<1>9. /\ SearchOK' /\ MemoryOK' /\ used' \subseteq Frames
      /\ halted' \in {"no", "hang"}
  <2> HIDE DEF page, at
  <2>1. CASE Pending.identity
    <3>1. used' = u /\ first' = b /\ halted' = "no"
      BY <1>2, <1>6, <2>1
    <3> DEFINE entry == [frame |-> page, user |-> Pending.user, write |-> FALSE]
    <3>2. entry \in Entry /\ mem' = [mem EXCEPT ![t][at] = entry]
      BY <1>2, <1>3, <1>6, <2>1, FramesArePages DEF Entry, Request
    <3> HIDE DEF entry
    <3>3. MemoryOK'
      BY <3>2 DEF MemoryOK
    <3>4. SearchOK'
      BY <1>8, <3>1 DEF SearchOK, Lowest, Full
    <3> QED BY <1>8, <3>1, <3>3, <3>4
  <2>2. CASE ~Pending.identity
    <3>1. /\ Allocate(u, b)
          /\ mem' = [mem EXCEPT ![t][at] = TableEntry(NewFrame(u, b))]
      BY <1>6, <2>2
    <3>2. /\ SearchOK' /\ used' \subseteq Frames /\ halted' \in {"no", "hang"}
          /\ NewFrame(u, b) \in Frames
      <4> HIDE DEF u, b
      <4> QED BY <1>2, <1>8, <3>1, AllocateOK
    <3>3. TableEntry(NewFrame(u, b)) \in Entry
      BY <3>2 DEF TableEntry, Entry
    <3>4. MemoryOK'
      BY <3>1, <3>3 DEF MemoryOK
    <3> QED BY <3>2, <3>4
  <2> QED BY <2>1, <2>2
<1>10. DirOK' /\ JobOK'
  <2>1. UNCHANGED <<cr3, dir>>
    BY DEF MapPage
  <2>2. CASE halted' = "hang"
    <3>1. UNCHANGED <<paging, job>>
      BY <2>2 DEF MapPage
    <3> QED BY <2>1, <3>1 DEF DirOK, JobOK, Live, RestOK
  <2>3. CASE halted' # "hang"
    <3>1. Finish(Tail(job.todo))
      BY <2>3 DEF MapPage
    <3> QED BY <1>1, <2>1, <3>1, FinishOK
  <2> QED BY <2>2, <2>3
<1> QED BY <1>9, <1>10 DEF RestOK

LEMMA KillOK ==
    ASSUME PagingInv, NEW p \in Procs, Kill(p)
    PROVE  PagingInv'
<1> USE DEF PagingInv
<1>1. /\ halted = "no" /\ job = Nobody /\ cr3 \in Live
      /\ Lowest(used, first) /\ dir[p] \in Frames /\ p \in Owners
  BY DEF Kill, Idle, SearchOK, DirOK, Owners
<1>2. Owned(dir[p]) \in SUBSET Frames
  BY <1>1, OwnedOK
<1>3. Lowest(used', first')
  BY <1>1, <1>2, ReleaseKeepsLowest DEF Kill
<1>4. SearchOK'
  BY <1>3 DEF SearchOK, Lowest, Full
<1>5. MemoryOK' /\ RestOK'
  BY DEF Kill, MemoryOK, RestOK
<1>6. Live' = Live \ {p}
  BY <1>1 DEF Kill, Live, DirOK
<1>7. cr3' \in Live'
  BY <1>1, <1>6 DEF Kill
<1>8. DirOK'
  BY <1>7 DEF Kill, DirOK
<1>9. JobOK'
  BY <1>1 DEF Kill, JobOK
<1> QED BY <1>4, <1>5, <1>8, <1>9

LEMMA NextOK == PagingInv /\ [Next]_vars => PagingInv'
<1> SUFFICES ASSUME PagingInv, [Next]_vars PROVE PagingInv'
  OBVIOUS
<1> USE DEF PagingInv
<1>1. ASSUME NEW p \in Owners, Create(p) PROVE PagingInv'
  BY <1>1, CreateOK
<1>2. CASE AddTable
  BY <1>2, AddTableOK
<1>3. CASE MapPage
  BY <1>3, MapPageOK
<1>4. CASE MapFaults
  <2>1. halted = "no"
    BY <1>4 DEF MapFaults, Busy
  <2> QED BY <1>4, <2>1 DEF MapFaults, Fault, MemoryOK, DirOK, JobOK, SearchOK, RestOK, Live
<1>5. CASE Start
  BY <1>5 DEF Start, Idle, MemoryOK, DirOK, JobOK, SearchOK, RestOK, Live
<1>6. CASE Switch
  BY <1>6 DEF Switch, Idle, MemoryOK, DirOK, JobOK, SearchOK, RestOK, Live
<1>7. CASE Expand
  <2>1. cr3 \in Owners /\ cr3 \in Live /\ dir[cr3] # Nobody /\ paging \in BOOLEAN
        /\ job' = [owner |-> cr3, todo |-> Fresh(<<HeapTop>>), was |-> paging]
        /\ UNCHANGED <<cr3, dir>>
    BY <1>7, NobodyAssumption DEF Expand, DirOK, Live, Owners
  <2>2. JobOK'
    <3>1. job' \in Job /\ job'.owner = cr3 /\ job'.todo = Fresh(<<HeapTop>>)
      BY <2>1, MappingsOK DEF Job
    <3> QED BY <2>1, <3>1, MappingsOK DEF JobOK, Live
  <2>3. MemoryOK' /\ DirOK' /\ SearchOK' /\ RestOK'
    BY <1>7 DEF Expand, MemoryOK, DirOK, SearchOK, RestOK, Live
  <2> QED BY <2>2, <2>3
<1>8. ASSUME NEW p \in Procs, Kill(p) PROVE PagingInv'
  BY <1>8, KillOK
<1>9. CASE UNCHANGED vars
  BY <1>9 DEF vars, MemoryOK, DirOK, JobOK, SearchOK, RestOK, Live
<1> QED BY <1>1, <1>2, <1>3, <1>4, <1>5, <1>6, <1>7, <1>8, <1>9 DEF Next

THEOREM PagingInvariant == Spec => []PagingInv
<1>1. Init => PagingInv
  BY InitOK
<1>2. PagingInv /\ [Next]_vars => PagingInv'
  BY NextOK
<1> QED BY <1>1, <1>2, PTL DEF Spec

(* The types of Paging.tla: every address in a directory or a table that   *)
(* the kernel wrote is a frame.                                            *)
THEOREM MemoryTyped == Spec => []TypeOK
<1> QED BY PagingInvariant, InvImplies, PTL

(* paging_allocate_new_page misses no free frame and never retries,        *)
(* whatever is created, mapped and freed.                                  *)
THEOREM LowestFrameFirst == Spec => []FirstIsLowest
<1> QED BY PagingInvariant, InvImplies, PTL
-----------------------------------------------------------------------------
(* Address spaces: what is mapped, and who uses which frame.  The          *)
(* invariant relates the pages that have an entry to how far the creation  *)
(* of a process has come.                                                  *)

Mapped(p, page) == Translate(dir[p], page) # Absent

(* Of the mappings of p the first k have been made, or none behind them.   *)
Built(p, k) == \A n \in 1..k : Mapped(p, ProcessMappings(p)[n].page)
Unbuilt(p, k) ==
    \A n \in (k + 1)..Len(ProcessMappings(p)) : ~Mapped(p, ProcessMappings(p)[n].page)
Complete(p) == Built(p, Len(ProcessMappings(p)))

(* The job is to make the mappings of p behind the first k.                *)
Remaining(p, k, todo) ==
    /\ Len(todo) = Len(ProcessMappings(p)) - k
    /\ \A n \in 1..Len(todo) : todo[n] = ProcessMappings(p)[k + n]

(* paging_init_directory has paging off; a process created while the       *)
(* scheduler runs gets its stack and heap with paging on.                  *)
Creating(p, k) ==
    /\ Remaining(p, k, job.todo) /\ Built(p, k) /\ (halted = "no" => Unbuilt(p, k))
    /\ paging <=> cr3 # Nobody /\ k >= Len(IdentityPages)

Growing(p) == job.todo = Fresh(<<HeapTop>>) /\ paging /\ Complete(p)

Progress ==
    /\ \A p \in Live : job = Nobody \/ job.owner # p => Complete(p)
    /\ job = Nobody => (paging <=> cr3 # Nobody)
    /\ job # Nobody =>
        /\ job.was <=> cr3 # Nobody
        /\ \/ Growing(job.owner)
           \/ \E k \in 0..(Len(ProcessMappings(job.owner)) - 1) : Creating(job.owner, k)
        /\ ~paging => Reserved \subseteq used

IdentityOK ==
    \A p \in Live, i \in DOMAIN IdentityPages :
        LET entry == Translate(dir[p], IdentityPages[i]) IN
        entry # Absent => entry.frame = IdentityPages[i] /\ (entry.user <=> i > Len(Image))

(* What is used is not reserved, and what is taken is one or the other.    *)
UsesOK == \A p \in Live : \A u \in Uses(p) : u.frame \notin Reserved
AllUsed ==
    halted = "no" =>
        \A f \in used : f \in Reserved \/ \E p \in Live : \E u \in Uses(p) : u.frame = f

SpacesInv ==
    PagingInv /\ FramesHaveOneUse /\ UsesOK /\ IdentityOK /\ Progress /\ AllUsed

-----------------------------------------------------------------------------
(* The mappings of a process.                                              *)

LEMMA ThreeParts ==
    ASSUME NEW S, NEW a \in Seq(S), NEW b \in Seq(S), NEW c \in Seq(S),
           NEW s, s = (a \o b) \o c
    PROVE  /\ Len(a) \in Nat /\ Len(b) \in Nat /\ Len(c) \in Nat
           /\ s \in Seq(S) /\ Len(s) = Len(a) + Len(b) + Len(c)
           /\ DOMAIN s = 1..Len(s)
           /\ \A i \in 1..Len(s) :
                 /\ i <= Len(a) => s[i] = a[i] /\ i \in 1..Len(a)
                 /\ i > Len(a) /\ i <= Len(a) + Len(b)
                       => s[i] = b[i - Len(a)] /\ i - Len(a) \in 1..Len(b)
                 /\ i > Len(a) + Len(b)
                       => /\ s[i] = c[i - (Len(a) + Len(b))]
                          /\ i - (Len(a) + Len(b)) \in 1..Len(c)
<1>1. Len(a) \in Nat /\ Len(b) \in Nat /\ Len(c) \in Nat
  BY LenProperties
<1> DEFINE t == a \o b
<1>2. /\ t \in Seq(S) /\ Len(t) = Len(a) + Len(b)
      /\ \A i \in 1..(Len(a) + Len(b)) : t[i] = IF i <= Len(a) THEN a[i] ELSE b[i - Len(a)]
  BY ConcatProperties
<1>3. s = t \o c
  OBVIOUS
<1> HIDE DEF t
<1>4. /\ s \in Seq(S) /\ Len(s) = Len(a) + Len(b) + Len(c)
      /\ \A i \in 1..(Len(a) + Len(b) + Len(c)) :
            s[i] = IF i <= Len(a) + Len(b) THEN t[i] ELSE c[i - (Len(a) + Len(b))]
  <2>1. /\ t \o c \in Seq(S) /\ Len(t \o c) = Len(t) + Len(c)
        /\ \A i \in 1..(Len(t) + Len(c)) :
              (t \o c)[i] = IF i <= Len(t) THEN t[i] ELSE c[i - Len(t)]
    <3>1. t \in Seq(S)
      BY <1>2
    <3> QED BY <3>1, ConcatProperties
  <2>2. Len(t) = Len(a) + Len(b)
    BY <1>2
  <2> QED BY <1>3, <2>1, <2>2
<1>5. DOMAIN s = 1..Len(s)
  BY <1>4, LenProperties
<1>6. ASSUME NEW i \in 1..Len(s)
      PROVE  /\ i <= Len(a) => s[i] = a[i] /\ i \in 1..Len(a)
             /\ i > Len(a) /\ i <= Len(a) + Len(b)
                   => s[i] = b[i - Len(a)] /\ i - Len(a) \in 1..Len(b)
             /\ i > Len(a) + Len(b)
                   => /\ s[i] = c[i - (Len(a) + Len(b))]
                      /\ i - (Len(a) + Len(b)) \in 1..Len(c)
  <2>1. i \in 1..(Len(a) + Len(b) + Len(c))
    BY <1>4
  <2>2. s[i] = IF i <= Len(a) + Len(b) THEN t[i] ELSE c[i - (Len(a) + Len(b))]
    BY <1>4, <2>1
  <2>3. i <= Len(a) + Len(b) => t[i] = IF i <= Len(a) THEN a[i] ELSE b[i - Len(a)]
    BY <1>1, <1>2, <2>1
  <2> QED BY <1>1, <2>1, <2>2, <2>3
<1> QED BY <1>1, <1>4, <1>5, <1>6

LEMMA IdentityPagesOK ==
    /\ IdentityPages \in Seq(Pages) /\ Len(IdentityPages) \in Nat /\ Len(IdentityPages) >= 1
    /\ Len(IdentityPages) = Len(Image) + Len(KernelHeap) + Len(Vga)
    /\ DOMAIN IdentityPages = 1..Len(IdentityPages)
<1>1. /\ Image \in Seq(Pages) /\ KernelHeap \in Seq(Pages) /\ Vga \in Seq(Pages)
      /\ Len(Image) > 0
  BY LayoutAssumption, EmptySeq, LenProperties
<1> QED BY <1>1, ThreeParts DEF IdentityPages

(* The identity pages of the kernel come first, in their order.            *)
KernelMapping(m, i) ==
    m.page = IdentityPages[i] /\ m.identity /\ (m.user <=> i > Len(Image))

LEMMA IdentityAt ==
    ASSUME NEW s \in Seq(Pages), NEW u \in BOOLEAN
    PROVE  /\ Identity(u, s) \in Seq(Request) /\ Len(Identity(u, s)) = Len(s)
           /\ \A i \in 1..Len(s) :
                 Identity(u, s)[i] = [page |-> s[i], identity |-> TRUE, user |-> u]
<1>1. Len(s) \in Nat /\ \A i \in 1..Len(s) : s[i] \in Pages
  BY LenProperties
<1>2. Identity(u, s) \in [1..Len(s) -> Request]
  BY <1>1 DEF Identity, Request
<1>3. Identity(u, s) \in Seq(Request) /\ Len(Identity(u, s)) = Len(s)
  BY <1>1, <1>2, FunctionIsSeq
<1> QED BY <1>3 DEF Identity

LEMMA KernelMappingsAt ==
    /\ KernelMappings \in Seq(Request) /\ Len(KernelMappings) = Len(IdentityPages)
    /\ \A i \in 1..Len(IdentityPages) : KernelMapping(KernelMappings[i], i)
<1> DEFINE x == Identity(FALSE, Image)
           y == Identity(TRUE, KernelHeap)
           z == Identity(TRUE, Vga)
<1>0. /\ Image \in Seq(Pages) /\ KernelHeap \in Seq(Pages) /\ Vga \in Seq(Pages)
      /\ Len(Image) \in Nat /\ Len(KernelHeap) \in Nat /\ Len(Vga) \in Nat
  BY LayoutAssumption, LenProperties
<1>2. /\ x \in Seq(Request) /\ Len(x) = Len(Image)
      /\ \A i \in 1..Len(Image) : x[i] = [page |-> Image[i], identity |-> TRUE, user |-> FALSE]
  BY <1>0, IdentityAt
<1>3. /\ y \in Seq(Request) /\ Len(y) = Len(KernelHeap)
      /\ \A i \in 1..Len(KernelHeap) :
            y[i] = [page |-> KernelHeap[i], identity |-> TRUE, user |-> TRUE]
  BY <1>0, IdentityAt
<1>4. /\ z \in Seq(Request) /\ Len(z) = Len(Vga)
      /\ \A i \in 1..Len(Vga) : z[i] = [page |-> Vga[i], identity |-> TRUE, user |-> TRUE]
  BY <1>0, IdentityAt
<1>5. KernelMappings = (x \o y) \o z /\ IdentityPages = (Image \o KernelHeap) \o Vga
  BY DEF KernelMappings, IdentityPages
<1> HIDE DEF x, y, z
<1>6. /\ KernelMappings \in Seq(Request)
      /\ Len(KernelMappings) = Len(x) + Len(y) + Len(z)
      /\ \A i \in 1..Len(KernelMappings) :
             /\ i <= Len(x) => KernelMappings[i] = x[i] /\ i \in 1..Len(x)
             /\ i > Len(x) /\ i <= Len(x) + Len(y)
                   => KernelMappings[i] = y[i - Len(x)] /\ i - Len(x) \in 1..Len(y)
             /\ i > Len(x) + Len(y)
                   => /\ KernelMappings[i] = z[i - (Len(x) + Len(y))]
                      /\ i - (Len(x) + Len(y)) \in 1..Len(z)
  <2>1. x \in Seq(Request) /\ y \in Seq(Request) /\ z \in Seq(Request)
        /\ KernelMappings = (x \o y) \o z
    BY <1>2, <1>3, <1>4, <1>5
  <2> QED BY <2>1, ThreeParts
<1>7. Len(KernelMappings) = Len(IdentityPages)
  BY <1>2, <1>3, <1>4, <1>6, IdentityPagesOK
<1>8. \A i \in 1..Len(IdentityPages) :
             /\ i <= Len(Image) => IdentityPages[i] = Image[i]
             /\ i > Len(Image) /\ i <= Len(Image) + Len(KernelHeap)
                   => IdentityPages[i] = KernelHeap[i - Len(Image)]
             /\ i > Len(Image) + Len(KernelHeap)
                   => IdentityPages[i] = Vga[i - (Len(Image) + Len(KernelHeap))]
  BY <1>0, <1>5, ThreeParts
<1>9. ASSUME NEW i \in 1..Len(IdentityPages)
      PROVE  KernelMapping(KernelMappings[i], i)
  <2>0. i \in 1..Len(KernelMappings) /\ i \in Nat
    BY <1>7, IdentityPagesOK
  <2>1. CASE i <= Len(Image)
    <3>1. KernelMappings[i] = x[i] /\ i \in 1..Len(Image)
      BY <1>2, <1>6, <2>0, <2>1
    <3>2. IdentityPages[i] = Image[i]
      BY <1>8, <2>1
    <3>3. KernelMappings[i] = [page |-> IdentityPages[i], identity |-> TRUE, user |-> FALSE]
      BY <1>2, <3>1, <3>2
    <3>4. ~(i > Len(Image))
      BY <1>0, <2>0, <2>1
    <3> QED BY <3>3, <3>4 DEF KernelMapping
  <2>2. CASE i > Len(Image) /\ i <= Len(Image) + Len(KernelHeap)
    <3>1. /\ KernelMappings[i] = y[i - Len(Image)] /\ i - Len(Image) \in 1..Len(KernelHeap)
      BY <1>2, <1>3, <1>6, <2>0, <2>2
    <3>2. /\ KernelMappings[i] = [page |-> IdentityPages[i], identity |-> TRUE, user |-> TRUE]
      BY <1>3, <1>8, <2>2, <3>1
    <3> QED BY <3>2, <2>2 DEF KernelMapping
  <2>3. CASE i > Len(Image) + Len(KernelHeap)
    <3>1. /\ KernelMappings[i] = z[i - (Len(Image) + Len(KernelHeap))]
          /\ i - (Len(Image) + Len(KernelHeap)) \in 1..Len(Vga)
      BY <1>2, <1>3, <1>4, <1>6, <2>0, <2>3
    <3>2. IdentityPages[i] = Vga[i - (Len(Image) + Len(KernelHeap))]
      BY <1>8, <2>3
    <3>3. KernelMappings[i] = [page |-> IdentityPages[i], identity |-> TRUE, user |-> TRUE]
      BY <1>4, <3>1, <3>2
    <3>4. i > Len(Image)
      BY <1>0, <2>0, <2>3
    <3> QED BY <3>3, <3>4 DEF KernelMapping
  <2> QED BY <1>0, <2>0, <2>1, <2>2, <2>3
<1> QED BY <1>6, <1>7, <1>9

(* Then, for all but alive, its stack and the first page of its heap; and  *)
(* no page comes twice.                                                    *)
MappingsOf(p, M) ==
    /\ M \in Seq(Request) /\ Len(M) \in Nat /\ Len(IdentityPages) <= Len(M)
    /\ \A n \in 1..Len(IdentityPages) : KernelMapping(M[n], n)
    /\ \A n \in 1..Len(M) :
          /\ M[n].page \in Pages
          /\ n > Len(IdentityPages) => ~M[n].identity /\ M[n].page \notin Range(IdentityPages)
    /\ \A n, m \in 1..Len(M) : M[n].page = M[m].page => n = m

LEMMA FreshAt ==
    ASSUME NEW s \in Seq(Pages)
    PROVE  /\ Fresh(s) \in Seq(Request) /\ Len(Fresh(s)) = Len(s)
           /\ \A i \in 1..Len(s) : Fresh(s)[i].page = s[i] /\ ~Fresh(s)[i].identity
<1>1. Len(s) \in Nat /\ \A i \in 1..Len(s) : s[i] \in Pages
  BY LenProperties
<1>2. Fresh(s) \in [1..Len(s) -> Request]
  BY <1>1 DEF Fresh, Request
<1>3. Fresh(s) \in Seq(Request) /\ Len(Fresh(s)) = Len(s)
  BY <1>1, <1>2, FunctionIsSeq
<1> QED BY <1>3 DEF Fresh

LEMMA MappingsAt ==
    ASSUME NEW p
    PROVE  MappingsOf(p, ProcessMappings(p))
<1> DEFINE nk == Len(IdentityPages)
           ns == Len(StackPages)
           pages == (IdentityPages \o StackPages) \o <<HeapPage>>
           x == Fresh(StackPages)
           y == Fresh(<<HeapPage>>)
           rest == IF p = Alive THEN <<>> ELSE x \o y
           M == ProcessMappings(p)
<1>1. /\ IdentityPages \in Seq(Pages) /\ StackPages \in Seq(Pages)
      /\ <<HeapPage>> \in Seq(Pages) /\ Len(<<HeapPage>>) = 1 /\ <<HeapPage>>[1] = HeapPage
      /\ nk \in Nat /\ nk >= 1 /\ ns \in Nat
  BY LayoutAssumption, IdentityPagesOK, LenProperties
<1>2. /\ pages \in Seq(Pages) /\ Len(pages) = nk + ns + 1 /\ DOMAIN pages = 1..Len(pages)
      /\ \A i \in 1..Len(pages) :
            /\ i <= nk => pages[i] = IdentityPages[i]
            /\ i > nk /\ i <= nk + ns => pages[i] = StackPages[i - nk]
            /\ i > nk + ns => pages[i] = <<HeapPage>>[i - (nk + ns)]
  <2>1. /\ pages \in Seq(Pages) /\ Len(pages) = nk + ns + Len(<<HeapPage>>)
        /\ DOMAIN pages = 1..Len(pages)
    BY <1>1, ThreeParts
  <2>2. \A i \in 1..Len(pages) :
            /\ i <= nk => pages[i] = IdentityPages[i]
            /\ i > nk /\ i <= nk + ns => pages[i] = StackPages[i - nk]
            /\ i > nk + ns => pages[i] = <<HeapPage>>[i - (nk + ns)]
    BY <1>1, ThreeParts
  <2> QED BY <1>1, <2>1, <2>2
<1>3. \A i, j \in DOMAIN pages : pages[i] = pages[j] => i = j
  BY DistinctAssumption
<1>4. /\ x \in Seq(Request) /\ Len(x) = ns
      /\ \A i \in 1..ns : x[i].page = StackPages[i] /\ ~x[i].identity
  BY <1>1, FreshAt
<1>5. /\ y \in Seq(Request) /\ Len(y) = 1 /\ y[1].page = HeapPage /\ ~y[1].identity
  <2> DEFINE h == <<HeapPage>>
  <2>1. h \in Seq(Pages) /\ Len(h) = 1 /\ h[1] = HeapPage
    BY <1>1
  <2>2. y = Fresh(h)
    OBVIOUS
  <2> HIDE DEF h, y
  <2>3. /\ Fresh(h) \in Seq(Request) /\ Len(Fresh(h)) = Len(h)
        /\ \A i \in 1..Len(h) : Fresh(h)[i].page = h[i] /\ ~Fresh(h)[i].identity
    BY <2>1, FreshAt
  <2> QED BY <2>1, <2>2, <2>3
<1>6. M = KernelMappings \o rest
  BY DEF ProcessMappings
<1> HIDE DEF x, y
<1>6a. IF p = Alive THEN rest = <<>> ELSE rest = x \o y
  OBVIOUS
<1> HIDE DEF pages, M, rest
<1>7. /\ rest \in Seq(Request) /\ Len(rest) \in 0..(ns + 1)
      /\ \A i \in 1..Len(rest) :
            rest[i] = IF i <= ns THEN x[i] ELSE y[i - ns]
  <2>1. CASE p = Alive
    <3>1. rest = <<>> /\ Len(<<>>) = 0
      BY <1>6a, <2>1
    <3>2. rest \in Seq(Request)
      BY <3>1
    <3> QED BY <1>1, <3>1, <3>2
  <2>2. CASE p # Alive
    <3>1. rest = x \o y
      BY <1>6a, <2>2
    <3>2. /\ x \o y \in Seq(Request) /\ Len(x \o y) = Len(x) + Len(y)
          /\ \A i \in 1..(Len(x) + Len(y)) :
                (x \o y)[i] = IF i <= Len(x) THEN x[i] ELSE y[i - Len(x)]
      <4>1. x \in Seq(Request) /\ y \in Seq(Request)
        BY <1>4, <1>5
      <4> QED BY <4>1, ConcatProperties
    <3>3. Len(x) = ns /\ Len(y) = 1
      BY <1>4, <1>5
    <3> QED BY <1>1, <3>1, <3>2, <3>3
  <2> QED BY <2>1, <2>2
<1>8. /\ M \in Seq(Request) /\ Len(M) = nk + Len(rest) /\ Len(M) \in Nat
      /\ \A i \in 1..Len(M) : M[i] = IF i <= nk THEN KernelMappings[i] ELSE rest[i - nk]
  <2>1. KernelMappings \in Seq(Request) /\ Len(KernelMappings) = nk /\ rest \in Seq(Request)
    BY <1>7, KernelMappingsAt
  <2>2. /\ M \in Seq(Request) /\ Len(M) = Len(KernelMappings) + Len(rest)
        /\ \A i \in 1..(Len(KernelMappings) + Len(rest)) :
              M[i] = IF i <= Len(KernelMappings) THEN KernelMappings[i]
                     ELSE rest[i - Len(KernelMappings)]
    BY <1>6, <2>1, ConcatProperties
  <2> QED BY <2>1, <2>2, LenProperties
<1>9. ASSUME NEW i \in 1..Len(M)
      PROVE  /\ M[i].page = pages[i] /\ i \in DOMAIN pages
             /\ i <= nk => pages[i] = IdentityPages[i] /\ KernelMapping(M[i], i)
             /\ i > nk => ~M[i].identity
  <2>1. i \in 1..Len(pages) /\ i \in Nat /\ i >= 1
    BY <1>1, <1>2, <1>7, <1>8
  <2>2. CASE i <= nk
    <3>1. M[i] = KernelMappings[i] /\ i \in 1..nk
      BY <1>1, <1>8, <2>1, <2>2
    <3>2. KernelMapping(M[i], i)
      BY <3>1, KernelMappingsAt
    <3>3. pages[i] = IdentityPages[i] /\ i \in DOMAIN pages
      BY <1>2, <2>1, <2>2
    <3> QED BY <1>1, <2>1, <2>2, <3>2, <3>3 DEF KernelMapping
  <2>3. CASE i > nk
    <3>1. M[i] = rest[i - nk] /\ i - nk \in 1..Len(rest)
      BY <1>1, <1>7, <1>8, <2>1, <2>3
    <3>2. CASE i <= nk + ns
      <4>1. M[i] = x[i - nk] /\ i - nk \in 1..ns
        BY <1>1, <1>7, <2>1, <2>3, <3>1, <3>2
      <4>2. pages[i] = StackPages[i - nk]
        BY <1>2, <2>1, <2>3, <3>2
      <4>3. M[i].page = pages[i] /\ ~M[i].identity
        BY <1>4, <4>1, <4>2
      <4> QED BY <1>1, <1>2, <2>1, <2>3, <4>3
    <3>3. CASE i > nk + ns
      <4>0. i - nk \in 1..(ns + 1) /\ ~(i - nk <= ns)
        BY <1>1, <1>7, <2>1, <3>1, <3>3
      <4>1. M[i] = y[1] /\ i - (nk + ns) = 1
        <5>1. i - nk - ns = 1 /\ i - (nk + ns) = 1
          <6>1. nk \in Nat /\ ns \in Nat /\ i \in Nat
            BY <1>1, <2>1
          <6> QED BY <4>0, <6>1
        <5>2. rest[i - nk] = y[i - nk - ns]
          BY <1>7, <3>1, <4>0
        <5> QED BY <3>1, <5>1, <5>2
      <4>2. pages[i] = HeapPage
        BY <1>1, <1>2, <2>1, <3>3, <4>1
      <4>3. M[i].page = pages[i] /\ ~M[i].identity
        BY <1>5, <4>1, <4>2
      <4> QED BY <1>1, <1>2, <2>1, <2>3, <4>3
    <3> QED BY <1>1, <2>1, <3>2, <3>3
  <2> QED BY <1>1, <2>1, <2>2, <2>3
<1>10. nk <= Len(M) /\ \A n \in 1..nk : KernelMapping(M[n], n)
  BY <1>1, <1>7, <1>8, <1>9
<1>11. ASSUME NEW n \in 1..Len(M)
       PROVE  M[n].page \in Pages
  <2>1. M[n] \in Request
    BY <1>8, LenProperties
  <2> QED BY <2>1 DEF Request
<1>12. ASSUME NEW n \in 1..Len(M), n > nk
       PROVE  M[n].page \notin Range(IdentityPages)
  <2> SUFFICES ASSUME NEW m \in 1..nk, M[n].page = IdentityPages[m] PROVE FALSE
    BY IdentityPagesOK DEF Range
  <2>1. m \in 1..Len(M) /\ m <= nk /\ m # n
    BY <1>1, <1>8, <1>10, <1>12
  <2>2. pages[m] = pages[n] /\ m \in DOMAIN pages /\ n \in DOMAIN pages
    BY <1>9, <2>1
  <2> QED BY <1>3, <2>1, <2>2
<1>13. \A n, m \in 1..Len(M) : M[n].page = M[m].page => n = m
  BY <1>3, <1>9
<1>14. \A n \in 1..Len(M) : n > nk => ~M[n].identity
  BY <1>9
<1> QED BY <1>8, <1>10, <1>11, <1>12, <1>13, <1>14 DEF MappingsOf, M

-----------------------------------------------------------------------------
(* Pages and their slots.                                                  *)

LEMMA SlotIsPage ==
    ASSUME NEW p \in Pages, NEW q \in Pages,
           DirIndex(p) = DirIndex(q), TableIndex(p) = TableIndex(q)
    PROVE  p = q
<1>1. p \in Nat /\ q \in Nat /\ Entries \in Nat \ {0}
  BY LayoutAssumption DEF Pages
<1>2. p = ((p \div Entries) * Entries) + (p % Entries)
      /\ q = ((q \div Entries) * Entries) + (q % Entries)
  BY <1>1, Divide
<1>3. p \div Entries = q \div Entries /\ p % Entries = q % Entries
  BY DEF DirIndex, TableIndex
<1> QED BY <1>2, <1>3

(* The three kinds of use.                                                 *)
DirectoryUse(p, u) == u = [frame |-> dir[p], kind |-> "directory", at |-> 0]
TableUse(p, u) ==
    \E i \in Index : /\ mem[dir[p]][i] # Absent
                     /\ u = [frame |-> mem[dir[p]][i].frame, kind |-> "table", at |-> i]
PageUse(p, u) ==
    \E r \in Pages : /\ r \notin Range(IdentityPages) /\ Translate(dir[p], r) # Absent
                     /\ u = [frame |-> Translate(dir[p], r).frame, kind |-> "page", at |-> r]

LEMMA UsesAre ==
    ASSUME NEW p, NEW u
    PROVE  /\ u \in Uses(p) <=> DirectoryUse(p, u) \/ TableUse(p, u) \/ PageUse(p, u)
           /\ u \in Uses(p)' <=> DirectoryUse(p, u)' \/ TableUse(p, u)' \/ PageUse(p, u)'
<1>1. u \in Uses(p) <=> DirectoryUse(p, u) \/ TableUse(p, u) \/ PageUse(p, u)
  BY DEF Uses, DirectoryUse, TableUse, PageUse
<1>2. u \in Uses(p)' <=> DirectoryUse(p, u)' \/ TableUse(p, u)' \/ PageUse(p, u)'
  BY DEF Uses, DirectoryUse, TableUse, PageUse
<1> QED BY <1>1, <1>2

(* Who uses what.                                                          *)
LEMMA DirectoryIsUse ==
    ASSUME NEW p
    PROVE  [frame |-> dir[p], kind |-> "directory", at |-> 0] \in Uses(p)
  BY UsesAre DEF DirectoryUse

LEMMA TableIsUse ==
    ASSUME NEW p, NEW i \in Index, mem[dir[p]][i] # Absent
    PROVE  [frame |-> mem[dir[p]][i].frame, kind |-> "table", at |-> i] \in Uses(p)
  BY UsesAre DEF TableUse

LEMMA PageIsUse ==
    ASSUME NEW p, NEW r \in Pages, r \notin Range(IdentityPages), Translate(dir[p], r) # Absent
    PROVE  [frame |-> Translate(dir[p], r).frame, kind |-> "page", at |-> r] \in Uses(p)
  BY UsesAre DEF PageUse

(* Directories and tables are apart.                                       *)
LEMMA Apart ==
    ASSUME FramesHaveOneUse, UsesOK, NEW p \in Live, NEW q \in Live
    PROVE  /\ dir[p] \in used /\ dir[p] \notin Reserved /\ (dir[p] = dir[q] => p = q)
           /\ \A i \in Index : mem[dir[p]][i] # Absent =>
                 /\ mem[dir[p]][i].frame \in used
                 /\ mem[dir[p]][i].frame # dir[q]
                 /\ \A j \in Index : mem[dir[q]][j] # Absent =>
                        (mem[dir[p]][i].frame = mem[dir[q]][j].frame => p = q /\ i = j)
<1> DEFINE DU(x) == [frame |-> dir[x], kind |-> "directory", at |-> 0]
           TU(x, i) == [frame |-> mem[dir[x]][i].frame, kind |-> "table", at |-> i]
<1>1. DU(p) \in Uses(p) /\ DU(q) \in Uses(q)
  BY DirectoryIsUse
<1>2. \A i \in Index : mem[dir[p]][i] # Absent => TU(p, i) \in Uses(p)
  BY TableIsUse
<1>3. \A i \in Index : mem[dir[q]][i] # Absent => TU(q, i) \in Uses(q)
  BY TableIsUse
<1>4. \A u \in Uses(p) : u.frame \in used /\ u.frame \notin Reserved
  BY DEF FramesHaveOneUse, UsesOK
<1>5. \A u \in Uses(p), v \in Uses(q) : u.frame = v.frame => p = q /\ u = v
  BY DEF FramesHaveOneUse
<1>6. DU(p).frame = dir[p] /\ DU(q).frame = dir[q]
  OBVIOUS
<1>7. /\ \A i : TU(p, i).frame = mem[dir[p]][i].frame /\ TU(p, i).at = i
      /\ \A i : TU(q, i).frame = mem[dir[q]][i].frame /\ TU(q, i).at = i
      /\ \A i : TU(p, i) # DU(q)
  OBVIOUS
<1> HIDE DEF DU, TU
<1>8. dir[p] \in used /\ dir[p] \notin Reserved /\ (dir[p] = dir[q] => p = q)
  BY <1>1, <1>4, <1>5, <1>6
<1>9. ASSUME NEW i \in Index, mem[dir[p]][i] # Absent
      PROVE  /\ mem[dir[p]][i].frame \in used
             /\ mem[dir[p]][i].frame # dir[q]
             /\ \A j \in Index : mem[dir[q]][j] # Absent =>
                    (mem[dir[p]][i].frame = mem[dir[q]][j].frame => p = q /\ i = j)
  <2>1. TU(p, i) \in Uses(p)
    BY <1>2, <1>9
  <2>2. mem[dir[p]][i].frame \in used
    BY <1>4, <1>7, <2>1
  <2>3. mem[dir[p]][i].frame # dir[q]
    BY <1>1, <1>5, <1>6, <1>7, <2>1
  <2>4. ASSUME NEW j \in Index, mem[dir[q]][j] # Absent,
               mem[dir[p]][i].frame = mem[dir[q]][j].frame
        PROVE  p = q /\ i = j
    <3>1. TU(q, j) \in Uses(q)
      BY <1>3, <2>4
    <3>2. p = q /\ TU(p, i) = TU(q, j)
      BY <1>5, <1>7, <2>1, <2>4, <3>1
    <3> QED BY <1>7, <3>2
  <2> QED BY <2>2, <2>3, <2>4
<1> QED BY <1>8, <1>9

-----------------------------------------------------------------------------
(* What a step does to a space.                                            *)

(* Nothing, if it writes neither the directory nor a table of it.          *)
SameSpace(p) ==
    /\ dir'[p] = dir[p] /\ mem'[dir[p]] = mem[dir[p]]
    /\ \A i \in Index : mem[dir[p]][i] # Absent =>
          mem'[mem[dir[p]][i].frame] = mem[mem[dir[p]][i].frame]

SameMappings(p) ==
    \A r \in Pages : Translate(dir[p], r)' = Translate(dir[p], r)

LEMMA SameSpaceMaps ==
    ASSUME NEW p, SameSpace(p)
    PROVE  SameMappings(p)
<1> SUFFICES ASSUME NEW r \in Pages PROVE Translate(dir[p], r)' = Translate(dir[p], r)
  BY DEF SameMappings
<1>1. DirIndex(r) \in Index
  BY IndexOK
<1> QED BY <1>1 DEF Translate, SameSpace, DirIndex, TableIndex

LEMMA SameSpaceUses ==
    ASSUME NEW p, SameSpace(p)
    PROVE  \A u : u \in Uses(p)' <=> u \in Uses(p)
<1> SUFFICES ASSUME NEW u PROVE u \in Uses(p)' <=> u \in Uses(p)
  OBVIOUS
<1>1. DirectoryUse(p, u)' <=> DirectoryUse(p, u)
  BY DEF DirectoryUse, SameSpace
<1>2. TableUse(p, u)' <=> TableUse(p, u)
  BY DEF TableUse, SameSpace, Index
<1>3. PageUse(p, u)' <=> PageUse(p, u)
  BY SameSpaceMaps DEF PageUse, SameMappings, Pages
<1> QED BY <1>1, <1>2, <1>3, UsesAre

(* A step of o's creation may take one frame, which gets one use.          *)
Gains(o, R) ==
    /\ \A p \in Live' : \A u : u \in Uses(p)' =>
          (p \in Live /\ u \in Uses(p)) \/ (p = o /\ u \in R)
    /\ \A p \in Live : p \in Live' /\ \A u \in Uses(p) : u \in Uses(p)'
    /\ \A r \in R : r.frame \notin used /\ r.frame \notin Reserved /\ r.frame \in used'
    /\ \A r, s \in R : r = s
    /\ used \subseteq used'

LEMMA GainsOneUse ==
    ASSUME FramesHaveOneUse, UsesOK, NEW o, NEW R, Gains(o, R)
    PROVE  FramesHaveOneUse' /\ UsesOK'
<1>1. ASSUME NEW p \in Live, NEW u \in Uses(p)
      PROVE  u.frame \in used /\ u.frame \notin Reserved
  BY DEF FramesHaveOneUse, UsesOK
<1>2. ASSUME NEW p \in Live', NEW u, u \in Uses(p)'
      PROVE  /\ u.frame \in used' /\ u.frame \notin Reserved
             /\ (p \in Live /\ u \in Uses(p) /\ u.frame \in used)
                \/ (p = o /\ u \in R /\ u.frame \notin used)
  BY <1>1, <1>2 DEF Gains
<1>3. ASSUME NEW p \in Live', NEW q \in Live', NEW u, u \in Uses(p)', NEW v, v \in Uses(q)',
             u.frame = v.frame
      PROVE  p = q /\ u = v
  <2>1. CASE u.frame \in used
    <3>1. p \in Live /\ u \in Uses(p) /\ q \in Live /\ v \in Uses(q)
      BY <1>2, <1>3, <2>1
    <3> QED BY <1>3, <3>1 DEF FramesHaveOneUse
  <2>2. CASE u.frame \notin used
    <3>1. p = o /\ q = o /\ u \in R /\ v \in R
      BY <1>2, <1>3, <2>2
    <3> QED BY <3>1 DEF Gains
  <2> QED BY <2>1, <2>2
<1>4. UsesOK'
  BY <1>2 DEF UsesOK, Reserved
<1>5. FramesHaveOneUse'
  BY <1>2, <1>3 DEF FramesHaveOneUse
<1> QED BY <1>4, <1>5

(* What is taken then has a use, if the frame that was taken got one.      *)
LEMMA GainsAllUsed ==
    ASSUME AllUsed, halted = "no", NEW o, NEW R, Gains(o, R), NEW F, used' = used \union F,
           halted' = "no" => \A f \in F : o \in Live' /\ \E r \in R : r.frame = f /\ r \in Uses(o)'
    PROVE  AllUsed'
<1> SUFFICES ASSUME halted' = "no", NEW f, f \in used', f \notin Reserved
             PROVE  \E p \in Live' : \E u \in Uses(p)' : u.frame = f
  BY DEF AllUsed, Reserved
<1>1. CASE f \in used
  <2>1. PICK p \in Live : \E u \in Uses(p) : u.frame = f
    BY <1>1 DEF AllUsed
  <2> QED BY <2>1 DEF Gains
<1>2. CASE f \in F
  BY <1>2
<1> QED BY <1>1, <1>2

(* Identity pages and progress depend on what is mapped, not on where.     *)
LEMMA SameMapped ==
    ASSUME NEW p, SameMappings(p)
    PROVE  /\ \A n \in 1..Len(ProcessMappings(p)) :
                 Mapped(p, ProcessMappings(p)[n].page)' <=> Mapped(p, ProcessMappings(p)[n].page)
           /\ \A i \in DOMAIN IdentityPages :
                 Translate(dir[p], IdentityPages[i])' = Translate(dir[p], IdentityPages[i])
<1>1. \A n \in 1..Len(ProcessMappings(p)) : ProcessMappings(p)[n].page \in Pages
  BY MappingsAt DEF MappingsOf
<1>2. \A i \in DOMAIN IdentityPages : IdentityPages[i] \in Pages
  BY IdentityPagesOK, LenProperties
<1> QED BY <1>1, <1>2 DEF SameMappings, Mapped

LEMMA SameIdentity ==
    ASSUME IdentityOK, Live' \subseteq Live, \A p \in Live' : SameMappings(p)
    PROVE  IdentityOK'
<1> SUFFICES ASSUME NEW p \in Live', NEW i \in DOMAIN IdentityPages,
                    Translate(dir[p], IdentityPages[i])' # Absent
             PROVE  LET entry == Translate(dir[p], IdentityPages[i])' IN
                    entry.frame = IdentityPages[i] /\ (entry.user <=> i > Len(Image))
  BY DEF IdentityOK, IdentityPages
<1>1. Translate(dir[p], IdentityPages[i])' = Translate(dir[p], IdentityPages[i])
  BY SameMapped
<1> QED BY <1>1 DEF IdentityOK

LEMMA SameBuilt ==
    ASSUME NEW p, SameMappings(p), NEW k \in Nat
    PROVE  /\ k <= Len(ProcessMappings(p)) => (Built(p, k)' <=> Built(p, k))
           /\ Unbuilt(p, k)' <=> Unbuilt(p, k)
           /\ Complete(p)' <=> Complete(p)
<1> DEFINE M == ProcessMappings(p)
<1>1. \A n \in 1..Len(M) : Mapped(p, M[n].page)' <=> Mapped(p, M[n].page)
  BY SameMapped
<1>2. Len(M) \in Nat
  BY MappingsAt DEF MappingsOf
<1>3. \A j \in Nat : j <= Len(M) => (Built(p, j)' <=> Built(p, j))
  <2> SUFFICES ASSUME NEW j \in Nat, j <= Len(M) PROVE Built(p, j)' <=> Built(p, j)
    OBVIOUS
  <2>1. \A n \in 1..j : n \in 1..Len(M)
    BY <1>2
  <2>2. \A n \in 1..j : Mapped(p, M[n].page)' <=> Mapped(p, M[n].page)
    BY <1>1, <2>1
  <2>3. Built(p, j)' <=> \A n \in 1..j : Mapped(p, M[n].page)'
    BY DEF Built, ProcessMappings, KernelMappings, Identity, Fresh
  <2> QED BY <2>2, <2>3 DEF Built
<1>4. Unbuilt(p, k)' <=> Unbuilt(p, k)
  <2>1. \A n \in (k + 1)..Len(M) : n \in 1..Len(M)
    BY <1>2
  <2>2. \A n \in (k + 1)..Len(M) : Mapped(p, M[n].page)' <=> Mapped(p, M[n].page)
    BY <1>1, <2>1
  <2>3. Unbuilt(p, k)' <=> \A n \in (k + 1)..Len(M) : ~Mapped(p, M[n].page)'
    BY DEF Unbuilt, ProcessMappings, KernelMappings, Identity, Fresh
  <2> QED BY <2>2, <2>3 DEF Unbuilt
<1>5. Complete(p)' <=> Complete(p)
  BY <1>2, <1>3 DEF Complete
<1> QED BY <1>3, <1>4, <1>5

LEMMA SameProgress ==
    ASSUME Progress, Live' \subseteq Live, \A p \in Live : SameMappings(p),
           job # Nobody => job.owner \in Live,
           UNCHANGED <<job, paging, cr3>>, halted' = "no" => halted = "no", used \subseteq used'
    PROVE  Progress'
<1>1. ASSUME NEW p \in Live', job' = Nobody \/ job'.owner # p
      PROVE  Complete(p)'
  <2>1. Complete(p)
    BY <1>1 DEF Progress
  <2> QED BY <1>1, <2>1, SameBuilt
<1>2. ASSUME job # Nobody, Growing(job.owner)
      PROVE  Growing(job.owner)'
  <2>1. Complete(job.owner)' <=> Complete(job.owner)
    BY <1>2, SameBuilt
  <2> QED BY <1>2, <2>1 DEF Growing, Fresh
<1>3. ASSUME job # Nobody, NEW k \in 0..(Len(ProcessMappings(job.owner)) - 1),
             Creating(job.owner, k)
      PROVE  Creating(job.owner, k)'
  <2>1. k \in Nat /\ k <= Len(ProcessMappings(job.owner))
    BY <1>3, MappingsAt DEF MappingsOf
  <2>2. (Built(job.owner, k)' <=> Built(job.owner, k))
        /\ (Unbuilt(job.owner, k)' <=> Unbuilt(job.owner, k))
    BY <1>3, <2>1, SameBuilt
  <2> QED BY <1>3, <2>2 DEF Creating, Remaining
<1>4. job' = Nobody => (paging' <=> cr3' # Nobody)
  BY DEF Progress
<1>5. ASSUME job' # Nobody
      PROVE  /\ job'.was <=> cr3' # Nobody
             /\ Growing(job.owner)' \/ \E k \in 0..(Len(ProcessMappings(job.owner))' - 1) :
                                            Creating(job.owner, k)'
             /\ ~paging' => Reserved \subseteq used'
  BY <1>2, <1>3, <1>5 DEF Progress
<1> QED BY <1>1, <1>4, <1>5 DEF Progress, Reserved

-----------------------------------------------------------------------------
(* The steps of a creation.                                                *)

(* The first hypothesis of what follows: while an address space is being   *)
(* built, an access to the address of its directory reaches that directory *)
(* or faults, as no other page is mapped there.  With about five processes *)
(* the directories of the real machine reach the addresses of the stacks,  *)
(* and this no longer holds.                                               *)
NothingElseReached == Busy => Reached(Directory) \subseteq {Directory}

(* With paging on, no page is mapped to a directory: whoever reaches his   *)
(* directory has paging off, and is creating a process.                    *)
LEMMA PagingIsOff ==
    ASSUME SpacesInv, NothingElseReached, Busy, NEW d \in Reached(Directory)
    PROVE  ~paging /\ d = Directory /\ job.owner \in Live
<1>1. d = Directory
  BY DEF NothingElseReached
<1>2. job.owner \in Live
  BY BusyOK DEF SpacesInv, PagingInv, JobOK, Busy, Live
<1>3. ASSUME paging PROVE FALSE
  <2>1. /\ cr3 \in Live /\ Translate(dir[cr3], Directory) # Absent
        /\ d = Translate(dir[cr3], Directory).frame
    BY <1>3 DEF Reached, SpacesInv, PagingInv, DirOK
  <2>2. Directory \in Pages
    BY BusyOK, FramesArePages DEF SpacesInv
  <2>3. Directory \notin Range(IdentityPages)
    <3>1. dir[job.owner] \notin Reserved
      BY <1>2, Apart DEF SpacesInv
    <3> QED BY <3>1 DEF Directory, Reserved
  <2> DEFINE u == [frame |-> dir[job.owner], kind |-> "directory", at |-> 0]
             v == [frame |-> Translate(dir[cr3], Directory).frame, kind |-> "page", at |-> Directory]
  <2>4. u \in Uses(job.owner) /\ v \in Uses(cr3)
    BY <2>1, <2>2, <2>3, DirectoryIsUse, PageIsUse
  <2>5. u.frame = v.frame /\ u # v
    BY <1>1, <2>1 DEF Directory
  <2> HIDE DEF u, v
  <2> QED BY <1>2, <2>1, <2>4, <2>5 DEF SpacesInv, FramesHaveOneUse
<1> QED BY <1>1, <1>2, <1>3

CreatingStep(o, k) ==
    /\ o = job.owner /\ o \in Live /\ Directory = dir[o] /\ dir[o] \in Frames
    /\ \A f : Reached(f) = {f}
    /\ ~paging /\ (job.was <=> cr3 # Nobody) /\ Reserved \subseteq used
    /\ k \in 0..(Len(ProcessMappings(o)) - 1) /\ Creating(o, k)
    /\ Pending = ProcessMappings(o)[k + 1] /\ Pending \in Request
    /\ ~Mapped(o, Pending.page)
    /\ halted = "no" /\ Lowest(used, first) /\ used \subseteq Frames
    /\ job # Nobody /\ job \in Job /\ job.todo # <<>> /\ cr3 \in Owners \union {Nobody}

LEMMA CreatingStepOK ==
    ASSUME SpacesInv, NothingElseReached, Busy, Reached(Directory) # {}
    PROVE  \E k \in Nat : CreatingStep(job.owner, k)
<1>1. ~paging /\ job.owner \in Live
  BY PagingIsOff
<1>2. \A f : Reached(f) = {f}
  BY <1>1 DEF Reached
<1>3. /\ halted = "no" /\ Lowest(used, first) /\ used \subseteq Frames /\ job \in Job
      /\ Directory \in Frames /\ Pending \in Request
  BY BusyOK DEF SpacesInv
<1>4. /\ job # Nobody /\ job.todo # <<>> /\ (job.was <=> cr3 # Nobody)
      /\ Reserved \subseteq used /\ cr3 \in Owners \union {Nobody}
  BY <1>1 DEF SpacesInv, Progress, Busy, PagingInv, JobOK, DirOK, Live
<1> DEFINE M == ProcessMappings(job.owner)
<1>5. PICK k \in 0..(Len(M) - 1) : Creating(job.owner, k)
  BY <1>1, <1>4 DEF SpacesInv, Progress, Growing
<1>6. Len(M) \in Nat /\ k \in Nat /\ k + 1 \in (k + 1)..Len(M) /\ 1 \in 1..(Len(M) - k)
  BY MappingsAt DEF MappingsOf
<1>7. Pending = M[k + 1]
  <2>1. \A n \in 1..Len(job.todo) : job.todo[n] = M[k + n]
    BY <1>5 DEF Creating, Remaining
  <2>2. Len(job.todo) = Len(M) - k
    BY <1>5 DEF Creating, Remaining
  <2>3. job.todo[1] = M[k + 1]
    BY <1>6, <2>1, <2>2
  <2>4. job.todo \in Seq(Request)
    BY <1>3 DEF Job
  <2> QED BY <1>4, <2>3, <2>4, HeadTailProperties DEF Pending
<1>8. ~Mapped(job.owner, Pending.page)
  BY <1>3, <1>5, <1>6, <1>7 DEF Creating, Unbuilt
<1>9. CreatingStep(job.owner, k)
  BY <1>1, <1>2, <1>3, <1>4, <1>5, <1>7, <1>8 DEF CreatingStep, Directory
<1> QED BY <1>6, <1>9

(* paging_allocate_new_page for the directory and the tables: the frame    *)
(* was free, so nobody's.                                                  *)
LEMMA TakenIsNew ==
    ASSUME Lowest(used, first), halted = "no", Reserved \subseteq used, Allocate(used, first)
    PROVE  /\ NewFrame(used, first) \in Frames
           /\ NewFrame(used, first) \notin used /\ NewFrame(used, first) \notin Reserved
           /\ used' = used \union {NewFrame(used, first)}
<1>1. NewFrame(used, first) \in Frames /\ NewFrame(used, first) \notin used
  BY NewFrameIsFree
<1>2. used' = used \union {NewFrame(used, first)}
  BY AllocateKeepsLowest
<1> QED BY <1>1, <1>2

LEMMA SpacesAddTable ==
    ASSUME SpacesInv, NothingElseReached, AddTable
    PROVE  FramesHaveOneUse' /\ UsesOK' /\ IdentityOK' /\ Progress' /\ AllUsed'
<1>0. PICK o, D, i, t :
         o = job.owner /\ D = dir[o] /\ i = DirIndex(Pending.page) /\ t = NewFrame(used, first)
  OBVIOUS
<1>1. Busy /\ Reached(Directory) # {} /\ Allocate(used, first)
      /\ UNCHANGED <<paging, cr3, dir, job>>
  BY DEF AddTable
<1>2. PICK k \in Nat : CreatingStep(o, k)
  BY <1>0, <1>1, CreatingStepOK
<1>3. /\ halted = "no" /\ Lowest(used, first) /\ Reserved \subseteq used
      /\ Pending.page \in Pages /\ D \in Frames /\ o \in Live /\ job # Nobody
  BY <1>0, <1>2 DEF CreatingStep, Request
<1>4. t \in Frames /\ t \notin used /\ t \notin Reserved /\ used' = used \union {t}
  BY <1>0, <1>1, <1>3, TakenIsNew
<1>5. i \in Index /\ Live' = Live
  BY <1>0, <1>1, <1>3, IndexOK DEF Live
<1>6. FramesHaveOneUse /\ UsesOK /\ AllUsed /\ MemoryOK /\ IdentityOK /\ Progress
  BY DEF SpacesInv, PagingInv
<1>7. mem[D][i] = Absent
  BY <1>0, <1>2 DEF AddTable, CreatingStep
<1>8. CASE halted' = "hang"
  <2>1. UNCHANGED <<mem, dir>>
    BY <1>1, <1>8 DEF AddTable
  <2>2. \A p : SameSpace(p)
    BY <2>1 DEF SameSpace
  <2>3. \A p : SameMappings(p) /\ \A u : u \in Uses(p)' <=> u \in Uses(p)
    BY <2>2, SameSpaceMaps, SameSpaceUses
  <2>4. Gains(o, {})
    BY <1>4, <1>5, <2>3 DEF Gains
  <2>5. FramesHaveOneUse' /\ UsesOK'
    BY <1>6, <2>4, GainsOneUse
  <2>6. AllUsed'
    BY <1>8 DEF AllUsed
  <2>7. IdentityOK' /\ Progress'
    BY <1>0, <1>1, <1>3, <1>4, <1>5, <1>6, <2>3, SameIdentity, SameProgress
  <2> QED BY <2>5, <2>6, <2>7
<1>9. CASE halted' # "hang"
  <2>1. mem' = [mem EXCEPT ![t] = Empty, ![D][i] = TableEntry(t)]
    <3>1. PICK d \in Reached(Directory), cleared \in Reached(t) :
              mem' = [mem EXCEPT ![cleared] = Empty, ![d][i] = TableEntry(t)]
      BY <1>0, <1>9 DEF AddTable
    <3>2. d = D /\ cleared = t
      BY <1>0, <1>2 DEF CreatingStep
    <3> QED BY <3>1, <3>2
  <2>2. D \in used /\ t # D
    BY <1>0, <1>3, <1>4, <1>6, Apart
  <2>3. /\ \A f \in Frames : f # t /\ f # D => mem'[f] = mem[f]
        /\ mem'[t] = Empty
        /\ mem'[D][i] = TableEntry(t)
        /\ \A j \in Index : j # i => mem'[D][j] = mem[D][j]
    BY <1>3, <1>4, <1>5, <1>6, <2>1, <2>2 DEF MemoryOK
  <2>4. \A p \in Live : dir[p] \in Frames
    BY DEF SpacesInv, PagingInv, DirOK, Live
  <2>5. ASSUME NEW p \in Live, NEW j \in Index, mem[dir[p]][j] # Absent
        PROVE  /\ mem[dir[p]][j].frame \in Frames /\ mem[dir[p]][j].frame \in used
               /\ mem[dir[p]][j].frame # t /\ mem[dir[p]][j].frame # D
    <3>1. mem[dir[p]][j] \in Entry
      BY <1>6, <2>4, <2>5 DEF MemoryOK
    <3>2. mem[dir[p]][j].frame \in used /\ mem[dir[p]][j].frame # D
      BY <1>0, <1>3, <1>6, <2>5, Apart
    <3> QED BY <1>4, <3>1, <3>2 DEF Entry
  <2>6. ASSUME NEW p \in Live, p # o
        PROVE  SameSpace(p)
    <3>1. dir[p] \in Frames /\ dir[p] # t /\ dir[p] # D
      BY <1>0, <1>3, <1>4, <1>6, <2>4, <2>6, Apart
    <3>2. mem'[dir[p]] = mem[dir[p]]
      BY <2>3, <3>1
    <3>3. \A j \in Index : mem[dir[p]][j] # Absent =>
              mem'[mem[dir[p]][j].frame] = mem[mem[dir[p]][j].frame]
      BY <2>3, <2>5
    <3> QED BY <1>1, <3>2, <3>3 DEF SameSpace
  <2>7. SameMappings(o)
    <3> SUFFICES ASSUME NEW r \in Pages PROVE Translate(dir[o], r)' = Translate(dir[o], r)
      BY DEF SameMappings
    <3>1. DirIndex(r) \in Index /\ TableIndex(r) \in Index
      BY IndexOK
    <3>2. dir'[o] = D
      BY <1>0, <1>1
    <3>3. CASE DirIndex(r) = i
      <4>1. Translate(dir[o], r) = Absent
        BY <1>0, <1>7, <3>3 DEF Translate
      <4>2. mem'[D][DirIndex(r)] = TableEntry(t) /\ TableEntry(t) # Absent
            /\ TableEntry(t).frame = t
        <5>1. TableEntry(t) \in Entry
          BY <1>4 DEF TableEntry, Entry
        <5> QED BY <2>3, <3>3, <5>1, LayoutAssumption DEF TableEntry
      <4>3. mem'[t][TableIndex(r)] = Absent
        BY <2>3, <3>1 DEF Empty
      <4>4. Translate(dir[o], r)' = Absent
        BY <3>2, <4>2, <4>3 DEF Translate, DirIndex, TableIndex
      <4> QED BY <4>1, <4>4
    <3>4. CASE DirIndex(r) # i
      <4>1. mem'[D][DirIndex(r)] = mem[D][DirIndex(r)]
        BY <2>3, <3>1, <3>4
      <4>2. CASE mem[D][DirIndex(r)] = Absent
        BY <1>0, <3>2, <4>1, <4>2 DEF Translate, DirIndex, TableIndex
      <4>3. CASE mem[D][DirIndex(r)] # Absent
        <5>1. mem'[mem[D][DirIndex(r)].frame] = mem[mem[D][DirIndex(r)].frame]
          BY <1>0, <1>3, <2>3, <2>5, <3>1, <4>3
        <5> QED BY <1>0, <3>2, <4>1, <4>3, <5>1 DEF Translate, DirIndex, TableIndex
      <4> QED BY <4>2, <4>3
    <3> QED BY <3>3, <3>4
  <2>8. \A p \in Live : SameMappings(p)
    BY <2>6, <2>7, SameSpaceMaps
  <2> DEFINE new == [frame |-> t, kind |-> "table", at |-> i]
  <2>9. \A u : u \in Uses(o)' <=> u \in Uses(o) \/ u = new
    <3> SUFFICES ASSUME NEW u PROVE u \in Uses(o)' <=> u \in Uses(o) \/ u = new
      OBVIOUS
    <3>1. DirectoryUse(o, u)' <=> DirectoryUse(o, u)
      BY <1>1 DEF DirectoryUse
    <3>2. PageUse(o, u)' <=> PageUse(o, u)
      BY <2>7 DEF PageUse, SameMappings, Pages
    <3>3. TableUse(o, u)' <=> TableUse(o, u) \/ u = new
      <4>1. TableEntry(t) # Absent /\ TableEntry(t).frame = t
        <5>1. TableEntry(t) \in Entry
          BY <1>4 DEF TableEntry, Entry
        <5> QED BY <5>1, LayoutAssumption DEF TableEntry
      <4>2. TableUse(o, u)' <=> \E j \in Index : /\ mem'[D][j] # Absent
                     /\ u = [frame |-> mem'[D][j].frame, kind |-> "table", at |-> j]
        BY <1>0, <1>1 DEF TableUse, Index
      <4>3. TableUse(o, u) <=> \E j \in Index : /\ mem[D][j] # Absent
                     /\ u = [frame |-> mem[D][j].frame, kind |-> "table", at |-> j]
        BY <1>0 DEF TableUse
      <4> QED BY <1>5, <1>7, <2>3, <4>1, <4>2, <4>3
    <3> QED BY <3>1, <3>2, <3>3, UsesAre
  <2>10. Gains(o, {new})
    <3>1. new.frame = t
      OBVIOUS
    <3>2. \A p \in Live : p # o => \A u : u \in Uses(p)' <=> u \in Uses(p)
      BY <2>6, SameSpaceUses
    <3> HIDE DEF new
    <3>3. \A p \in Live' : \A u : u \in Uses(p)' =>
              (p \in Live /\ u \in Uses(p)) \/ (p = o /\ u \in {new})
      BY <1>5, <2>9, <3>2
    <3>4. \A p \in Live : p \in Live' /\ \A u \in Uses(p) : u \in Uses(p)'
      BY <1>5, <2>9, <3>2
    <3> QED BY <1>4, <3>1, <3>3, <3>4 DEF Gains
  <2>11. FramesHaveOneUse' /\ UsesOK'
    BY <1>6, <2>10, GainsOneUse
  <2>12. AllUsed'
    <3>1. new.frame = t /\ new \in Uses(o)' /\ o \in Live'
      BY <1>3, <1>5, <2>9
    <3> HIDE DEF new
    <3> QED BY <1>3, <1>4, <1>6, <2>10, <3>1, GainsAllUsed
  <2>13. IdentityOK' /\ Progress'
    BY <1>0, <1>1, <1>3, <1>4, <1>5, <1>6, <2>8, SameIdentity, SameProgress
  <2> QED BY <2>11, <2>12, <2>13
<1> QED BY <1>8, <1>9

(* paging_map_identity and paging_map: the page had no entry, so none is   *)
(* given back.  e is the entry written, R the use that begins.             *)
Writes(page, e, R) ==
    /\ e \in Entry /\ halted' \in {"no", "hang"} /\ used \subseteq used'
    /\ Pending.identity =>
          /\ e.frame = page /\ (e.user <=> Pending.user)
          /\ R = {} /\ used' = used /\ halted' = "no"
    /\ ~Pending.identity =>
          /\ R = {[frame |-> e.frame, kind |-> "page", at |-> page]}
          /\ e.frame \notin used /\ e.frame \notin Reserved
          /\ used' = used \union {e.frame}

OldFrames(t, at) == IF mem[t][at] = Absent THEN {} ELSE {mem[t][at].frame}
EntryWritten(t, at, e) == mem' = [mem EXCEPT ![t][at] = e]
IdentityEntry == [frame |-> Pending.page, user |-> Pending.user, write |-> FALSE]
WritesIdentity(t, at, u, b) ==
    /\ used' = u /\ first' = b /\ halted' = halted
    /\ EntryWritten(t, at, IdentityEntry)
WritesFresh(t, at, u, b) ==
    Allocate(u, b) /\ EntryWritten(t, at, TableEntry(NewFrame(u, b)))
WritesEntry(t, at, old) ==
    IF Pending.identity
    THEN WritesIdentity(t, at, used \ old, LowerFirst(first, old))
    ELSE WritesFresh(t, at, used \ old, LowerFirst(first, old))

WrittenAt(t, at, page) == \E e, R : EntryWritten(t, at, e) /\ Writes(page, e, R)

LEMMA MapPageWrites ==
    ASSUME SpacesInv, NothingElseReached, MapPage,
           NEW o, NEW D, NEW page, NEW i, NEW at, NEW T,
           o = job.owner, D = dir[o], page = Pending.page,
           i = DirIndex(page), at = TableIndex(page), T = mem[D][i].frame
    PROVE  /\ mem[D][i] # Absent /\ mem[T][at] = Absent
           /\ WrittenAt(T, at, page)
<1>1. Busy /\ Reached(Directory) # {}
  BY DEF MapPage
<1>2. PICK k \in Nat : CreatingStep(o, k)
  BY <1>1, CreatingStepOK
<1>3. \E d \in Reached(Directory) :
        /\ mem[d][DirIndex(Pending.page)] # Absent
        /\ \E t \in Reached(mem[d][DirIndex(Pending.page)].frame) :
              WritesEntry(t, TableIndex(Pending.page), OldFrames(t, TableIndex(Pending.page)))
  BY DEF MapPage, WritesEntry, WritesIdentity, WritesFresh, OldFrames, EntryWritten,
         IdentityEntry
<1>4. \E d \in Reached(Directory) :
        mem[d][i] # Absent /\ \E t \in Reached(mem[d][i].frame) : WritesEntry(t, at, OldFrames(t, at))
  BY <1>3
<1>5. (\A f : Reached(f) = {f}) /\ Directory = D
  BY <1>2 DEF CreatingStep
<1>6. mem[D][i] # Absent /\ WritesEntry(T, at, OldFrames(T, at))
  BY <1>4, <1>5
<1>8. mem[T][at] = Absent
  <2>1. Translate(dir[o], page) = Absent
    BY <1>2 DEF CreatingStep, Mapped
  <2> QED BY <1>6, <2>1 DEF Translate
<1>9. OldFrames(T, at) = {}
  BY <1>8 DEF OldFrames
<1>10. /\ halted = "no" /\ Lowest(used, first) /\ Reserved \subseteq used
       /\ Pending \in Request /\ page \in Pages
  BY <1>2 DEF CreatingStep, Request
<1>11. PICK b : b = LowerFirst(first, {})
  OBVIOUS
<1>12. Lowest(used, b) /\ used \ {} = used
  <2>1. used \ {} = used
    OBVIOUS
  <2>2. {} \in SUBSET Frames
    OBVIOUS
  <2>3. Lowest(used \ {}, LowerFirst(first, {}))
    BY <1>10, <2>2, ReleaseKeepsLowest
  <2> QED BY <1>11, <2>1, <2>3
<1>13. IF Pending.identity THEN WritesIdentity(T, at, used, b) ELSE WritesFresh(T, at, used, b)
  BY <1>6, <1>9, <1>11, <1>12 DEF WritesEntry
<1>14. CASE Pending.identity
  <2>0. WritesIdentity(T, at, used, b)
    BY <1>13, <1>14
  <2>1. PICK e : e = IdentityEntry
    OBVIOUS
  <2>2. used' = used /\ halted' = "no" /\ EntryWritten(T, at, e)
    BY <1>10, <2>0, <2>1 DEF WritesIdentity
  <2>3. e \in Entry /\ e.frame = page /\ e.user = Pending.user
    BY <1>10, <2>1, FramesArePages DEF Entry, Request, IdentityEntry
  <2>4. Writes(page, e, {})
    BY <1>14, <2>2, <2>3 DEF Writes
  <2> QED BY <1>6, <1>8, <2>2, <2>4 DEF WrittenAt
<1>15. CASE ~Pending.identity
  <2>0. WritesFresh(T, at, used, b)
    BY <1>13, <1>15
  <2>1. PICK f, e, r : /\ f = NewFrame(used, b) /\ e = TableEntry(f)
                       /\ r = [frame |-> e.frame, kind |-> "page", at |-> page]
    OBVIOUS
  <2>2. Allocate(used, b) /\ EntryWritten(T, at, e)
    BY <2>0, <2>1 DEF WritesFresh
  <2>3. f \in Frames /\ f \notin used
    BY <1>12, <2>1, NewFrameIsFree
  <2>4. used' = used \union {f} /\ halted' \in {"no", "hang"}
    BY <1>10, <1>12, <2>1, <2>2, AllocateKeepsLowest
  <2>5. e \in Entry /\ e.frame = f
    BY <2>1, <2>3 DEF TableEntry, Entry
  <2>6. Writes(page, e, {r})
    <3>1. f \notin Reserved
      BY <1>10, <2>3
    <3> QED BY <1>15, <2>1, <2>3, <2>4, <2>5, <3>1 DEF Writes
  <2> QED BY <1>6, <1>8, <2>2, <2>6 DEF WrittenAt
<1> QED BY <1>14, <1>15

(* Which page the step maps, and where the kernel part ends.               *)
LEMMA PendingMapping ==
    ASSUME NEW o, NEW k \in Nat, CreatingStep(o, k)
    PROVE  /\ Pending.page \in Pages
           /\ Pending.identity <=> k + 1 <= Len(IdentityPages)
           /\ Pending.identity <=> Pending.page \in Range(IdentityPages)
           /\ \A n \in 1..Len(IdentityPages) : IdentityPages[n] = Pending.page =>
                  n = k + 1 /\ (Pending.user <=> n > Len(Image))
           /\ \A n \in 1..Len(ProcessMappings(o)) :
                  ProcessMappings(o)[n].page = Pending.page => n = k + 1
           /\ k + 1 \in 1..Len(ProcessMappings(o))
<1> DEFINE M == ProcessMappings(o)
           nk == Len(IdentityPages)
<1>1. /\ Len(M) \in Nat /\ nk \in Nat /\ nk <= Len(M)
      /\ \A n \in 1..nk : KernelMapping(M[n], n)
      /\ \A n \in 1..Len(M) :
          /\ M[n].page \in Pages
          /\ n > nk => ~M[n].identity /\ M[n].page \notin Range(IdentityPages)
      /\ \A n, m \in 1..Len(M) : M[n].page = M[m].page => n = m
  BY MappingsAt, IdentityPagesOK DEF MappingsOf
<1>2. Pending = M[k + 1] /\ k \in 0..(Len(M) - 1)
  BY DEF CreatingStep
<1> HIDE DEF M, nk
<1>3. k + 1 \in 1..Len(M)
  BY <1>1, <1>2
<1>4. Pending.page \in Pages
  BY <1>1, <1>2, <1>3
<1>5. ASSUME k + 1 <= nk PROVE Pending.identity /\ Pending.page \in Range(IdentityPages)
  <2>1. KernelMapping(Pending, k + 1) /\ k + 1 \in 1..nk
    BY <1>1, <1>2, <1>3, <1>5
  <2>2. Pending.identity /\ Pending.page = IdentityPages[k + 1]
    BY <2>1 DEF KernelMapping
  <2>3. Pending.page \in Range(IdentityPages)
    BY <2>1, <2>2, IdentityPagesOK DEF Range, nk
  <2> QED BY <2>2, <2>3
<1>6. ASSUME ~(k + 1 <= nk) PROVE ~Pending.identity /\ Pending.page \notin Range(IdentityPages)
  <2>1. k + 1 > nk
    BY <1>1, <1>6
  <2>2. ~M[k + 1].identity /\ M[k + 1].page \notin Range(IdentityPages)
    BY <1>1, <1>3, <2>1
  <2> QED BY <1>2, <2>2
<1>7. \A n \in 1..Len(M) : M[n].page = Pending.page => n = k + 1
  BY <1>1, <1>2, <1>3
<1>8. ASSUME NEW n \in 1..nk, IdentityPages[n] = Pending.page
      PROVE  n = k + 1 /\ (Pending.user <=> n > Len(Image))
  <2>1. KernelMapping(M[n], n) /\ n \in 1..Len(M)
    BY <1>1
  <2>2. M[n].page = Pending.page
    BY <1>8, <2>1 DEF KernelMapping
  <2>3. n = k + 1
    BY <1>7, <2>1, <2>2
  <2>4. KernelMapping(Pending, n)
    BY <1>2, <2>1, <2>3
  <2> QED BY <2>3, <2>4 DEF KernelMapping
<1> QED BY <1>3, <1>4, <1>5, <1>6, <1>7, <1>8 DEF M, nk

(* A write to one table of o concerns nobody else, and one page of o.      *)
TableWritten(o, page, e) ==
    /\ \A p \in Live : p # o => SameSpace(p)
    /\ \A r \in Pages : r # page => Translate(dir[o], r)' = Translate(dir[o], r)
    /\ Translate(dir[o], page)' = e
    /\ \A u : TableUse(o, u)' <=> TableUse(o, u)

LEMMA EntryEffect ==
    ASSUME SpacesInv, UNCHANGED dir, NEW o \in Live, NEW page \in Pages, NEW e \in Entry,
           NEW D, NEW i, NEW at, NEW T,
           D = dir[o], i = DirIndex(page), at = TableIndex(page), T = mem[D][i].frame,
           mem[D][i] # Absent, EntryWritten(T, at, e)
    PROVE  TableWritten(o, page, e)
<1>1. FramesHaveOneUse /\ UsesOK /\ MemoryOK
  BY DEF SpacesInv, PagingInv
<1>2. \A p \in Live : dir[p] \in Frames
  BY DEF SpacesInv, PagingInv, DirOK, Live
<1>3. i \in Index /\ at \in Index /\ D \in Frames
  BY <1>2, IndexOK
<1>4. ASSUME NEW p \in Live, NEW j \in Index, mem[dir[p]][j] # Absent
      PROVE  /\ mem[dir[p]][j].frame \in Frames
             /\ mem[dir[p]][j].frame # D
             /\ mem[dir[p]][j].frame = T => p = o /\ j = i
  <2>1. mem[dir[p]][j] \in Entry
    BY <1>1, <1>2, <1>4 DEF MemoryOK
  <2>2. mem[dir[p]][j].frame \in Frames
    BY <2>1 DEF Entry
  <2> QED BY <1>1, <1>3, <1>4, <2>2, Apart
<1>5. T \in Frames
  BY <1>3, <1>4
<1>6. /\ \A f \in Frames : f # T => mem'[f] = mem[f]
      /\ mem'[T][at] = e
      /\ \A j \in Index : j # at => mem'[T][j] = mem[T][j]
  BY <1>1, <1>3, <1>5 DEF EntryWritten, MemoryOK
<1>7. ASSUME NEW p \in Live
      PROVE  dir[p] # T
  BY <1>1, <1>3, Apart
<1>8. ASSUME NEW p \in Live, p # o
      PROVE  SameSpace(p)
  <2>1. mem'[dir[p]] = mem[dir[p]]
    BY <1>2, <1>6, <1>7
  <2>2. \A j \in Index : mem[dir[p]][j] # Absent =>
            mem'[mem[dir[p]][j].frame] = mem[mem[dir[p]][j].frame]
    BY <1>4, <1>6, <1>8
  <2> QED BY <2>1, <2>2 DEF SameSpace
<1>9. mem'[D] = mem[D] /\ dir'[o] = D
  BY <1>3, <1>6, <1>7
<1>10. Translate(dir[o], page)' = e
  <2>1. mem'[D][i] = mem[D][i] /\ mem'[T][at] = e
    BY <1>6, <1>9
  <2> QED BY <1>9, <2>1 DEF Translate, DirIndex, TableIndex
<1>11. ASSUME NEW r \in Pages, r # page
       PROVE  Translate(dir[o], r)' = Translate(dir[o], r)
  <2>1. DirIndex(r) \in Index /\ TableIndex(r) \in Index
    BY IndexOK
  <2>2. mem'[D][DirIndex(r)] = mem[D][DirIndex(r)]
    BY <1>9
  <2>3. CASE mem[D][DirIndex(r)] = Absent
    BY <1>9, <2>2, <2>3 DEF Translate, DirIndex, TableIndex
  <2>4. CASE mem[D][DirIndex(r)] # Absent
    <3> DEFINE t == mem[D][DirIndex(r)].frame
    <3>1. mem'[t][TableIndex(r)] = mem[t][TableIndex(r)]
      <4>1. CASE t # T
        BY <1>4, <1>6, <2>1, <2>4, <4>1
      <4>2. CASE t = T
        <5>1. DirIndex(r) = i
          BY <1>4, <2>1, <2>4, <4>2
        <5>2. TableIndex(r) # at
          BY <1>11, <5>1, SlotIsPage
        <5> QED BY <1>6, <2>1, <4>2, <5>2
      <4> QED BY <4>1, <4>2
    <3>2. Translate(dir[o], r) = mem[t][TableIndex(r)]
      BY <2>4 DEF Translate
    <3>3. Translate(dir[o], r)' = mem'[t][TableIndex(r)]
      BY <1>9, <2>2, <2>4 DEF Translate, DirIndex, TableIndex
    <3> QED BY <3>1, <3>2, <3>3
  <2> QED BY <2>3, <2>4
<1>12. \A u : TableUse(o, u)' <=> TableUse(o, u)
  BY <1>9 DEF TableUse, Index
<1> QED BY <1>8, <1>10, <1>11, <1>12 DEF TableWritten

(* The uses after it: a page of the process's own is one more.             *)
LEMMA MapPageGains ==
    ASSUME NEW o \in Live, NEW page \in Pages, NEW e \in Entry, NEW R, UNCHANGED dir,
           TableWritten(o, page, e), Writes(page, e, R), Translate(dir[o], page) = Absent,
           Pending.identity <=> page \in Range(IdentityPages)
    PROVE  Gains(o, R) /\ \A r \in R : r \in Uses(o)'
<1>1. Live' = Live
  BY DEF Live
<1>2. e # Absent
  BY LayoutAssumption
<1>3. \A u : PageUse(o, u)' <=> PageUse(o, u) \/ u \in R
  <2> SUFFICES ASSUME NEW u PROVE PageUse(o, u)' <=> PageUse(o, u) \/ u \in R
    OBVIOUS
  <2>1. PageUse(o, u)' <=>
          \E r \in Pages : /\ r \notin Range(IdentityPages) /\ Translate(dir[o], r)' # Absent
                           /\ u = [frame |-> Translate(dir[o], r)'.frame, kind |-> "page", at |-> r]
    BY DEF PageUse, Pages, IdentityPages
  <2>2. \A r \in Pages : r # page => Translate(dir[o], r)' = Translate(dir[o], r)
    BY DEF TableWritten
  <2>3. Translate(dir[o], page)' = e
    BY DEF TableWritten
  <2>4. CASE page \in Range(IdentityPages)
    <3>1. R = {}
      BY <2>4 DEF Writes
    <3> QED BY <2>1, <2>2, <2>4, <3>1 DEF PageUse
  <2>5. CASE page \notin Range(IdentityPages)
    <3>1. R = {[frame |-> e.frame, kind |-> "page", at |-> page]}
      BY <2>5 DEF Writes
    <3> QED BY <1>2, <2>1, <2>2, <2>3, <2>5, <3>1 DEF PageUse
  <2> QED BY <2>4, <2>5
<1>4. \A u : DirectoryUse(o, u)' <=> DirectoryUse(o, u)
  BY DEF DirectoryUse
<1>5. \A u : u \in Uses(o)' <=> u \in Uses(o) \/ u \in R
  BY <1>3, <1>4, UsesAre DEF TableWritten
<1>6. \A p \in Live : p # o => \A u : u \in Uses(p)' <=> u \in Uses(p)
  BY SameSpaceUses DEF TableWritten
<1>7. \A r \in R : r.frame \notin used /\ r.frame \notin Reserved /\ r.frame \in used'
  <2>1. CASE Pending.identity
    BY <2>1 DEF Writes
  <2>2. CASE ~Pending.identity
    BY <2>2 DEF Writes
  <2> QED BY <2>1, <2>2
<1>8. \A r, s \in R : r = s
  <2>1. CASE Pending.identity
    BY <2>1 DEF Writes
  <2>2. CASE ~Pending.identity
    BY <2>2 DEF Writes
  <2> QED BY <2>1, <2>2
<1>9. used \subseteq used'
  BY DEF Writes
<1> QED BY <1>1, <1>5, <1>6, <1>7, <1>8, <1>9 DEF Gains

LEMMA MapPageIdentity ==
    ASSUME IdentityOK, NEW o, NEW k \in Nat, CreatingStep(o, k), UNCHANGED dir,
           NEW page, page = Pending.page, NEW e, NEW R,
           TableWritten(o, page, e), Writes(page, e, R)
    PROVE  IdentityOK'
<1> SUFFICES ASSUME NEW p \in Live', NEW n \in DOMAIN IdentityPages,
                    Translate(dir[p], IdentityPages[n])' # Absent
             PROVE  LET entry == Translate(dir[p], IdentityPages[n])' IN
                    entry.frame = IdentityPages[n] /\ (entry.user <=> n > Len(Image))
  BY DEF IdentityOK, IdentityPages
<1>1. p \in Live
  BY DEF Live
<1>2. n \in 1..Len(IdentityPages) /\ IdentityPages[n] \in Pages
      /\ IdentityPages[n] \in Range(IdentityPages)
  BY IdentityPagesOK, LenProperties DEF Range
<1>3. CASE p = o /\ IdentityPages[n] = page
  <2>1. Pending.identity /\ (Pending.user <=> n > Len(Image))
    BY <1>2, <1>3, PendingMapping
  <2>2. Translate(dir[p], IdentityPages[n])' = e
    <3>1. Translate(dir[o], page)' = e
      BY DEF TableWritten
    <3> QED BY <1>3, <3>1 DEF IdentityPages
  <2>3. e.frame = page /\ (e.user <=> Pending.user)
    BY <2>1 DEF Writes
  <2> QED BY <1>3, <2>1, <2>2, <2>3
<1>4. CASE ~(p = o /\ IdentityPages[n] = page)
  <2>1. Translate(dir[p], IdentityPages[n])' = Translate(dir[p], IdentityPages[n])
    <3>1. CASE p # o
      <4>1. SameMappings(p)
        BY <1>1, <3>1, SameSpaceMaps DEF TableWritten
      <4> QED BY <4>1, SameMapped
    <3>2. CASE p = o
      BY <1>2, <1>4, <3>2 DEF TableWritten, IdentityPages
    <3> QED BY <3>1, <3>2
  <2> QED BY <1>1, <2>1 DEF IdentityOK
<1> QED BY <1>3, <1>4

LEMMA TailRemaining ==
    ASSUME NEW o, NEW k \in Nat, NEW todo \in Seq(Request), Remaining(o, k, todo), todo # <<>>,
           k + 1 \in 1..Len(ProcessMappings(o))
    PROVE  /\ Remaining(o, k + 1, Tail(todo))
           /\ Tail(todo) = <<>> <=> k + 1 = Len(ProcessMappings(o))
           /\ InKernelPart(Tail(todo)) => k + 2 <= Len(IdentityPages)
           /\ k + 2 <= Len(IdentityPages) => InKernelPart(Tail(todo))
<1> DEFINE M == ProcessMappings(o)
           nk == Len(IdentityPages)
           rest == Tail(todo)
<1>1. /\ Len(M) \in Nat /\ nk \in Nat /\ nk <= Len(M)
      /\ \A n \in 1..nk : KernelMapping(M[n], n)
      /\ \A n \in 1..Len(M) : n > nk => ~M[n].identity
  BY MappingsAt, IdentityPagesOK DEF MappingsOf
<1>2. Len(todo) = Len(M) - k /\ \A n \in 1..Len(todo) : todo[n] = M[k + n]
  BY DEF Remaining
<1>3. /\ rest \in Seq(Request) /\ Len(rest) = Len(todo) - 1
      /\ \A n \in 1..Len(rest) : rest[n] = todo[n + 1]
  BY HeadTailProperties
<1>4. Len(rest) \in Nat /\ Len(todo) \in Nat
  BY <1>3, LenProperties
<1>5. (rest = <<>>) <=> (Len(rest) = 0)
  BY <1>3, EmptySeq, LenProperties
<1>6. rest # <<>> => Head(rest) = rest[1]
  BY <1>3, HeadTailProperties
<1>7. k + 1 \in 1..Len(M)
  OBVIOUS
<1>8. InKernelPart(rest) <=> rest # <<>> /\ Head(rest).identity
  BY DEF InKernelPart
<1>9. Remaining(o, k + 1, rest) <=>
        Len(rest) = Len(M) - (k + 1) /\ \A n \in 1..Len(rest) : rest[n] = M[k + 1 + n]
  BY DEF Remaining
<1> HIDE DEF M, nk, rest
<1>10. Len(rest) = Len(M) - (k + 1)
  BY <1>1, <1>2, <1>3
<1>11. ASSUME NEW n \in 1..Len(rest) PROVE rest[n] = M[k + 1 + n]
  <2>1. n + 1 \in 1..Len(todo) /\ k + (n + 1) = k + 1 + n
    BY <1>3, <1>4
  <2>2. rest[n] = todo[n + 1] /\ todo[n + 1] = M[k + (n + 1)]
    BY <1>2, <1>3, <2>1
  <2> QED BY <2>1, <2>2
<1>12. (rest = <<>>) <=> (k + 1 = Len(M))
  BY <1>1, <1>5, <1>10
<1>13. ASSUME rest # <<>>
       PROVE  Head(rest) = M[k + 2] /\ k + 2 \in 1..Len(M)
  <2>1. 1 \in 1..Len(rest) /\ k + 2 \in 1..Len(M) /\ k + 1 + 1 = k + 2
    BY <1>1, <1>4, <1>5, <1>7, <1>10, <1>13
  <2> QED BY <1>6, <1>11, <1>13, <2>1
<1>14. ASSUME rest # <<>>, Head(rest).identity
       PROVE  k + 2 <= nk
  BY <1>1, <1>13, <1>14
<1>15. ASSUME k + 2 <= nk
       PROVE  rest # <<>> /\ Head(rest).identity
  <2>1. rest # <<>>
    BY <1>1, <1>12, <1>15
  <2>2. k + 2 \in 1..nk
    BY <1>15
  <2> QED BY <1>1, <1>13, <2>1, <2>2 DEF KernelMapping
<1>16. Remaining(o, k + 1, rest)
  BY <1>9, <1>10, <1>11
<1>17. InKernelPart(rest) => k + 2 <= nk
  BY <1>8, <1>14
<1>18. k + 2 <= nk => InKernelPart(rest)
  BY <1>8, <1>15
<1> QED BY <1>12, <1>16, <1>17, <1>18 DEF M, nk, rest

LEMMA MapPageBuilds ==
    ASSUME NEW o, NEW k \in Nat, CreatingStep(o, k), NEW e \in Entry, UNCHANGED dir,
           NEW page, page = Pending.page, TableWritten(o, page, e)
    PROVE  Built(o, k)' /\ Built(o, k + 1)' /\ Unbuilt(o, k + 1)'
<1> DEFINE M == ProcessMappings(o)
<1>1. Len(M) \in Nat /\ \A n \in 1..Len(M) : M[n].page \in Pages
  BY MappingsAt DEF MappingsOf
<1>2. /\ Pending = M[k + 1] /\ k + 1 \in 1..Len(M)
      /\ \A n \in 1..Len(M) : M[n].page = page => n = k + 1
  BY PendingMapping DEF CreatingStep
<1>3. Built(o, k) /\ Unbuilt(o, k)
  BY DEF CreatingStep, Creating
<1>4. e # Absent
  BY LayoutAssumption
<1>5. ASSUME NEW n \in 1..Len(M)
      PROVE  /\ n # k + 1 => (Mapped(o, M[n].page)' <=> Mapped(o, M[n].page))
             /\ n = k + 1 => Mapped(o, M[n].page)'
  <2>1. CASE n # k + 1
    <3>1. M[n].page \in Pages /\ M[n].page # page
      BY <1>1, <1>2, <2>1
    <3>2. \A r \in Pages : r # page => Translate(dir[o], r)' = Translate(dir[o], r)
      BY DEF TableWritten
    <3> QED BY <2>1, <3>1, <3>2 DEF Mapped, ProcessMappings, KernelMappings, Identity, Fresh
  <2>2. CASE n = k + 1
    <3>1. M[n].page = page
      BY <1>2, <2>2
    <3>2. Translate(dir[o], page)' = e
      BY DEF TableWritten
    <3>3. M[n].page' = M[n].page
      BY DEF ProcessMappings, KernelMappings, Identity, Fresh
    <3> QED BY <1>4, <2>2, <3>1, <3>2, <3>3 DEF Mapped
  <2> QED BY <2>1, <2>2
<1>6. \A j : Built(o, j)' <=> \A n \in 1..j : Mapped(o, M[n].page)'
  BY DEF Built, ProcessMappings, KernelMappings, Identity, Fresh
<1>7. Unbuilt(o, k + 1)' <=> \A n \in (k + 1 + 1)..Len(M) : ~Mapped(o, M[n].page)'
  BY DEF Unbuilt, ProcessMappings, KernelMappings, Identity, Fresh
<1>8. \A n \in 1..k : Mapped(o, M[n].page)
  BY <1>3 DEF Built
<1>9. \A n \in (k + 1)..Len(M) : ~Mapped(o, M[n].page)
  BY <1>3 DEF Unbuilt
<1> HIDE DEF M
<1>10. \A n \in 1..k : n \in 1..Len(M) /\ n # k + 1
  BY <1>1, <1>2
<1>11. \A n \in (k + 1 + 1)..Len(M) : n \in (k + 1)..Len(M) /\ n \in 1..Len(M) /\ n # k + 1
  BY <1>1, <1>2
<1>12. Built(o, k)'
  BY <1>5, <1>6, <1>8, <1>10
<1>13. \A n \in 1..(k + 1) : n \in 1..k \/ n = k + 1
  OBVIOUS
<1>14. Built(o, k + 1)'
  BY <1>2, <1>5, <1>6, <1>8, <1>10, <1>13
<1>15. Unbuilt(o, k + 1)'
  BY <1>5, <1>7, <1>9, <1>11
<1> QED BY <1>12, <1>14, <1>15

LEMMA MapPageProgress ==
    ASSUME Progress, MapPage, NEW o, NEW k \in Nat, CreatingStep(o, k), NEW e \in Entry, NEW R,
           NEW page, page = Pending.page, TableWritten(o, page, e), Writes(page, e, R)
    PROVE  Progress'
<1> DEFINE M == ProcessMappings(o)
           nk == Len(IdentityPages)
           rest == Tail(job.todo)
<1>1. /\ o = job.owner /\ o \in Live /\ ~paging /\ (job.was <=> cr3 # Nobody)
      /\ Reserved \subseteq used /\ job \in Job /\ job # Nobody /\ job.todo # <<>>
      /\ cr3 \in Owners \union {Nobody} /\ halted = "no"
  BY DEF CreatingStep
<1>2. UNCHANGED <<cr3, dir>> /\ Live' = Live
  BY DEF MapPage, Live
<1>3. /\ used \subseteq used' /\ halted' \in {"no", "hang"}
  BY DEF Writes
<1>4. Built(o, k)' /\ Built(o, k + 1)' /\ Unbuilt(o, k + 1)'
  BY <1>2, MapPageBuilds
<1>5. ASSUME NEW p \in Live', p # o
      PROVE  Complete(p)'
  <2>1. SameMappings(p)
    BY <1>2, <1>5, SameSpaceMaps DEF TableWritten
  <2>2. Complete(p)
    BY <1>1, <1>2, <1>5 DEF Progress
  <2> QED BY <2>1, <2>2, SameBuilt
<1>6. /\ Len(M) \in Nat /\ nk \in Nat /\ nk >= 1 /\ nk <= Len(M) /\ k + 1 \in 1..Len(M)
      /\ Pending.identity <=> k + 1 <= nk
  BY MappingsAt, IdentityPagesOK, PendingMapping DEF MappingsOf
<1>7. (cr3 # Nobody) => k + 1 <= nk
  <2>1. paging <=> cr3 # Nobody /\ k >= nk
    BY DEF CreatingStep, Creating
  <2> QED BY <1>1, <1>6, <2>1
<1>8. Remaining(o, k, job.todo) /\ job.todo \in Seq(Request)
  BY <1>1 DEF CreatingStep, Creating, Job
<1>9. CASE halted' = "hang"
  <2>1. UNCHANGED <<paging, job>>
    BY <1>9 DEF MapPage
  <2>2. Creating(o, k)'
    <3>1. Remaining(o, k, job.todo)'
      BY <1>8, <2>1 DEF Remaining, ProcessMappings, KernelMappings, Identity, Fresh
    <3>2. (paging <=> cr3 # Nobody /\ k >= Len(IdentityPages))'
      BY <1>2, <2>1 DEF CreatingStep, Creating, IdentityPages
    <3> QED BY <1>4, <1>9, <3>1, <3>2 DEF Creating
  <2>3. k \in 0..(Len(M) - 1)
    BY DEF CreatingStep
  <2>4. \E j \in 0..(Len(ProcessMappings(job.owner))' - 1) : Creating(job.owner, j)'
    <3>1. Len(ProcessMappings(job.owner))' = Len(M)
      BY <1>1, <2>1 DEF ProcessMappings, KernelMappings, Identity, Fresh
    <3>2. Creating(job.owner, k)'
      BY <1>1, <2>1, <2>2
    <3> QED BY <2>3, <3>1, <3>2
  <2>5. job' # Nobody /\ (job'.was <=> cr3' # Nobody) /\ Reserved \subseteq used' /\ job'.owner = o
    BY <1>1, <1>2, <1>3, <2>1
  <2>6. \A p \in Live' : job' = Nobody \/ job'.owner # p => Complete(p)'
    BY <1>5, <2>5
  <2> QED BY <2>4, <2>5, <2>6 DEF Progress, Reserved
<1>10. CASE halted' # "hang"
  <2>1. Finish(rest)
    BY <1>10 DEF MapPage
  <2>2. /\ Remaining(o, k + 1, rest) /\ (rest = <<>> <=> k + 1 = Len(M))
        /\ InKernelPart(rest) => k + 2 <= nk
        /\ k + 2 <= nk => InKernelPart(rest)
    BY <1>6, <1>8, <1>1, TailRemaining
  <2>3. InKernelPart(job.todo) <=> k + 1 <= nk
    <3>1. Head(job.todo).identity <=> Pending.identity
      BY DEF Pending
    <3> QED BY <1>1, <1>6, <3>1 DEF InKernelPart
  <2>4. paging' <=> cr3 # Nobody /\ k + 1 >= nk
    <3>1. paging' = IF InKernelPart(job.todo) /\ ~InKernelPart(rest) THEN job.was ELSE paging
      BY <2>1 DEF Finish
    <3>2. CASE cr3 = Nobody
      <4>1. ~job.was /\ ~paging
        BY <1>1, <3>2
      <4>2. ~paging'
        BY <3>1, <4>1
      <4> QED BY <3>2, <4>2
    <3>3. CASE cr3 # Nobody /\ k + 2 <= nk
      <4>1. InKernelPart(rest) /\ ~(k + 1 >= nk)
        BY <1>6, <2>2, <3>3
      <4> QED BY <1>1, <3>1, <4>1
    <3>4. CASE cr3 # Nobody /\ ~(k + 2 <= nk)
      <4>1. InKernelPart(job.todo) /\ ~InKernelPart(rest) /\ k + 1 >= nk
        BY <1>6, <1>7, <2>2, <2>3, <3>4
      <4> QED BY <1>1, <3>1, <3>4, <4>1
    <3> QED BY <3>2, <3>3, <3>4
  <2>5. CASE rest = <<>>
    <3>1. job' = Nobody
      BY <2>1, <2>5 DEF Finish
    <3>2. Complete(o)'
      <4>1. Complete(o)' <=> Built(o, Len(M))'
        BY DEF Complete, ProcessMappings, KernelMappings, Identity, Fresh
      <4>2. k + 1 = Len(M)
        BY <2>2, <2>5
      <4> QED BY <1>4, <4>1, <4>2
    <3>3. paging' <=> cr3' # Nobody
      <4>1. k + 1 >= nk
        BY <1>6, <2>2, <2>5
      <4> QED BY <1>2, <2>4, <4>1
    <3> QED BY <1>2, <1>5, <3>1, <3>2, <3>3 DEF Progress
  <2>6. CASE rest # <<>>
    <3>1. job' = [job EXCEPT !.todo = rest]
      BY <2>1, <2>6 DEF Finish
    <3>2. job'.owner = o /\ job'.todo = rest /\ job'.was = job.was
      BY <1>1, <3>1 DEF Job
    <3>3. job' # Nobody
      <4>1. rest \in Seq(Request)
        BY <1>1, <1>8, HeadTailProperties
      <4>2. job' \in Job
        BY <1>1, <3>1, <4>1 DEF Job
      <4> QED BY <4>2, NoJobAssumption
    <3>4. Creating(o, k + 1)'
      <4>1. Remaining(o, k + 1, job.todo)'
        BY <2>2, <3>2 DEF Remaining, ProcessMappings, KernelMappings, Identity, Fresh
      <4>2. (paging <=> cr3 # Nobody /\ k + 1 >= Len(IdentityPages))'
        BY <1>2, <2>4 DEF IdentityPages
      <4> QED BY <1>4, <4>1, <4>2 DEF Creating
    <3>5. k + 1 \in 0..(Len(M) - 1)
      <4>1. k + 1 # Len(M)
        BY <2>2, <2>6
      <4>2. Len(M) \in Nat /\ k + 1 \in 1..Len(M)
        BY <1>6
      <4> HIDE DEF M
      <4> QED BY <4>1, <4>2
    <3>6. \E j \in 0..(Len(ProcessMappings(job.owner))' - 1) : Creating(job.owner, j)'
      <4>1. Len(ProcessMappings(job.owner))' = Len(M)
        BY <3>2 DEF ProcessMappings, KernelMappings, Identity, Fresh
      <4>2. Creating(job.owner, k + 1)'
        BY <3>2, <3>4
      <4> QED BY <3>5, <4>1, <4>2
    <3>7. (job'.was <=> cr3' # Nobody) /\ Reserved \subseteq used'
      BY <1>1, <1>2, <1>3, <3>2
    <3>8. \A p \in Live' : job' = Nobody \/ job'.owner # p => Complete(p)'
      BY <1>5, <3>2, <3>3
    <3> QED BY <3>3, <3>6, <3>7, <3>8 DEF Progress, Reserved
  <2> QED BY <2>5, <2>6
<1> QED BY <1>9, <1>10

LEMMA SpacesMapPage ==
    ASSUME SpacesInv, NothingElseReached, MapPage
    PROVE  FramesHaveOneUse' /\ UsesOK' /\ IdentityOK' /\ Progress' /\ AllUsed'
<1>1. PICK o, D, page, i, at, T :
         /\ o = job.owner /\ D = dir[o] /\ page = Pending.page
         /\ i = DirIndex(page) /\ at = TableIndex(page) /\ T = mem[D][i].frame
  OBVIOUS
<1>2. Busy /\ Reached(Directory) # {} /\ UNCHANGED dir
  BY DEF MapPage
<1>3. PICK k \in Nat : CreatingStep(o, k)
  BY <1>1, <1>2, CreatingStepOK
<1>4. mem[D][i] # Absent /\ mem[T][at] = Absent /\ WrittenAt(T, at, page)
  BY <1>1, MapPageWrites
<1>5. PICK e, R : EntryWritten(T, at, e) /\ Writes(page, e, R)
  BY <1>4 DEF WrittenAt
<1>6. e \in Entry /\ o \in Live /\ page \in Pages
      /\ (Pending.identity <=> page \in Range(IdentityPages))
  BY <1>1, <1>3, <1>5, PendingMapping DEF Writes, CreatingStep
<1>7. TableWritten(o, page, e)
  BY <1>1, <1>2, <1>4, <1>5, <1>6, EntryEffect
<1>8. Translate(dir[o], page) = Absent
  BY <1>1, <1>3 DEF CreatingStep, Mapped
<1>9. Gains(o, R) /\ \A r \in R : r \in Uses(o)'
  BY <1>2, <1>5, <1>6, <1>7, <1>8, MapPageGains
<1>10. FramesHaveOneUse' /\ UsesOK'
  BY <1>9, GainsOneUse DEF SpacesInv
<1>11. IdentityOK'
  BY <1>1, <1>2, <1>3, <1>5, <1>7, MapPageIdentity DEF SpacesInv
<1>12. Progress'
  BY <1>1, <1>3, <1>5, <1>6, <1>7, MapPageProgress DEF SpacesInv
<1>13. AllUsed'
  <2>1. halted = "no" /\ o \in Live'
    BY <1>2, <1>3, <1>6 DEF CreatingStep, Live
  <2>2. CASE Pending.identity
    <3>1. used' = used \union {}
      BY <1>5, <2>2 DEF Writes
    <3> QED BY <1>9, <2>1, <3>1, GainsAllUsed DEF SpacesInv
  <2>3. CASE ~Pending.identity
    <3>1. used' = used \union {e.frame} /\ \E r \in R : r.frame = e.frame
      <4>1. PICK r : r = [frame |-> e.frame, kind |-> "page", at |-> page]
        OBVIOUS
      <4>2. used' = used \union {e.frame} /\ R = {r}
        BY <1>5, <2>3, <4>1 DEF Writes
      <4>3. r.frame = e.frame
        BY <4>1
      <4> QED BY <4>2, <4>3
    <3>2. \A f \in {e.frame} : o \in Live' /\ \E r \in R : r.frame = f /\ r \in Uses(o)'
      BY <1>9, <2>1, <3>1
    <3> QED BY <1>9, <2>1, <3>1, <3>2, GainsAllUsed DEF SpacesInv
  <2> QED BY <2>2, <2>3
<1> QED BY <1>10, <1>11, <1>12, <1>13

(* A new directory is an empty space: no frame but its own is used.        *)
LEMMA SpacesCreate ==
    ASSUME SpacesInv, NEW p \in Owners, Create(p), Reserved \subseteq used
    PROVE  FramesHaveOneUse' /\ UsesOK' /\ IdentityOK' /\ Progress' /\ AllUsed'
<1>1. /\ halted = "no" /\ job = Nobody /\ Allocate(used, first) /\ UNCHANGED cr3
      /\ Reserved \subseteq used /\ dir[p] = Nobody
  BY DEF Create, Idle
<1>2. PICK d : d = NewFrame(used, first)
  OBVIOUS
<1>3. Lowest(used, first)
  BY <1>1 DEF SpacesInv, PagingInv, SearchOK
<1>4. d \in Frames /\ d \notin used /\ d \notin Reserved /\ used' = used \union {d}
  BY <1>1, <1>2, <1>3, TakenIsNew
<1>5. /\ FramesHaveOneUse /\ UsesOK /\ AllUsed /\ MemoryOK /\ IdentityOK /\ Progress
      /\ dir \in [Owners -> Frames \union {Nobody}]
  BY DEF SpacesInv, PagingInv, DirOK
<1>6. (\A q \in Live : Complete(q)) /\ (paging <=> cr3 # Nobody)
  BY <1>1, <1>5 DEF Progress
<1>7. CASE halted' = "hang"
  <2>1. UNCHANGED <<mem, paging, dir, job>> /\ Live' = Live
    BY <1>7 DEF Create, Live
  <2>2. \A q : SameSpace(q)
    BY <2>1 DEF SameSpace
  <2>3. \A q : SameMappings(q) /\ \A u : u \in Uses(q)' <=> u \in Uses(q)
    BY <2>2, SameSpaceMaps, SameSpaceUses
  <2>4. Gains(p, {})
    BY <1>4, <2>1, <2>3 DEF Gains
  <2>5. FramesHaveOneUse' /\ UsesOK'
    BY <1>5, <2>4, GainsOneUse
  <2>6. AllUsed'
    BY <1>7 DEF AllUsed
  <2>7. IdentityOK' /\ Progress'
    BY <1>1, <1>4, <1>5, <2>1, <2>3, SameIdentity, SameProgress
  <2> QED BY <2>5, <2>6, <2>7
<1>8. CASE halted' # "hang"
  <2>1. /\ mem' = [mem EXCEPT ![d] = Empty]
        /\ dir' = [dir EXCEPT ![p] = d]
        /\ job' = [owner |-> p, todo |-> ProcessMappings(p), was |-> paging]
        /\ paging' = FALSE
    BY <1>2, <1>8 DEF Create
  <2>2. d # Nobody
    BY <1>4, NobodyAssumption
  <2>3. /\ dir'[p] = d /\ \A q \in Owners : q # p => dir'[q] = dir[q]
        /\ mem'[d] = Empty /\ \A f \in Frames : f # d => mem'[f] = mem[f]
    BY <1>4, <1>5, <2>1 DEF MemoryOK
  <2>4. p \in Live' /\ p \notin Live /\ \A q : q \in Live' <=> q \in Live \/ q = p
    BY <1>1, <2>2, <2>3 DEF Live
  <2>5. ASSUME NEW q \in Live
        PROVE  SameSpace(q)
    <3>1. dir[q] \in Frames /\ q \in Owners /\ q # p
      BY <1>5, <2>4 DEF Live
    <3>2. dir[q] # d
      BY <1>4, <1>5, Apart
    <3>3. \A j \in Index : mem[dir[q]][j] # Absent =>
              mem'[mem[dir[q]][j].frame] = mem[mem[dir[q]][j].frame]
      <4> SUFFICES ASSUME NEW j \in Index, mem[dir[q]][j] # Absent
                   PROVE  mem'[mem[dir[q]][j].frame] = mem[mem[dir[q]][j].frame]
        OBVIOUS
      <4>1. mem[dir[q]][j] \in Entry
        BY <1>5, <3>1 DEF MemoryOK
      <4>2. mem[dir[q]][j].frame \in Frames
        BY <4>1 DEF Entry
      <4>3. mem[dir[q]][j].frame \in used
        BY <1>5, Apart
      <4> QED BY <1>4, <2>3, <4>2, <4>3
    <3> QED BY <2>3, <3>1, <3>2, <3>3 DEF SameSpace
  <2>6. \A q \in Live : SameMappings(q) /\ \A u : u \in Uses(q)' <=> u \in Uses(q)
    BY <2>5, SameSpaceMaps, SameSpaceUses
  <2>7. ASSUME NEW r \in Pages
        PROVE  Translate(dir[p], r)' = Absent
    <3>1. mem'[d][DirIndex(r)] = Absent
      BY <2>3, IndexOK DEF Empty
    <3> QED BY <2>3, <3>1 DEF Translate, DirIndex
  <2>8. PICK new : new = [frame |-> d, kind |-> "directory", at |-> 0]
    OBVIOUS
  <2>9. \A u : u \in Uses(p)' <=> u = new
    <3> SUFFICES ASSUME NEW u PROVE u \in Uses(p)' <=> u = new
      OBVIOUS
    <3>1. DirectoryUse(p, u)' <=> u = new
      BY <2>3, <2>8 DEF DirectoryUse
    <3>2. ~TableUse(p, u)'
      BY <2>3 DEF TableUse, Empty, Index
    <3>3. ~PageUse(p, u)'
      BY <2>7 DEF PageUse, Pages
    <3> QED BY <3>1, <3>2, <3>3, UsesAre
  <2>10. new.frame = d /\ new \in Uses(p)'
    BY <2>8, <2>9
  <2>11. Gains(p, {new})
    <3>1. \A q \in Live' : \A u : u \in Uses(q)' =>
              (q \in Live /\ u \in Uses(q)) \/ (q = p /\ u \in {new})
      BY <2>4, <2>6, <2>9
    <3>2. \A q \in Live : q \in Live' /\ \A u \in Uses(q) : u \in Uses(q)'
      BY <2>4, <2>6
    <3> QED BY <1>4, <2>10, <3>1, <3>2 DEF Gains
  <2>12. FramesHaveOneUse' /\ UsesOK'
    BY <1>5, <2>11, GainsOneUse
  <2>13. AllUsed'
    <3>1. \A f \in {d} : p \in Live' /\ \E r \in {new} : r.frame = f /\ r \in Uses(p)'
      BY <2>4, <2>10
    <3> QED BY <1>1, <1>4, <1>5, <2>11, <3>1, GainsAllUsed
  <2>14. IdentityOK'
    <3> SUFFICES ASSUME NEW q \in Live', NEW n \in DOMAIN IdentityPages,
                        Translate(dir[q], IdentityPages[n])' # Absent
                 PROVE  LET entry == Translate(dir[q], IdentityPages[n])' IN
                        entry.frame = IdentityPages[n] /\ (entry.user <=> n > Len(Image))
      BY DEF IdentityOK, IdentityPages
    <3>1. q \in Live
      <4>1. IdentityPages[n] \in Pages
        BY IdentityPagesOK, LenProperties
      <4>2. q # p
        BY <2>7, <4>1 DEF IdentityPages
      <4> QED BY <2>4, <4>2
    <3>2. Translate(dir[q], IdentityPages[n])' = Translate(dir[q], IdentityPages[n])
      BY <2>6, <3>1, SameMapped
    <3> QED BY <1>5, <3>1, <3>2 DEF IdentityOK
  <2>15. Progress'
    <3> DEFINE M == ProcessMappings(p)
    <3>1. job'.owner = p /\ job'.todo = M /\ job'.was = paging
      BY <2>1
    <3>2. job' # Nobody
      <4>1. job' \in Job
        BY <2>1, <1>5, MappingsOK DEF Job, SpacesInv, PagingInv, DirOK
      <4> QED BY <4>1, NoJobAssumption
    <3>3. Len(M) \in Nat /\ Len(IdentityPages) \in Nat /\ Len(IdentityPages) >= 1
          /\ Len(IdentityPages) <= Len(M) /\ \A n \in 1..Len(M) : M[n].page \in Pages
      BY MappingsAt, IdentityPagesOK DEF MappingsOf
    <3>4. Remaining(p, 0, job.todo)'
      <4>1. Remaining(p, 0, M)
        BY <3>3 DEF Remaining
      <4> QED BY <3>1, <4>1 DEF Remaining, ProcessMappings, KernelMappings, Identity, Fresh
    <3>5. Built(p, 0)'
      BY DEF Built
    <3>6. Unbuilt(p, 0)'
      <4>1. ASSUME NEW n \in 1..Len(M)
            PROVE  ~Mapped(p, M[n].page)'
        <5>1. Translate(dir[p], M[n].page)' = Absent
          <6>1. M[n].page' = M[n].page
            BY DEF ProcessMappings, KernelMappings, Identity, Fresh
          <6> QED BY <2>7, <3>3, <6>1
        <5> QED BY <5>1 DEF Mapped
      <4>2. Unbuilt(p, 0)' <=> \A n \in (0 + 1)..Len(M) : ~Mapped(p, M[n].page)'
        BY DEF Unbuilt, ProcessMappings, KernelMappings, Identity, Fresh
      <4> QED BY <4>1, <4>2
    <3>7. (paging <=> cr3 # Nobody /\ 0 >= Len(IdentityPages))'
      <4>1. ~(0 >= Len(IdentityPages)) /\ ~paging'
        BY <2>1, <3>3
      <4> QED BY <4>1 DEF IdentityPages
    <3>8. Creating(p, 0)'
      BY <3>4, <3>5, <3>6, <3>7 DEF Creating
    <3>9. \E j \in 0..(Len(ProcessMappings(job.owner))' - 1) : Creating(job.owner, j)'
      <4>1. Len(ProcessMappings(job.owner))' = Len(M)
        BY <3>1 DEF ProcessMappings, KernelMappings, Identity, Fresh
      <4>2. Creating(job.owner, 0)'
        BY <3>1, <3>8
      <4>3. 0 \in 0..(Len(M) - 1)
        BY <3>3
      <4> QED BY <4>1, <4>2, <4>3
    <3>10. \A q \in Live' : job' = Nobody \/ job'.owner # q => Complete(q)'
      <4> SUFFICES ASSUME NEW q \in Live', job'.owner # q PROVE Complete(q)'
        BY <3>2
      <4>1. q \in Live
        BY <2>4, <3>1
      <4> QED BY <1>6, <2>6, <4>1, SameBuilt
    <3>11. (job'.was <=> cr3' # Nobody) /\ Reserved \subseteq used'
      BY <1>1, <1>4, <1>6, <3>1
    <3> QED BY <3>2, <3>9, <3>10, <3>11 DEF Progress, Reserved
  <2> QED BY <2>12, <2>13, <2>14, <2>15
<1> QED BY <1>7, <1>8

-----------------------------------------------------------------------------
(* The other steps.                                                        *)

LEMMA PageOfSlot ==
    ASSUME NEW i \in Index, NEW j \in Index
    PROVE  \E r \in Pages : DirIndex(r) = i /\ TableIndex(r) = j
<1> DEFINE r == i * Entries + j
<1>1. /\ Entries \in Nat \ {0} /\ i \in Nat /\ i + 1 <= Entries /\ j \in Nat
      /\ j \in 0..(Entries - 1)
  BY LayoutAssumption DEF Index
<1>2. i * Entries \in Nat /\ (i + 1) * Entries <= Entries * Entries
      /\ (i + 1) * Entries = i * Entries + Entries /\ Entries * Entries \in Nat
  BY <1>1
<1>3. r \in Pages /\ r \in Nat
  BY <1>1, <1>2 DEF Pages
<1>4. r \div Entries = i
  BY <1>1, Quotient
<1>5. r = ((r \div Entries) * Entries) + (r % Entries) /\ r % Entries \in 0..(Entries - 1)
  BY <1>1, <1>3, Divide
<1>6. r % Entries = j
  <2>1. r = i * Entries + (r % Entries)
    BY <1>4, <1>5
  <2>2. r = i * Entries + j
    OBVIOUS
  <2> HIDE DEF r
  <2> QED BY <1>1, <1>2, <1>5, <2>1, <2>2
<1> QED BY <1>3, <1>4, <1>6 DEF DirIndex, TableIndex

(* What paging_free_directory gives back: every frame of the space, and    *)
(* the reserved ones it maps.                                              *)
LEMMA OwnedAreUses ==
    ASSUME SpacesInv, NEW p \in Live
    PROVE  /\ \A u \in Uses(p) : u.frame \in Owned(dir[p])
           /\ \A f \in Owned(dir[p]) : f \in Reserved \/ \E u \in Uses(p) : u.frame = f
<1> DEFINE d == dir[p]
<1>1. ASSUME NEW u \in Uses(p)
      PROVE  u.frame \in Owned(d)
  <2>1. CASE DirectoryUse(p, u)
    <3>1. u.frame = d
      BY <2>1 DEF DirectoryUse
    <3> QED BY <3>1 DEF Owned
  <2>2. CASE TableUse(p, u)
    <3>1. PICK i \in Index : mem[d][i] # Absent /\ u.frame = mem[d][i].frame
      BY <2>2 DEF TableUse
    <3> QED BY <3>1 DEF Owned, Tables
  <2>3. CASE PageUse(p, u)
    <3>1. PICK r \in Pages : Translate(d, r) # Absent /\ u.frame = Translate(d, r).frame
      BY <2>3 DEF PageUse
    <3>2. PICK i \in Index, j \in Index : i = DirIndex(r) /\ j = TableIndex(r)
      BY IndexOK
    <3> DEFINE t == mem[d][i].frame
    <3>3. mem[d][i] # Absent /\ Translate(d, r) = mem[t][j]
      BY <3>1, <3>2 DEF Translate
    <3>4. t \in Tables(d) /\ mem[t][j].frame \in Leaves(t)
      <4>1. t \in Tables(d)
        BY <3>2, <3>3 DEF Tables
      <4>2. mem[t][j] # Absent
        BY <3>1, <3>3
      <4> QED BY <4>1, <4>2 DEF Leaves
    <3> QED BY <3>1, <3>3, <3>4 DEF Owned
  <2> QED BY <2>1, <2>2, <2>3, UsesAre
<1>2. ASSUME NEW f \in Owned(d), f \notin Reserved
      PROVE  \E u \in Uses(p) : u.frame = f
  <2>1. CASE f = d
    <3>1. PICK u : u = [frame |-> dir[p], kind |-> "directory", at |-> 0]
      OBVIOUS
    <3>2. u \in Uses(p) /\ u.frame = f
      BY <2>1, <3>1, DirectoryIsUse
    <3> QED BY <3>2
  <2>2. CASE f \in Tables(d)
    <3>1. PICK i \in Index : mem[d][i] # Absent /\ f = mem[d][i].frame
      BY <2>2 DEF Tables
    <3>2. PICK u : u = [frame |-> mem[dir[p]][i].frame, kind |-> "table", at |-> i]
      OBVIOUS
    <3>3. u \in Uses(p) /\ u.frame = f
      BY <3>1, <3>2, TableIsUse
    <3> QED BY <3>3
  <2>3. CASE \E t \in Tables(d) : f \in Leaves(t)
    <3>1. PICK t \in Tables(d) : f \in Leaves(t)
      BY <2>3
    <3>2. PICK i \in Index : mem[d][i] # Absent /\ t = mem[d][i].frame
      BY DEF Tables
    <3>3. PICK j \in Index : mem[t][j] # Absent /\ f = mem[t][j].frame
      BY <3>1 DEF Leaves
    <3>4. PICK r \in Pages : DirIndex(r) = i /\ TableIndex(r) = j
      BY PageOfSlot
    <3>5. Translate(d, r) = mem[t][j]
      BY <3>2, <3>4 DEF Translate
    <3>6. r \notin Range(IdentityPages)
      <4> SUFFICES ASSUME NEW n \in DOMAIN IdentityPages, r = IdentityPages[n] PROVE FALSE
        BY DEF Range
      <4>1. Translate(d, IdentityPages[n]).frame = IdentityPages[n]
        BY <3>3, <3>5 DEF SpacesInv, IdentityOK
      <4>2. f = IdentityPages[n]
        BY <3>3, <3>5, <4>1
      <4> QED BY <1>2, <4>2 DEF Reserved, Range
    <3>7. PICK u : u = [frame |-> Translate(dir[p], r).frame, kind |-> "page", at |-> r]
      OBVIOUS
    <3>8. u \in Uses(p) /\ u.frame = f
      BY <3>3, <3>5, <3>6, <3>7, PageIsUse
    <3> QED BY <3>8
  <2> QED BY <2>1, <2>2, <2>3 DEF Owned
<1> QED BY <1>1, <1>2

LEMMA SpacesKill ==
    ASSUME SpacesInv, NEW p \in Procs, Kill(p)
    PROVE  FramesHaveOneUse' /\ UsesOK' /\ IdentityOK' /\ Progress' /\ AllUsed'
<1>1. /\ halted = "no" /\ job = Nobody /\ cr3 # Nobody /\ dir[p] # Nobody /\ p \in Owners
      /\ used' = used \ Owned(dir[p]) /\ dir' = [dir EXCEPT ![p] = Nobody]
      /\ UNCHANGED <<mem, paging, job, halted>>
  BY DEF Kill, Idle, Owners
<1>2. /\ FramesHaveOneUse /\ UsesOK /\ AllUsed /\ IdentityOK /\ Progress
      /\ dir \in [Owners -> Frames \union {Nobody}] /\ cr3 \in Live \union {Nobody}
      /\ p \in Live
  BY <1>1 DEF SpacesInv, PagingInv, DirOK, Live
<1>3. \A q : q \in Live' <=> q \in Live /\ q # p
  BY <1>1, <1>2 DEF Live
<1>4. ASSUME NEW q \in Live'
      PROVE  SameSpace(q) /\ q \in Live /\ q # p
  <2>1. dir'[q] = dir[q]
    BY <1>1, <1>2, <1>3 DEF Live
  <2> QED BY <1>1, <1>3, <2>1 DEF SameSpace
<1>5. ASSUME NEW q \in Live'
      PROVE  SameMappings(q) /\ \A u : u \in Uses(q)' <=> u \in Uses(q)
  BY <1>4, SameSpaceMaps, SameSpaceUses
<1>6. ASSUME NEW q \in Live', NEW u \in Uses(q)
      PROVE  u.frame \in used' /\ u.frame \notin Reserved
  <2>1. u.frame \in used /\ u.frame \notin Reserved
    BY <1>2, <1>4 DEF FramesHaveOneUse, UsesOK
  <2>2. u.frame \notin Owned(dir[p])
    <3> SUFFICES ASSUME u.frame \in Owned(dir[p]) PROVE FALSE
      OBVIOUS
    <3>1. PICK v \in Uses(p) : v.frame = u.frame
      BY <1>2, <2>1, OwnedAreUses
    <3> QED BY <1>2, <1>4, <3>1 DEF FramesHaveOneUse
  <2> QED BY <1>1, <2>1, <2>2
<1>7. UsesOK'
  BY <1>5, <1>6 DEF UsesOK, Reserved
<1>8. FramesHaveOneUse'
  <2>1. ASSUME NEW q \in Live', NEW r \in Live', NEW u, u \in Uses(q)', NEW v, v \in Uses(r)'
        PROVE  u.frame \in used' /\ (u.frame = v.frame => q = r /\ u = v)
    <3>1. u \in Uses(q) /\ v \in Uses(r) /\ q \in Live /\ r \in Live
      BY <1>4, <1>5, <2>1
    <3> QED BY <1>2, <1>6, <3>1 DEF FramesHaveOneUse
  <2> QED BY <2>1 DEF FramesHaveOneUse
<1>9. AllUsed'
  <2> SUFFICES ASSUME NEW f \in used', f \notin Reserved
               PROVE  \E q \in Live' : \E u \in Uses(q)' : u.frame = f
    BY DEF AllUsed, Reserved
  <2>1. f \in used /\ f \notin Owned(dir[p])
    BY <1>1
  <2>2. PICK q \in Live : \E u \in Uses(q) : u.frame = f
    BY <1>1, <1>2, <2>1 DEF AllUsed
  <2>3. q # p
    BY <2>1, <2>2, OwnedAreUses
  <2> QED BY <1>3, <1>5, <2>2, <2>3
<1>10. Live' \subseteq Live /\ \A q \in Live' : SameMappings(q)
  BY <1>4, <1>5
<1>11. IdentityOK'
  BY <1>2, <1>10, SameIdentity
<1>12. Progress'
  <2>1. \A q \in Live' : Complete(q)'
    <3> SUFFICES ASSUME NEW q \in Live' PROVE Complete(q)'
      OBVIOUS
    <3>1. Complete(q)
      BY <1>1, <1>2, <1>4 DEF Progress
    <3> QED BY <1>5, <3>1, SameBuilt
  <2>2. cr3' # Nobody
    <3>1. CASE cr3 = p
      <4>1. cr3' \in Live
        BY <3>1 DEF Kill
      <4> QED BY <4>1, NobodyAssumption DEF Live, Owners
    <3>2. CASE cr3 # p
      BY <1>1, <3>2 DEF Kill
    <3> QED BY <3>1, <3>2
  <2>3. paging
    BY <1>1, <1>2 DEF Progress
  <2> QED BY <1>1, <2>1, <2>2, <2>3 DEF Progress
<1> QED BY <1>7, <1>8, <1>9, <1>11, <1>12

(* The steps that leave every space alone.                                 *)
LEMMA SameSpaces ==
    ASSUME SpacesInv, UNCHANGED <<used, mem, dir>>, halted' = "no" => halted = "no"
    PROVE  /\ FramesHaveOneUse' /\ UsesOK' /\ IdentityOK' /\ AllUsed' /\ Live' = Live
           /\ \A p \in Live : SameMappings(p)
<1>1. Live' = Live
  BY DEF Live
<1>2. \A p : SameMappings(p) /\ \A u : u \in Uses(p)' <=> u \in Uses(p)
  <2>1. \A p : SameSpace(p)
    BY DEF SameSpace
  <2> QED BY <2>1, SameSpaceMaps, SameSpaceUses
<1>3. UsesOK'
  BY <1>1, <1>2 DEF UsesOK, Reserved, SpacesInv
<1>4. FramesHaveOneUse'
  BY <1>1, <1>2 DEF FramesHaveOneUse, SpacesInv
<1>5. AllUsed'
  BY <1>1, <1>2 DEF AllUsed, Reserved, SpacesInv
<1>6. IdentityOK'
  BY <1>1, <1>2, SameIdentity DEF SpacesInv
<1> QED BY <1>1, <1>2, <1>3, <1>4, <1>5, <1>6

(* Outside a creation every space is complete.                             *)
LEMMA IdleProgress ==
    ASSUME SpacesInv, job = Nobody, UNCHANGED <<used, mem, dir, job, halted>>,
           cr3' # Nobody, paging'
    PROVE  Progress'
<1>1. Live' = Live /\ \A p \in Live : SameMappings(p)
  BY SameSpaces
<1>2. \A p \in Live : Complete(p)
  BY DEF SpacesInv, Progress
<1>3. \A p \in Live : Complete(p)'
  BY <1>1, <1>2, SameBuilt
<1> QED BY <1>1, <1>3 DEF Progress

(* The other hypothesis: no process is created while a reserved frame is   *)
(* free.  It holds until the first process is killed, whose identity pages *)
(* are freed with it.                                                      *)
CreatedInTime == \A p \in Owners : Create(p) => Reserved \subseteq used

(* The bound Reuse = FALSE of the runs asks for no more.                   *)
LEMMA BoundIsInTime == ~Reuse => CreatedInTime
  BY DEF CreatedInTime, Create

LEMMA SpacesNext ==
    SpacesInv /\ NothingElseReached /\ [Next]_vars /\ [CreatedInTime]_vars => SpacesInv'
<1> SUFFICES ASSUME SpacesInv, NothingElseReached, [Next]_vars, [CreatedInTime]_vars
             PROVE  SpacesInv'
  OBVIOUS
<1> DEFINE Parts == FramesHaveOneUse' /\ UsesOK' /\ IdentityOK' /\ Progress' /\ AllUsed'
<1>0. PagingInv'
  BY NextOK DEF SpacesInv
<1>1. ASSUME NEW p \in Owners, Create(p) PROVE Parts
  <2>1. CASE CreatedInTime
    <3>1. Reserved \subseteq used
      BY <1>1, <2>1 DEF CreatedInTime
    <3> QED BY <1>1, <3>1, SpacesCreate
  <2>2. CASE UNCHANGED vars
    <3>1. Reserved \subseteq used
      <4>1. used' = used /\ halted' = halted
        BY <2>2 DEF vars
      <4>2. used' = used \union {NewFrame(used, first)} /\ NewFrame(used, first) \notin used
        <5>1. Lowest(used, first) /\ halted = "no" /\ Allocate(used, first)
          BY <1>1 DEF Create, Idle, SpacesInv, PagingInv, SearchOK
        <5> QED BY <5>1, AllocateKeepsLowest, NewFrameIsFree
      <4> QED BY <4>1, <4>2
    <3> QED BY <1>1, <3>1, SpacesCreate
  <2> QED BY <2>1, <2>2
<1>2. CASE AddTable
  <2>1. Parts
    BY <1>2, SpacesAddTable
  <2> QED BY <1>0, <2>1 DEF SpacesInv
<1>3. CASE MapPage
  <2>1. Parts
    BY <1>3, SpacesMapPage
  <2> QED BY <1>0, <2>1 DEF SpacesInv
<1>4. CASE MapFaults
  <2>1. UNCHANGED <<used, mem, dir, job, paging, cr3>> /\ halted' = "fault"
    BY <1>4 DEF MapFaults, Fault
  <2>2. job # Nobody => job.owner \in Live
    <3>1. Busy
      BY <1>4 DEF MapFaults
    <3> QED BY <3>1, BusyOK DEF SpacesInv, PagingInv, JobOK, Live
  <2>3. Live' = Live /\ \A p \in Live : SameMappings(p)
    BY <2>1, SameSpaces
  <2>4. Progress'
    BY <2>1, <2>2, <2>3, SameProgress DEF SpacesInv
  <2>5. Parts
    BY <2>1, <2>4, SameSpaces
  <2> QED BY <1>0, <2>5 DEF SpacesInv
<1>5. ASSUME Start \/ Switch PROVE Parts
  <2>1. job = Nobody /\ UNCHANGED <<used, mem, dir, job, halted>>
    BY <1>5 DEF Start, Switch, Idle
  <2>2. cr3' # Nobody
    <3>1. cr3' \in Live
      BY <1>5 DEF Start, Switch
    <3> QED BY <3>1, NobodyAssumption DEF Live, Owners
  <2>3. paging'
    BY <1>5, <2>1 DEF Start, Switch, SpacesInv, Progress
  <2>4. Progress'
    BY <2>1, <2>2, <2>3, IdleProgress
  <2> QED BY <2>1, <2>4, SameSpaces
<1>6. CASE Expand
  <2>1. /\ job = Nobody /\ UNCHANGED <<used, mem, dir, paging, cr3, halted>> /\ cr3 \in Procs
        /\ job' = [owner |-> cr3, todo |-> Fresh(<<HeapTop>>), was |-> paging]
    BY <1>6 DEF Expand, Idle
  <2>2. cr3 # Nobody
    BY <2>1, NobodyAssumption
  <2>3. paging /\ cr3 \in Live
    BY <2>1, <2>2 DEF SpacesInv, Progress, PagingInv, DirOK
  <2>4. Live' = Live /\ \A p \in Live : SameMappings(p)
    BY <2>1, SameSpaces
  <2>5. \A p \in Live : Complete(p)'
    <3>1. \A p \in Live : Complete(p)
      BY <2>1 DEF SpacesInv, Progress
    <3> QED BY <2>4, <3>1, SameBuilt
  <2>6. job'.owner = cr3 /\ job'.todo = Fresh(<<HeapTop>>) /\ job'.was = paging
    BY <2>1
  <2>7. job' # Nobody
    <3>1. job' \in Job
      BY <2>1, <2>3, MappingsOK DEF Job, Live
    <3> QED BY <3>1, NoJobAssumption
  <2>8. Growing(job.owner)'
    <3>1. Complete(job.owner)'
      BY <2>3, <2>5, <2>6
    <3> QED BY <2>1, <2>3, <2>6, <3>1 DEF Growing, Fresh
  <2>9. Progress'
    <3>1. (job.was <=> cr3 # Nobody)'
      BY <2>1, <2>2, <2>3, <2>6
    <3> QED BY <2>1, <2>3, <2>4, <2>5, <2>7, <2>8, <3>1 DEF Progress
  <2>10. Parts
    BY <2>1, <2>9, SameSpaces
  <2> QED BY <1>0, <2>10 DEF SpacesInv
<1>7. ASSUME NEW p \in Procs, Kill(p) PROVE Parts
  BY <1>7, SpacesKill
<1>8. CASE UNCHANGED vars
  <2>1. UNCHANGED <<used, mem, dir, job, paging, cr3, halted>>
    BY <1>8 DEF vars
  <2>2. job # Nobody => job.owner \in Live
    BY DEF SpacesInv, PagingInv, JobOK, Job, Live
  <2>3. Live' = Live /\ \A p \in Live : SameMappings(p)
    BY <2>1, SameSpaces
  <2>4. Progress'
    BY <2>1, <2>2, <2>3, SameProgress DEF SpacesInv
  <2>5. Parts
    BY <2>1, <2>4, SameSpaces
  <2> QED BY <1>0, <2>5 DEF SpacesInv
<1>9. ASSUME Parts PROVE SpacesInv'
  BY <1>0, <1>9 DEF SpacesInv
<1> QED BY <1>1, <1>2, <1>3, <1>4, <1>5, <1>6, <1>7, <1>8, <1>9 DEF Next

LEMMA SpacesInit == Init => SpacesInv
<1> SUFFICES ASSUME Init PROVE SpacesInv
  OBVIOUS
<1>1. PagingInv
  BY InitOK
<1>2. Live = {} /\ job = Nobody /\ ~paging /\ cr3 = Nobody /\ used = Reserved
  BY DEF Init, Live
<1>3. FramesHaveOneUse /\ UsesOK /\ IdentityOK /\ Progress /\ AllUsed
  BY <1>2 DEF FramesHaveOneUse, UsesOK, IdentityOK, Progress, AllUsed
<1> QED BY <1>1, <1>3 DEF SpacesInv

(* A used frame is in the space of whoever uses it.                        *)
LEMMA SpacesLoseNothing == SpacesInv => NothingLeaks
<1> SUFFICES ASSUME SpacesInv, halted = "no", NEW f \in used, f \notin Reserved
             PROVE  \E p \in Live : f \in Owned(dir[p])
  BY DEF NothingLeaks
<1>1. PICK p \in Live : \E u \in Uses(p) : u.frame = f
  BY DEF SpacesInv, AllUsed
<1> QED BY <1>1, OwnedAreUses

(* Past the kernel part of a creation, every identity page has its entry.  *)
LEMMA SpacesMapKernel == SpacesInv => KernelIsMapped
<1> SUFFICES ASSUME SpacesInv, NEW p \in Live, NEW i \in DOMAIN IdentityPages,
                    job = Nobody \/ job.owner # p \/ ~InKernelPart(job.todo)
             PROVE  LET entry == Translate(dir[p], IdentityPages[i]) IN
                    /\ entry # Absent /\ entry.frame = IdentityPages[i]
                    /\ entry.user <=> i > Len(Image)
  BY DEF KernelIsMapped
<1> DEFINE M == ProcessMappings(p)
           nk == Len(IdentityPages)
<1>1. /\ Len(M) \in Nat /\ nk \in Nat /\ nk <= Len(M) /\ i \in 1..nk
      /\ \A n \in 1..nk : KernelMapping(M[n], n)
  BY MappingsAt, IdentityPagesOK DEF MappingsOf
<1>2. \E k \in Nat : nk <= k /\ k <= Len(M) /\ Built(p, k)
  <2>1. CASE job = Nobody \/ job.owner # p
    <3>1. Built(p, Len(M))
      BY <2>1 DEF SpacesInv, Progress, Complete
    <3> QED BY <1>1, <3>1
  <2>2. CASE job # Nobody /\ job.owner = p
    <3>1. CASE Growing(p)
      BY <1>1, <3>1 DEF Growing, Complete
    <3>2. CASE \E k \in 0..(Len(M) - 1) : Creating(p, k)
      <4>1. PICK k \in 0..(Len(M) - 1) : Creating(p, k)
        BY <3>2
      <4>2. k \in Nat /\ k <= Len(M) /\ k + 1 \in 1..Len(M) /\ Built(p, k)
        BY <1>1, <4>1 DEF Creating
      <4>3. nk <= k
        <5> SUFFICES ASSUME k + 1 <= nk PROVE FALSE
          BY <1>1, <4>2
        <5>1. /\ Len(job.todo) = Len(M) - k /\ job.todo # <<>>
              /\ \A n \in 1..Len(job.todo) : job.todo[n] = M[k + n]
          BY <2>2, <4>1 DEF Creating, Remaining, SpacesInv, PagingInv, JobOK
        <5>2. 1 \in 1..Len(job.todo) /\ k + 1 \in 1..nk
          BY <1>1, <4>2, <5>1
        <5>3. job.todo[1] = M[k + 1]
          BY <5>1, <5>2
        <5>4. Head(job.todo) = job.todo[1]
          <6>1. job.todo \in Seq(Request)
            BY <2>2 DEF SpacesInv, PagingInv, JobOK, Job
          <6> QED BY <5>1, <6>1, HeadTailProperties
        <5>5. Head(job.todo).identity
          BY <1>1, <5>2, <5>3, <5>4 DEF KernelMapping
        <5> QED BY <2>2, <5>1, <5>5 DEF InKernelPart
      <4> QED BY <4>2, <4>3
    <3> QED BY <2>2, <3>1, <3>2 DEF SpacesInv, Progress
  <2> QED BY <2>1, <2>2
<1>3. PICK k \in Nat : nk <= k /\ k <= Len(M) /\ Built(p, k)
  BY <1>2
<1>4. Mapped(p, IdentityPages[i])
  <2>1. i \in 1..k /\ M[i].page = IdentityPages[i]
    BY <1>1, <1>3 DEF KernelMapping
  <2> QED BY <1>3, <2>1 DEF Built
<1>5. Translate(dir[p], IdentityPages[i]) # Absent
  BY <1>4 DEF Mapped
<1> QED BY <1>5 DEF SpacesInv, IdentityOK

THEOREM SpacesInvariant ==
    Spec /\ [][CreatedInTime]_vars /\ []NothingElseReached => []SpacesInv
<1>1. Init => SpacesInv
  BY SpacesInit
<1>2. SpacesInv /\ NothingElseReached /\ [Next]_vars /\ [CreatedInTime]_vars => SpacesInv'
  BY SpacesNext
<1> QED BY <1>1, <1>2, PTL DEF Spec

(* No frame of a process is used twice, or while it is free.               *)
THEOREM OneUsePerFrame ==
    Spec /\ [][CreatedInTime]_vars /\ []NothingElseReached => []FramesHaveOneUse
<1>1. SpacesInv => FramesHaveOneUse
  BY DEF SpacesInv
<1> QED BY <1>1, SpacesInvariant, PTL

(* The kernel is mapped where the interrupt handlers need it.              *)
THEOREM KernelReachable ==
    Spec /\ [][CreatedInTime]_vars /\ []NothingElseReached => []KernelIsMapped
<1> QED BY SpacesMapKernel, SpacesInvariant, PTL

(* What a killed process used is free again.                               *)
THEOREM FramesComeBack ==
    Spec /\ [][CreatedInTime]_vars /\ []NothingElseReached => []NothingLeaks
<1> QED BY SpacesLoseNothing, SpacesInvariant, PTL

(* The owner of the current space may add a page to his heap to it.        *)
CurrentJob == job # Nobody /\ job.owner = cr3 => job.todo = Fresh(<<HeapTop>>)

LEMMA CurrentJobNext == PagingInv /\ CurrentJob /\ [Next]_vars => CurrentJob'
<1> SUFFICES ASSUME PagingInv, CurrentJob, [Next]_vars PROVE CurrentJob'
  OBVIOUS
<1>1. ASSUME NEW p \in Owners, Create(p)
      PROVE  CurrentJob'
  <2>1. dir[p] = Nobody /\ cr3' = cr3 /\ (job' # job => job'.owner = p)
    BY <1>1 DEF Create
  <2>2. p # cr3
    BY <2>1, NobodyAssumption DEF PagingInv, DirOK, Live, Owners
  <2>3. CASE job' = job
    BY <2>1, <2>3 DEF CurrentJob, Fresh
  <2>4. CASE job' # job
    BY <2>1, <2>2, <2>4 DEF CurrentJob
  <2> QED BY <2>3, <2>4
<1>2. CASE AddTable
  BY <1>2 DEF AddTable, CurrentJob, Fresh
<1>3. CASE MapPage
  <2>1. cr3' = cr3
    BY <1>3 DEF MapPage
  <2>2. \/ job' = job
        \/ job' = IF Tail(job.todo) = <<>> THEN Nobody ELSE [job EXCEPT !.todo = Tail(job.todo)]
    BY <1>3 DEF MapPage, Finish
  <2>3. CASE job' = job
    BY <2>1, <2>3 DEF CurrentJob, Fresh
  <2>4. CASE job' = IF Tail(job.todo) = <<>> THEN Nobody
                    ELSE [job EXCEPT !.todo = Tail(job.todo)]
    <3> SUFFICES ASSUME job' # Nobody, job'.owner = cr3
                 PROVE  FALSE
      BY <2>1 DEF CurrentJob
    <3>1. job # Nobody /\ job \in Job
      BY <1>3 DEF MapPage, Busy, PagingInv, JobOK
    <3>2. Tail(job.todo) # <<>> /\ job'.owner = job.owner
      BY <2>4, <3>1 DEF Job
    <3>3. job.todo = Fresh(<<HeapTop>>)
      BY <3>1, <3>2 DEF CurrentJob
    <3>4. Tail(Fresh(<<HeapTop>>)) = <<>>
      BY DEF Fresh
    <3> QED BY <3>2, <3>3, <3>4
  <2> QED BY <2>2, <2>3, <2>4
<1>4. CASE MapFaults
  BY <1>4 DEF MapFaults, Fault, CurrentJob, Fresh
<1>5. CASE Start \/ Switch \/ \E p \in Procs : Kill(p)
  BY <1>5 DEF Start, Switch, Kill, Idle, CurrentJob
<1>6. CASE Expand
  BY <1>6 DEF Expand, CurrentJob, Fresh
<1>7. CASE UNCHANGED vars
  BY <1>7 DEF vars, CurrentJob, Fresh
<1> QED BY <1>1, <1>2, <1>3, <1>4, <1>5, <1>6, <1>7 DEF Next

LEMMA SpaceIsCurrent == SpacesInv /\ CurrentJob => CurrentSpace
<1> SUFFICES ASSUME SpacesInv, CurrentJob PROVE CurrentSpace
  OBVIOUS
<1>1. cr3 \in Live \union {Nobody} /\ (paging => cr3 \in Live)
  BY DEF SpacesInv, PagingInv, DirOK
<1>2. Nobody \notin Live
  BY NobodyAssumption DEF Live, Owners
<1>3. ASSUME cr3 # Nobody
      PROVE  /\ cr3 \in Live /\ dir[cr3] \in used
             /\ \A page \in Range(IdentityPages) :
                   LET entry == Translate(dir[cr3], page) IN entry # Absent /\ entry.frame = page
  <2>1. cr3 \in Live
    BY <1>1, <1>3
  <2>2. dir[cr3] \in used
    <3> DEFINE u == [frame |-> dir[cr3], kind |-> "directory", at |-> 0]
    <3>1. u \in Uses(cr3) /\ u.frame = dir[cr3]
      BY <2>1, DirectoryIsUse
    <3> HIDE DEF u
    <3> QED BY <2>1, <3>1 DEF SpacesInv, FramesHaveOneUse
  <2>3. job = Nobody \/ job.owner # cr3 \/ ~InKernelPart(job.todo)
    <3> SUFFICES ASSUME job # Nobody, job.owner = cr3
                 PROVE  ~InKernelPart(job.todo)
      OBVIOUS
    <3>1. job.todo = Fresh(<<HeapTop>>)
      BY DEF CurrentJob
    <3>2. Head(Fresh(<<HeapTop>>)).identity = FALSE
      BY DEF Fresh
    <3> QED BY <3>1, <3>2 DEF InKernelPart
  <2>4. ASSUME NEW page \in Range(IdentityPages)
        PROVE  Translate(dir[cr3], page) # Absent /\ Translate(dir[cr3], page).frame = page
    <3>1. PICK i \in DOMAIN IdentityPages : IdentityPages[i] = page
      BY DEF Range
    <3> QED BY <2>1, <2>3, <3>1, SpacesMapKernel DEF KernelIsMapped
  <2> QED BY <2>1, <2>2, <2>4
<1> QED BY <1>1, <1>2, <1>3 DEF CurrentSpace

(* The machine never runs in an address space that is freed or half built. *)
THEOREM CurrentSpaceIsWhole ==
    Spec /\ [][CreatedInTime]_vars /\ []NothingElseReached => []CurrentSpace
<1>1. Init => CurrentJob
  BY DEF Init, CurrentJob
<1>2. Spec => []CurrentJob
  BY <1>1, CurrentJobNext, PagingInvariant, PTL DEF Spec
<1> QED BY <1>2, SpaceIsCurrent, SpacesInvariant, PTL
=============================================================================
