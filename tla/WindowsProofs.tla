---------------------------- MODULE WindowsProofs ----------------------------
(***************************************************************************)
(* Windows.tla for screens, windows, texts and numbers of calls of every   *)
(* size: what the run Windows_careful checks, as theorems.                 *)
(***************************************************************************)
EXTENDS Windows, FiniteSetTheorems, WellFoundedInduction, TLAPS

-----------------------------------------------------------------------------
(* Rows and columns.                                                       *)

LEMMA Times ==
    ASSUME NEW a \in Nat, NEW b \in Nat, NEW c \in Nat, a <= b
    PROVE  /\ a * c \in Nat /\ b * c \in Nat
           /\ a * c <= b * c
           /\ a * c = c * a
OBVIOUS

(* The cell in column x of row y.                                          *)
LEMMA CellInside ==
    ASSUME NEW w \in Nat, NEW h \in Nat, NEW x \in Nat, NEW y \in Nat, x < w, y < h
    PROVE  x + y * w \in 0..(w * h - 1)
<1>1. (y + 1) * w <= h * w /\ h * w = w * h /\ y * w \in Nat
  BY Times
<1>2. (y + 1) * w = y * w + w
  OBVIOUS
<1>3. w * h \in Nat
  OBVIOUS
<1> QED BY <1>1, <1>2, <1>3

LEMMA Divide ==
    ASSUME NEW k \in Nat, NEW n \in Nat \ {0}
    PROVE  /\ k \div n \in Nat /\ k % n \in 0..(n - 1)
           /\ k = (k % n) + (k \div n) * n
  OBVIOUS

(* Its column and row.                                                     *)
LEMMA CellOf ==
    ASSUME NEW w \in Nat, NEW x \in Nat, NEW y \in Nat, x < w
    PROVE  (x + y * w) % w = x /\ (x + y * w) \div w = y
  OBVIOUS

LEMMA RowInside ==
    ASSUME NEW w \in Nat, NEW h \in Nat, NEW k \in 0..(w * h - 1)
    PROVE  /\ w # 0 /\ k % w \in 0..(w - 1) /\ k \div w \in 0..(h - 1)
           /\ k = (k % w) + (k \div w) * w
<1>1. w # 0 /\ w * h \in Nat /\ h * w = w * h /\ k \in Nat /\ w \in Nat \ {0}
  OBVIOUS
<1>2. k % w \in 0..(w - 1) /\ k \div w \in Nat /\ k = (k % w) + (k \div w) * w
  BY <1>1, Divide
<1>3. ASSUME k \div w >= h PROVE FALSE
  <2>1. h * w <= (k \div w) * w
    BY <1>2, <1>3, Times
  <2> QED BY <1>1, <1>2, <2>1
<1> QED BY <1>1, <1>2, <1>3

-----------------------------------------------------------------------------
(* Loops.                                                                  *)

(* Every non-empty set of numbers has a least element.                     *)
LEMMA LeastNumber ==
    ASSUME NEW S \in SUBSET Nat, S # {}
    PROVE  \E i \in S : \A j \in S : i <= j
<1> DEFINE Upto(i) == 1..i
           T == {Upto(i) : i \in S}
           R == StrictSubsetOrdering(Nat)
<1>1. \A i \in S : Upto(i) \subseteq Nat /\ IsFiniteSet(Upto(i))
  BY FS_Interval
<1>2. T \subseteq FiniteSubsetsOf(Nat) /\ T # {}
  BY <1>1 DEF FiniteSubsetsOf
<1>3. PICK x \in T : \A y \in T : ~(<<y, x>> \in R)
  <2> HIDE DEF T, R
  <2>1. IsWellFoundedOn(R, FiniteSubsetsOf(Nat))
    BY FS_StrictSubsetOrderingWellFounded DEF R
  <2> QED BY <2>1, <1>2, WFMin
<1>4. PICK i \in S : x = Upto(i)
  OBVIOUS
<1>5. \A j \in S : i <= j
  <2> SUFFICES ASSUME NEW j \in S, j < i PROVE FALSE
    OBVIOUS
  <2>1. Upto(j) \subseteq Upto(i) /\ Upto(j) # Upto(i)
    OBVIOUS
  <2>2. <<Upto(j), Upto(i)>> \in R
    BY <2>1, <1>1 DEF StrictSubsetOrdering
  <2> QED BY <2>2, <1>3, <1>4
<1> QED BY <1>5

(* What holds of 0 and of the next number after each that it holds of.     *)
LEMMA Count ==
    ASSUME NEW N \in Nat, NEW good, 0 \in good,
           \A n \in 1..N : n - 1 \in good => n \in good
    PROVE  \A n \in 0..N : n \in good
<1> DEFINE bad == (0..N) \ good
<1>1. SUFFICES ASSUME bad # {} PROVE FALSE
  OBVIOUS
<1>2. PICK i \in bad : \A j \in bad : i <= j
  <2> HIDE DEF bad
  <2>1. bad \in SUBSET Nat
    BY DEF bad
  <2> QED BY <1>1, <2>1, LeastNumber
<1>3. i \in 1..N /\ i - 1 \in 0..N /\ i - 1 \notin bad
  BY <1>2
<1> QED BY <1>2, <1>3

(* The states of a loop that starts with base and does F(n, state) in its  *)
(* round n, which stays in D.                                              *)
Rounds(f, N, base, F) ==
    f = [n \in 0..N |-> IF n = 0 THEN base ELSE F[n][f[n - 1]]]

LEMMA LoopExists ==
    ASSUME NEW N \in Nat, NEW D, NEW base \in D, NEW F \in [1..N -> [D -> D]]
    PROVE  \E f \in [0..N -> D] : Rounds(f, N, base, F)
<1> DEFINE Upto(m) == {f \in [0..m -> D] : Rounds(f, m, base, F)}
           good == {m \in 0..N : Upto(m) # {}}
<1>1. 0 \in good
  <2> DEFINE f == [n \in 0..0 |-> base]
  <2>1. f \in Upto(0)
    BY DEF Rounds
  <2> QED BY <2>1
<1>2. ASSUME NEW m \in 1..N, m - 1 \in good
      PROVE  m \in good
  <2>1. PICK f \in Upto(m - 1) : TRUE
    BY <1>2
  <2> DEFINE g == [n \in 0..m |-> IF n = m THEN F[m][f[m - 1]] ELSE f[n]]
  <2>2. f \in [0..(m - 1) -> D] /\ f[m - 1] \in D
    BY <2>1
  <2>3. \A n \in 0..(m - 1) : f[n] = IF n = 0 THEN base ELSE F[n][f[n - 1]]
    BY <2>1 DEF Rounds
  <2>4. F[m][f[m - 1]] \in D
    BY <2>2
  <2>5. g \in [0..m -> D]
    BY <2>2, <2>4
  <2>6. \A n \in 0..m : g[n] = IF n = 0 THEN base ELSE F[n][g[n - 1]]
    <3> SUFFICES ASSUME NEW n \in 0..m
                 PROVE  g[n] = IF n = 0 THEN base ELSE F[n][g[n - 1]]
      OBVIOUS
    <3>1. CASE n = m
      <4>1. g[n - 1] = f[m - 1] /\ g[n] = F[m][f[m - 1]] /\ n # 0
        BY <3>1
      <4> QED BY <3>1, <4>1
    <3>2. CASE n # m
      <4>1. n \in 0..(m - 1) /\ g[n] = f[n]
        BY <3>2
      <4>2. n # 0 => g[n - 1] = f[n - 1]
        BY <4>1
      <4> QED BY <2>3, <4>1, <4>2
    <3> QED BY <3>1, <3>2
  <2>7. Rounds(g, m, base, F)
    <3> HIDE DEF g
    <3> QED BY <2>5, <2>6 DEF Rounds
  <2>8. g \in Upto(m)
    <3> HIDE DEF g
    <3> QED BY <2>5, <2>7
  <2> QED BY <2>8
<1>3. N \in good
  <2> HIDE DEF good
  <2>1. \A n \in 0..N : n \in good
    BY <1>1, <1>2, Count
  <2> QED BY <2>1
<1> QED BY <1>3

-----------------------------------------------------------------------------
(* Screens.                                                                *)

Screens == [wins : [Handles -> Window \union {Null}], stray : BOOLEAN]

Sized(w) == DOMAIN w.buffer = 0..(w.width * w.height - 1)

(* Types: the native window is there and has no parent, the others have    *)
(* one or had one; every buffer has the size of its window.                *)
Good(S) ==
    /\ S \in Screens
    /\ IsWindow(S, Native) /\ S.wins[Native].parent = Null
    /\ \A v \in Handles : IsWindow(S, v) =>
          Sized(S.wins[v]) /\ (v # Native => S.wins[v].parent \in Handles)

(* Windows are in their parents, and not empty.                            *)
Inside(w, p) ==
    /\ w.width > 0 /\ w.height > 0
    /\ w.x + w.width <= p.width /\ w.y + w.height <= p.height
Nested(S) ==
    /\ S.wins[Native].width > 0 /\ S.wins[Native].height > 0
    /\ \A v \in Handles \ {Native} : IsWindow(S, v) =>
          /\ S.wins[v].parent # v /\ IsWindow(S, S.wins[v].parent)
          /\ Inside(S.wins[v], S.wins[S.wins[v].parent])
Tame(S) == Good(S) /\ Nested(S) /\ ~S.stray

(* The same windows, of the same sizes, in the same places.                *)
Alike(S, T) ==
    \A v \in Handles :
        /\ IsWindow(T, v) <=> IsWindow(S, v)
        /\ IsWindow(S, v) =>
              /\ T.wins[v].parent = S.wins[v].parent
              /\ T.wins[v].x = S.wins[v].x /\ T.wins[v].y = S.wins[v].y
              /\ T.wins[v].width = S.wins[v].width /\ T.wins[v].height = S.wins[v].height
              /\ T.wins[v].visible = S.wins[v].visible
Keeps(S, T) == Good(T) /\ Alike(S, T)

SameCursors(S, T) ==
    \A v \in Handles : IsWindow(S, v) =>
        T.wins[v].cx = S.wins[v].cx /\ T.wins[v].cy = S.wins[v].cy

(* Of other windows than v only the cells of its parent behind it differ.  *)
Confined(S, T, v) ==
    \A u \in Handles \ {v} : IsWindow(S, u) =>
        \A i \in DOMAIN S.wins[u].buffer :
            \/ T.wins[u].buffer[i] = S.wins[u].buffer[i]
            \/ u = S.wins[v].parent /\ InRectangle(S.wins[v], i, S.wins[u].width)
Tidy(S, T, v) == ~T.stray /\ Confined(S, T, v)

LEMMA WindowIs ==
    ASSUME NEW S, Good(S), NEW v, IsWindow(S, v)
    PROVE  /\ v \in Handles /\ S.wins[v] \in Window
           /\ S.wins[v].parent \in Handles \union {Null} /\ S.wins[v].visible \in BOOLEAN
           /\ S.wins[v].x \in Short /\ S.wins[v].y \in Short
           /\ S.wins[v].width \in Short /\ S.wins[v].height \in Short
           /\ S.wins[v].cx \in Short /\ S.wins[v].cy \in Short
           /\ DOMAIN S.wins[v].buffer = 0..(S.wins[v].width * S.wins[v].height - 1)
           /\ S.wins[v].buffer \in [DOMAIN S.wins[v].buffer -> Cell]
           /\ v # Native => S.wins[v].parent \in Handles
<1>1. v \in Handles /\ S.wins[v] \in Window /\ Sized(S.wins[v])
      /\ (v # Native => S.wins[v].parent \in Handles)
  BY DEF Good, Screens, IsWindow
<1>2. S.wins[v].buffer \in Buffer
  BY <1>1 DEF Window
<1>3. S.wins[v].buffer \in [DOMAIN S.wins[v].buffer -> Cell]
  BY <1>2 DEF Buffer
<1> QED BY <1>1, <1>3 DEF Window, Sized

LEMMA IsBuffer ==
    ASSUME NEW a \in Short, NEW b \in Short, NEW B \in [0..(a * b - 1) -> Cell]
    PROVE  B \in Buffer
<1>1. a \in Nat /\ b \in Nat /\ Word \in Nat /\ a <= Word /\ b <= Word
  BY WindowAssumption DEF Short
<1>2. a * b <= Word * b /\ b * Word <= Word * Word /\ Word * b = b * Word
      /\ a * b \in Nat /\ Word * b \in Nat /\ Word * Word \in Nat
  BY <1>1, Times
<1>3. a * b \in 0..(Word * Word)
  BY <1>2
<1> QED BY <1>3 DEF Buffer

(* One window is replaced by one that may be in its place.                 *)
LEMMA Replaced ==
    ASSUME NEW S, Good(S), NEW v, IsWindow(S, v), NEW w \in Window, Sized(w),
           v = Native => w.parent = Null, v # Native => w.parent \in Handles
    PROVE  LET T == [S EXCEPT !.wins[v] = w] IN
           /\ Good(T) /\ T.wins[v] = w /\ T.stray = S.stray
           /\ \A u \in Handles : IsWindow(T, u) <=> IsWindow(S, u)
           /\ \A u \in Handles : u # v => T.wins[u] = S.wins[u]
<1> DEFINE T == [S EXCEPT !.wins[v] = w]
<1>1. v \in Handles /\ S \in Screens /\ w # Null
  BY WindowAssumption DEF IsWindow, Good
<1>2. /\ T \in Screens /\ T.stray = S.stray /\ T.wins[v] = w
      /\ \A u \in Handles : u # v => T.wins[u] = S.wins[u]
  BY <1>1 DEF Screens
<1>3. \A u \in Handles : IsWindow(T, u) <=> IsWindow(S, u)
  BY <1>1, <1>2 DEF IsWindow
<1>4. Good(T)
  <2> HIDE DEF T
  <2> QED BY <1>1, <1>2, <1>3 DEF Good, IsWindow, Handles
<1> QED BY <1>2, <1>3, <1>4

(* New cells for one window.                                               *)
LEMMA Filled ==
    ASSUME NEW S, Good(S), NEW v, IsWindow(S, v),
           NEW B \in [DOMAIN S.wins[v].buffer -> Cell]
    PROVE  LET T == [S EXCEPT !.wins[v].buffer = B] IN
           /\ Keeps(S, T) /\ SameCursors(S, T)
           /\ T.stray = S.stray /\ T.wins[v].buffer = B
           /\ \A u \in Handles : u # v => T.wins[u] = S.wins[u]
<1> DEFINE w == [S.wins[v] EXCEPT !.buffer = B]
           T == [S EXCEPT !.wins[v].buffer = B]
<1>1. B \in Buffer
  <2> DEFINE a == S.wins[v].width
             b == S.wins[v].height
  <2> HIDE DEF w, T
  <2>1. a \in Short /\ b \in Short /\ B \in [0..(a * b - 1) -> Cell]
    BY WindowIs
  <2> HIDE DEF a, b
  <2> QED BY <2>1, IsBuffer
<1>2. /\ w \in Window /\ w.buffer = B /\ w.parent = S.wins[v].parent
      /\ w.x = S.wins[v].x /\ w.y = S.wins[v].y /\ w.cx = S.wins[v].cx /\ w.cy = S.wins[v].cy
      /\ w.width = S.wins[v].width /\ w.height = S.wins[v].height
      /\ w.visible = S.wins[v].visible
  BY <1>1, WindowIs DEF Window
<1>3. Sized(w)
  BY <1>2, WindowIs DEF Sized
<1>4. T = [S EXCEPT !.wins[v] = w]
  OBVIOUS
<1>5. v = Native => w.parent = Null
  BY <1>2 DEF Good
<1>6. v # Native => w.parent \in Handles
  BY <1>2, WindowIs
<1>7. /\ Good(T) /\ T.wins[v] = w /\ T.stray = S.stray
      /\ \A u \in Handles : IsWindow(T, u) <=> IsWindow(S, u)
      /\ \A u \in Handles : u # v => T.wins[u] = S.wins[u]
  <2> HIDE DEF w, T
  <2> QED BY <1>2, <1>3, <1>4, <1>5, <1>6, Replaced
<1> HIDE DEF w, T
<1>8. Alike(S, T) /\ SameCursors(S, T)
  BY <1>2, <1>7 DEF Alike, SameCursors
<1> QED BY <1>2, <1>7, <1>8 DEF Keeps, T

LEMMA AtKeeps ==
    ASSUME NEW S, Good(S), NEW v, IsWindow(S, v), NEW x \in Int, NEW y \in Int
    PROVE  /\ Keeps(S, At(S, v, x, y)) /\ Confined(S, At(S, v, x, y), v)
           /\ At(S, v, x, y).stray = S.stray
           /\ At(S, v, x, y).wins[v].cx = x % Word /\ At(S, v, x, y).wins[v].cy = y % Word
           /\ At(S, v, x, y).wins[v].buffer = S.wins[v].buffer
           /\ \A u \in Handles : u # v => At(S, v, x, y).wins[u] = S.wins[u]
<1> DEFINE w == [S.wins[v] EXCEPT !.cx = x % Word, !.cy = y % Word]
           T == [S EXCEPT !.wins[v].cx = x % Word, !.wins[v].cy = y % Word]
<1>1. x % Word \in Short /\ y % Word \in Short
  BY WindowAssumption DEF Short
<1>2. /\ w \in Window /\ w.buffer = S.wins[v].buffer /\ w.parent = S.wins[v].parent
      /\ w.x = S.wins[v].x /\ w.y = S.wins[v].y /\ w.cx = x % Word /\ w.cy = y % Word
      /\ w.width = S.wins[v].width /\ w.height = S.wins[v].height
      /\ w.visible = S.wins[v].visible
  BY <1>1, WindowIs DEF Window
<1>3. Sized(w)
  BY <1>2, WindowIs DEF Sized
<1>4. T = [S EXCEPT !.wins[v] = w]
  OBVIOUS
<1>5. v = Native => w.parent = Null
  BY <1>2 DEF Good
<1>6. v # Native => w.parent \in Handles
  BY <1>2, WindowIs
<1>7. /\ Good(T) /\ T.wins[v] = w /\ T.stray = S.stray
      /\ \A u \in Handles : IsWindow(T, u) <=> IsWindow(S, u)
      /\ \A u \in Handles : u # v => T.wins[u] = S.wins[u]
  <2> HIDE DEF w, T
  <2> QED BY <1>2, <1>3, <1>4, <1>5, <1>6, Replaced
<1>9. At(S, v, x, y) = T
  BY DEF At
<1> HIDE DEF w, T
<1>8. Alike(S, T) /\ Confined(S, T, v)
  BY <1>2, <1>7 DEF Alike, Confined
<1> QED BY <1>2, <1>7, <1>8, <1>9 DEF Keeps
LEMMA Strays ==
    ASSUME NEW S, Good(S)
    PROVE  LET T == [S EXCEPT !.stray = TRUE] IN
           /\ Keeps(S, T) /\ SameCursors(S, T) /\ T.stray /\ T.wins = S.wins
<1> DEFINE T == [S EXCEPT !.stray = TRUE]
<1>1. T \in Screens /\ T.wins = S.wins /\ T.stray
  BY DEF Good, Screens
<1> HIDE DEF T
<1>2. Keeps(S, T) /\ SameCursors(S, T)
  BY <1>1 DEF Keeps, Good, Alike, IsWindow, SameCursors
<1> QED BY <1>1, <1>2 DEF T

-----------------------------------------------------------------------------
(* Drawing.                                                                *)

LEMMA GreatestNumber ==
    ASSUME NEW n \in Int, NEW S \in SUBSET (0..n), S # {}
    PROVE  \E k \in S : \A l \in S : l <= k
<1> DEFINE Q == {n - k : k \in S}
<1>1. Q \in SUBSET Nat /\ Q # {}
  OBVIOUS
<1>2. PICK q \in Q : \A r \in Q : q <= r
  <2> HIDE DEF Q
  <2> QED BY <1>1, LeastNumber
<1>3. PICK k \in S : q = n - k
  OBVIOUS
<1>4. \A l \in S : n - l \in Q /\ l \in Int
  OBVIOUS
<1>5. \A l \in S : l <= k
  <2> HIDE DEF Q
  <2> QED BY <1>2, <1>3, <1>4
<1> QED BY <1>5

(* The part of Draw that is copied, and from where to where.               *)
Columns(S, v) == Drawn(S.wins[v].width, S.wins[S.wins[v].parent].width, S.wins[v].x)
Rows(S, v) == Drawn(S.wins[v].height, S.wins[S.wins[v].parent].height, S.wins[v].y)
Copied(S, v) == 0..(Columns(S, v) * Rows(S, v) - 1)
From(S, v, k) == (k % Columns(S, v)) + (k \div Columns(S, v)) * S.wins[v].width
To(S, v, k) ==
    ((S.wins[v].x + (k % Columns(S, v))) % Word)
        + ((S.wins[v].y + (k \div Columns(S, v))) % Word) * S.wins[S.wins[v].parent].width
Onto(S, v, i) == {k \in Copied(S, v) : To(S, v, k) = i}
Last(K) == CHOOSE k \in K : \A l \in K : l <= k
Astray(S, v) ==
    \E k \in Copied(S, v) : \/ From(S, v, k) \notin DOMAIN S.wins[v].buffer
                           \/ To(S, v, k) \notin DOMAIN S.wins[S.wins[v].parent].buffer
Picture(S, v) ==
    [i \in DOMAIN S.wins[S.wins[v].parent].buffer |->
        IF Onto(S, v, i) = {} THEN S.wins[S.wins[v].parent].buffer[i]
        ELSE S.wins[v].buffer[From(S, v, Last(Onto(S, v, i)))]]

LEMMA DrawIs ==
    ASSUME NEW S, NEW v, S.wins[v].parent \in DOMAIN S.wins, "wins" \in DOMAIN S
    PROVE  Draw(S, v) = IF Astray(S, v) THEN [S EXCEPT !.stray = TRUE]
                        ELSE [S EXCEPT !.wins[S.wins[v].parent].buffer = Picture(S, v)]
BY DEF Draw, Columns, Rows, Copied, From, To, Onto, Last, Astray, Picture
LEMMA LastIs ==
    ASSUME NEW S, NEW v, NEW i, Onto(S, v, i) # {}, Columns(S, v) \in Int, Rows(S, v) \in Int
    PROVE  /\ Last(Onto(S, v, i)) \in Copied(S, v)
           /\ To(S, v, Last(Onto(S, v, i))) = i
<1> DEFINE n == Columns(S, v) * Rows(S, v) - 1
           K == Onto(S, v, i)
<1>1. n \in Int /\ K \in SUBSET (0..n) /\ K # {}
  BY DEF Onto, Copied
<1>2. \E k \in K : \A l \in K : l <= k
  <2> HIDE DEF n, K
  <2> QED BY <1>1, GreatestNumber
<1>3. Last(K) \in K
  <2> HIDE DEF K
  <2> QED BY <1>2 DEF Last
<1> QED BY <1>3 DEF Onto

LEMMA Shifted ==
    ASSUME NEW at \in Nat, NEW size \in Nat, NEW outer \in Nat, NEW n \in Nat,
           at + size <= outer, n <= size, NEW a \in 0..(n - 1)
    PROVE  /\ a \in Nat /\ a < size
           /\ at + a \in Nat /\ at + a < outer /\ at + a \in at..(at + size - 1)
OBVIOUS

LEMMA DrawnInt ==
    ASSUME NEW size \in Short, NEW outer \in Short, NEW at \in Short
    PROVE  /\ Drawn(size, outer, at) \in Nat
           /\ at + size <= outer => Drawn(size, outer, at) <= size
           /\ at + size <= outer /\ 2 * size <= outer + at => Drawn(size, outer, at) = size
<1>1. size \in Nat /\ outer \in Nat /\ at \in Nat /\ Word \in Nat \ {0} /\ size < Word
  BY WindowAssumption DEF Short
<1>2. Min2(size, outer - size + at) \in Int
  BY <1>1 DEF Min2
<1>3. at + size <= outer => Min2(size, outer - size + at) \in 0..size
  BY <1>1 DEF Min2
<1>4. 2 * size <= outer + at => Min2(size, outer - size + at) = size
  BY <1>1 DEF Min2
<1>5. \A m \in 0..size : m % Word = m
  BY <1>1
<1> DEFINE m == Min2(size, outer - size + at)
<1>6. m % Word \in Nat
  <2> HIDE DEF m
  <2>1. m \in Int
    BY <1>2 DEF m
  <2> QED BY <1>1, <2>1
<1> QED BY <1>1, <1>3, <1>4, <1>5, <1>6 DEF Drawn

LEMMA DrawInts ==
    ASSUME NEW S, Good(S), NEW v, IsWindow(S, v), IsWindow(S, S.wins[v].parent)
    PROVE  Columns(S, v) \in Nat /\ Rows(S, v) \in Nat
<1>1. /\ S.wins[v].x \in Short /\ S.wins[v].y \in Short
      /\ S.wins[v].width \in Short /\ S.wins[v].height \in Short
  BY WindowIs
<1> DEFINE q == S.wins[v].parent
<1>2. S.wins[q].width \in Short /\ S.wins[q].height \in Short
  <2> HIDE DEF q
  <2>1. IsWindow(S, q)
    BY DEF q
  <2> QED BY <2>1, WindowIs
<1> QED BY <1>1, <1>2, DrawnInt DEF Columns, Rows

LEMMA DrawKeeps ==
    ASSUME NEW S, Good(S), NEW v, IsWindow(S, v), v # Native, IsWindow(S, S.wins[v].parent)
    PROVE  Keeps(S, Draw(S, v)) /\ SameCursors(S, Draw(S, v))
<1> DEFINE p == S.wins[v].parent
           B == Picture(S, v)
<1>1. Draw(S, v) = IF Astray(S, v) THEN [S EXCEPT !.stray = TRUE]
                   ELSE [S EXCEPT !.wins[p].buffer = B]
  BY DrawIs DEF IsWindow, Good, Screens
<1>2. CASE Astray(S, v)
  BY <1>1, <1>2, Strays
<1>3. CASE ~Astray(S, v)
  <2>1. Columns(S, v) \in Int /\ Rows(S, v) \in Int
    BY DrawInts
  <2>2. B \in [DOMAIN S.wins[p].buffer -> Cell]
    <3>1. \A i \in DOMAIN S.wins[p].buffer :
             Onto(S, v, i) # {} => From(S, v, Last(Onto(S, v, i))) \in DOMAIN S.wins[v].buffer
      BY <1>3, <2>1, LastIs DEF Astray
    <3>2. /\ S.wins[p].buffer \in [DOMAIN S.wins[p].buffer -> Cell]
          /\ S.wins[v].buffer \in [DOMAIN S.wins[v].buffer -> Cell]
      BY WindowIs
    <3> QED BY <3>1, <3>2 DEF Picture
  <2>3. Draw(S, v) = [S EXCEPT !.wins[p].buffer = B]
    BY <1>1, <1>3
  <2> HIDE DEF p, B
  <2> QED BY <2>2, <2>3, Filled DEF p
<1> QED BY <1>2, <1>3

(* A window inside its parent is drawn inside both, every cell of the part *)
(* that is drawn where it belongs.                                         *)
LEMMA CopiedCells ==
    ASSUME NEW S, Good(S), NEW v, IsWindow(S, v), v # Native, IsWindow(S, S.wins[v].parent),
           Inside(S.wins[v], S.wins[S.wins[v].parent]), NEW k \in Copied(S, v)
    PROVE  \E x \in 0..(Columns(S, v) - 1), y \in 0..(Rows(S, v) - 1) :
              /\ k = x + y * Columns(S, v)
              /\ From(S, v, k) = x + y * S.wins[v].width
              /\ To(S, v, k) = (S.wins[v].x + x)
                                 + (S.wins[v].y + y) * S.wins[S.wins[v].parent].width
<1> DEFINE w == S.wins[v]
           p == S.wins[S.wins[v].parent]
           C == Columns(S, v)
           R == Rows(S, v)
           x == k % C
           y == k \div C
<1>1. /\ w.x \in Short /\ w.y \in Short /\ w.width \in Short /\ w.height \in Short
      /\ p.width \in Short /\ p.height \in Short
      /\ w.x + w.width <= p.width /\ w.y + w.height <= p.height
  BY WindowIs DEF Inside
<1>2. C \in Nat /\ R \in Nat /\ C <= w.width /\ R <= w.height
  BY <1>1, DrawnInt DEF Columns, Rows
<1>3. k \in 0..(C * R - 1)
  BY DEF Copied
<1>4. x \in 0..(C - 1) /\ y \in 0..(R - 1) /\ k = x + y * C
  <2> HIDE DEF C, R
  <2> QED BY <1>2, <1>3, RowInside
<1>5. (w.x + x) % Word = w.x + x /\ (w.y + y) % Word = w.y + y
  <2>1. w.x + x \in 0..(Word - 1) /\ w.y + y \in 0..(Word - 1)
    <3>1. x \in 0..(C - 1) /\ y \in 0..(R - 1)
      BY <1>4
    <3> HIDE DEF w, p, C, R, x, y
    <3>2. /\ w.x \in Nat /\ w.y \in Nat /\ x \in Nat /\ y \in Nat /\ C \in Nat /\ R \in Nat
          /\ w.width \in Nat /\ w.height \in Nat /\ x < C /\ y < R /\ p.width \in Nat /\ p.height \in Nat /\ Word \in Nat
          /\ p.width < Word /\ p.height < Word
      BY <1>1, <1>2, <3>1, WindowAssumption DEF Short
    <3> QED BY <1>1, <1>2, <3>2
  <2> HIDE DEF w, p, C, R, x, y
  <2> QED BY <2>1, WindowAssumption
<1>6. From(S, v, k) = x + y * w.width
  BY DEF From
<1>7. To(S, v, k) = (w.x + x) + (w.y + y) * p.width
  BY <1>5 DEF To
<1> HIDE DEF C, R, x, y, w, p
<1> QED BY <1>4, <1>6, <1>7 DEF C, R, w, p
LEMMA NotAstray ==
    ASSUME NEW S, Good(S), NEW v, IsWindow(S, v), v # Native, IsWindow(S, S.wins[v].parent),
           Inside(S.wins[v], S.wins[S.wins[v].parent])
    PROVE  ~Astray(S, v)
<1> DEFINE w == S.wins[v]
           p == S.wins[S.wins[v].parent]
<1>1. SUFFICES ASSUME NEW k \in Copied(S, v)
               PROVE  From(S, v, k) \in DOMAIN w.buffer /\ To(S, v, k) \in DOMAIN p.buffer
  BY DEF Astray
<1>2. PICK x \in 0..(Columns(S, v) - 1), y \in 0..(Rows(S, v) - 1) :
          /\ From(S, v, k) = x + y * w.width
          /\ To(S, v, k) = (w.x + x) + (w.y + y) * p.width
  BY CopiedCells
<1>3. /\ w.x \in Short /\ w.y \in Short /\ w.width \in Short /\ w.height \in Short
      /\ p.width \in Short /\ p.height \in Short
      /\ w.x + w.width <= p.width /\ w.y + w.height <= p.height
      /\ DOMAIN w.buffer = 0..(w.width * w.height - 1)
      /\ DOMAIN p.buffer = 0..(p.width * p.height - 1)
  BY WindowIs DEF Inside
<1>4. Columns(S, v) <= w.width /\ Rows(S, v) <= w.height
      /\ Columns(S, v) \in Nat /\ Rows(S, v) \in Nat
  BY <1>3, DrawnInt DEF Columns, Rows
<1> HIDE DEF w, p
<1>5. /\ w.x \in Nat /\ w.y \in Nat /\ w.width \in Nat /\ w.height \in Nat
      /\ p.width \in Nat /\ p.height \in Nat
  BY <1>3, WindowAssumption DEF Short
<1>6. /\ x \in Nat /\ x < w.width /\ w.x + x \in Nat /\ w.x + x < p.width
      /\ y \in Nat /\ y < w.height /\ w.y + y \in Nat /\ w.y + y < p.height
  BY <1>3, <1>4, <1>5, Shifted
<1>7. x + y * w.width \in DOMAIN w.buffer
  BY <1>3, <1>5, <1>6, CellInside
<1>8. (w.x + x) + (w.y + y) * p.width \in DOMAIN p.buffer
  BY <1>3, <1>5, <1>6, CellInside
<1> QED BY <1>2, <1>7, <1>8

LEMMA DrawInside ==
    ASSUME NEW S, Good(S), NEW v, IsWindow(S, v), v # Native, IsWindow(S, S.wins[v].parent),
           Inside(S.wins[v], S.wins[S.wins[v].parent])
    PROVE  LET T == Draw(S, v)
               q == S.wins[v].parent
           IN  /\ T.stray = S.stray
               /\ T.wins[q].buffer = Picture(S, v)
               /\ \A u \in Handles : u # q => T.wins[u] = S.wins[u]
<1> DEFINE q == S.wins[v].parent
           T == Draw(S, v)
           B == Picture(S, v)
<1>1. T = [S EXCEPT !.wins[q].buffer = B]
  BY DrawIs, NotAstray DEF IsWindow, Good, Screens
<1>2. q \in DOMAIN S.wins /\ DOMAIN S.wins = Handles /\ S \in Screens /\ S.wins[q] \in Window
  BY WindowIs DEF Good, Screens
<1>3. "buffer" \in DOMAIN S.wins[q] /\ "wins" \in DOMAIN S /\ "stray" \in DOMAIN S
  BY <1>2 DEF Window, Screens
<1> HIDE DEF q, T, B
<1>4. /\ T.stray = S.stray
      /\ T.wins[q].buffer = B
      /\ \A u \in Handles : u # q => T.wins[u] = S.wins[u]
  BY <1>1, <1>2, <1>3
<1> QED BY <1>4 DEF q, T, B

LEMMA DrawConfined ==
    ASSUME NEW S, Good(S), NEW v, IsWindow(S, v), v # Native, IsWindow(S, S.wins[v].parent),
           Inside(S.wins[v], S.wins[S.wins[v].parent])
    PROVE  Confined(S, Draw(S, v), v)
<1> DEFINE q == S.wins[v].parent
           T == Draw(S, v)
           w == S.wins[v]
           p == S.wins[q]
<1>1. SUFFICES ASSUME NEW i \in DOMAIN p.buffer
               PROVE  T.wins[q].buffer[i] = p.buffer[i] \/ InRectangle(w, i, p.width)
  BY DrawInside DEF Confined
<1>2. CASE Onto(S, v, i) = {}
  <2>1. T.wins[q].buffer = Picture(S, v)
    BY DrawInside
  <2>2. Picture(S, v)[i] = p.buffer[i]
    BY <1>1, <1>2 DEF Picture
  <2> QED BY <2>1, <2>2
<1>3. CASE Onto(S, v, i) # {}
  <2>1. PICK k \in Copied(S, v) : To(S, v, k) = i
    BY <1>3 DEF Onto
  <2>2. PICK x \in 0..(Columns(S, v) - 1), y \in 0..(Rows(S, v) - 1) :
            i = (w.x + x) + (w.y + y) * p.width
    BY <2>1, CopiedCells
  <2>3. /\ w.x \in Short /\ w.y \in Short /\ w.width \in Short /\ w.height \in Short
        /\ p.width \in Short /\ p.height \in Short
        /\ w.x + w.width <= p.width /\ w.y + w.height <= p.height
    BY WindowIs DEF Inside
  <2>4. Columns(S, v) <= w.width /\ Rows(S, v) <= w.height
        /\ Columns(S, v) \in Nat /\ Rows(S, v) \in Nat
    BY <2>3, DrawnInt DEF Columns, Rows
  <2> HIDE DEF q, w, p
  <2>5. /\ w.x \in Nat /\ w.y \in Nat /\ w.width \in Nat /\ w.height \in Nat
        /\ p.width \in Nat /\ p.height \in Nat
    BY <2>3, WindowAssumption DEF Short
  <2>6. /\ w.x + x \in Nat /\ w.x + x < p.width /\ w.x + x \in w.x..(w.x + w.width - 1)
        /\ w.y + y \in Nat /\ w.y + y \in w.y..(w.y + w.height - 1)
    BY <2>3, <2>4, <2>5
  <2>7. i % p.width = w.x + x /\ i \div p.width = w.y + y
    BY <2>2, <2>5, <2>6, CellOf
  <2> QED BY <2>6, <2>7 DEF InRectangle
<1> QED BY <1>2, <1>3

(* What is drawn is in the parent as it is in the window.                  *)
LEMMA DrawShows ==
    ASSUME NEW S, Good(S), NEW v, IsWindow(S, v), v # Native, IsWindow(S, S.wins[v].parent),
           Inside(S.wins[v], S.wins[S.wins[v].parent]),
           NEW x \in 0..(Columns(S, v) - 1), NEW y \in 0..(Rows(S, v) - 1)
    PROVE  Draw(S, v).wins[S.wins[v].parent].buffer
               [S.wins[v].x + x + (S.wins[v].y + y) * S.wins[S.wins[v].parent].width]
           = S.wins[v].buffer[x + y * S.wins[v].width]
<1> DEFINE q == S.wins[v].parent
           w == S.wins[v]
           p == S.wins[q]
           C == Columns(S, v)
           R == Rows(S, v)
           k == x + y * C
           i == w.x + x + (w.y + y) * p.width
<1>1. /\ w.x \in Short /\ w.y \in Short /\ w.width \in Short /\ w.height \in Short
      /\ p.width \in Short /\ p.height \in Short
      /\ w.x + w.width <= p.width /\ w.y + w.height <= p.height
      /\ DOMAIN p.buffer = 0..(p.width * p.height - 1)
  BY WindowIs DEF Inside
<1>2. C <= w.width /\ R <= w.height /\ C \in Nat /\ R \in Nat
  BY <1>1, DrawnInt DEF Columns, Rows
<1>3. k \in Copied(S, v)
  <2>1. x \in Nat /\ y \in Nat /\ x < C /\ y < R
    <3> HIDE DEF C, R
    <3> QED BY <1>2 DEF C, R
  <2> QED BY <1>2, <2>1, CellInside DEF Copied
<1>4. ASSUME NEW a \in 0..(C - 1), NEW b \in 0..(R - 1),
             w.x + a + (w.y + b) * p.width = i
      PROVE  a = x /\ b = y
  <2>1. x \in 0..(C - 1) /\ y \in 0..(R - 1)
    OBVIOUS
  <2>2. i = (w.x + x) + (w.y + y) * p.width
    OBVIOUS
  <2> HIDE DEF q, w, p, C, R, i
  <2>3. /\ w.x \in Nat /\ w.y \in Nat /\ w.width \in Nat /\ w.height \in Nat
        /\ p.width \in Nat /\ p.height \in Nat
    BY <1>1, WindowAssumption DEF Short
  <2>4. /\ w.x + a \in Nat /\ w.x + a < p.width /\ w.y + b \in Nat
        /\ w.x + x \in Nat /\ w.x + x < p.width /\ w.y + y \in Nat
    BY <1>1, <1>2, <2>1, <2>3, Shifted
  <2>5. i % p.width = w.x + a /\ i \div p.width = w.y + b
    BY <1>4, <2>3, <2>4, CellOf
  <2>6. i % p.width = w.x + x /\ i \div p.width = w.y + y
    BY <2>2, <2>3, <2>4, CellOf
  <2> QED BY <2>1, <2>3, <2>5, <2>6
<1>5. \A l \in Copied(S, v) : To(S, v, l) = i => l = k /\ From(S, v, l) = x + y * w.width
  <2> SUFFICES ASSUME NEW l \in Copied(S, v), To(S, v, l) = i
               PROVE  l = k /\ From(S, v, l) = x + y * w.width
    OBVIOUS
  <2>1. PICK a \in 0..(C - 1), b \in 0..(R - 1) :
            /\ l = a + b * C /\ From(S, v, l) = a + b * w.width
            /\ To(S, v, l) = (w.x + a) + (w.y + b) * p.width
    BY CopiedCells
  <2> HIDE DEF q, w, p, C, R, i
  <2>2. a = x /\ b = y
    BY <1>4, <2>1
  <2> QED BY <2>1, <2>2
<1>6. To(S, v, k) = i
  <2>1. PICK a \in 0..(C - 1), b \in 0..(R - 1) :
            /\ k = a + b * C
            /\ To(S, v, k) = (w.x + a) + (w.y + b) * p.width
    BY <1>3, CopiedCells
  <2>2. x \in 0..(C - 1) /\ y \in 0..(R - 1)
    OBVIOUS
  <2>3. a = x /\ b = y
    <3> HIDE DEF C, R, i, w, p
    <3>1. /\ a \in Nat /\ b \in Nat /\ x \in Nat /\ y \in Nat /\ a < C /\ x < C
      BY <1>2, <2>1, <2>2
    <3>2. k % C = a /\ k \div C = b
      BY <1>2, <2>1, <3>1, CellOf
    <3>3. k % C = x /\ k \div C = y
      BY <1>2, <3>1, CellOf
    <3> QED BY <3>2, <3>3
  <2> QED BY <2>1, <2>3
<1>7. Onto(S, v, i) = {k} /\ Last({k}) = k
  <2>1. Onto(S, v, i) = {k}
    <3> HIDE DEF i, k
    <3> QED BY <1>3, <1>5, <1>6 DEF Onto
  <2>2. k \in Int
    BY <1>3, <1>2 DEF Copied
  <2>3. Last({k}) = k
    <3> HIDE DEF k
    <3> QED BY <2>2 DEF Last
  <2> QED BY <2>1, <2>3
<1>8. i \in DOMAIN p.buffer
  BY <1>3, <1>6, NotAstray DEF Astray
<1>9. From(S, v, k) = x + y * w.width
  BY <1>3, <1>5, <1>6
<1>10. Picture(S, v)[i] = w.buffer[x + y * w.width]
  <2> HIDE DEF i, k
  <2> QED BY <1>7, <1>8, <1>9 DEF Picture
<1> QED BY <1>10, DrawInside
-----------------------------------------------------------------------------
(* One step after another.                                                 *)

LEMMA KeepsSelf ==
    ASSUME NEW S, Good(S), NEW v
    PROVE  Keeps(S, S) /\ SameCursors(S, S) /\ Confined(S, S, v)
BY DEF Keeps, Alike, SameCursors, Confined

LEMMA KeepsBoth ==
    ASSUME NEW S, NEW T, NEW U, Keeps(S, T), Keeps(T, U)
    PROVE  /\ Keeps(S, U)
           /\ SameCursors(S, T) /\ SameCursors(T, U) => SameCursors(S, U)
BY DEF Keeps, Alike, SameCursors

LEMMA SameBuffers ==
    ASSUME NEW S, Good(S), NEW T, Keeps(S, T), NEW u, IsWindow(S, u)
    PROVE  DOMAIN T.wins[u].buffer = DOMAIN S.wins[u].buffer
<1>1. u \in Handles /\ IsWindow(T, u) /\ Good(T)
  BY DEF Keeps, Alike, IsWindow
<1>2. T.wins[u].width = S.wins[u].width /\ T.wins[u].height = S.wins[u].height
  BY <1>1 DEF Keeps, Alike
<1> QED BY <1>1, <1>2, WindowIs

LEMMA ConfinedBoth ==
    ASSUME NEW S, Good(S), NEW T, Keeps(S, T), NEW U, NEW v, IsWindow(S, v),
           Confined(S, T, v), Confined(T, U, v)
    PROVE  Confined(S, U, v)
<1>1. SUFFICES ASSUME NEW u \in Handles \ {v}, IsWindow(S, u), NEW i \in DOMAIN S.wins[u].buffer
               PROVE  \/ U.wins[u].buffer[i] = S.wins[u].buffer[i]
                      \/ u = S.wins[v].parent /\ InRectangle(S.wins[v], i, S.wins[u].width)
  BY DEF Confined
<1>2. IsWindow(T, u) /\ i \in DOMAIN T.wins[u].buffer /\ T.wins[u].width = S.wins[u].width
  BY <1>1, SameBuffers DEF Keeps, Alike
<1>3. \/ U.wins[u].buffer[i] = T.wins[u].buffer[i]
      \/ u = T.wins[v].parent /\ InRectangle(T.wins[v], i, T.wins[u].width)
  BY <1>1, <1>2 DEF Confined
<1>4. \/ T.wins[u].buffer[i] = S.wins[u].buffer[i]
      \/ u = S.wins[v].parent /\ InRectangle(S.wins[v], i, S.wins[u].width)
  BY <1>1 DEF Confined
<1>5. /\ T.wins[v].parent = S.wins[v].parent
      /\ T.wins[v].x = S.wins[v].x /\ T.wins[v].y = S.wins[v].y
      /\ T.wins[v].width = S.wins[v].width /\ T.wins[v].height = S.wins[v].height
  BY DEF Keeps, Alike, IsWindow
<1>6. InRectangle(T.wins[v], i, T.wins[u].width) = InRectangle(S.wins[v], i, S.wins[u].width)
  BY <1>2, <1>5 DEF InRectangle
<1> QED BY <1>3, <1>4, <1>5, <1>6

LEMMA NestedStays ==
    ASSUME NEW S, Tame(S), NEW T, Keeps(S, T), ~T.stray
    PROVE  Tame(T)
<1>1. Good(S) /\ Good(T) /\ Nested(S) /\ IsWindow(S, Native) /\ Native \in Handles
  BY DEF Tame, Keeps, Good, Handles
<1>2. \A v \in Handles : IsWindow(S, v) =>
          /\ T.wins[v].parent = S.wins[v].parent
          /\ T.wins[v].x = S.wins[v].x /\ T.wins[v].y = S.wins[v].y
          /\ T.wins[v].width = S.wins[v].width /\ T.wins[v].height = S.wins[v].height
  BY DEF Keeps, Alike
<1>3. ASSUME NEW v \in Handles \ {Native}, IsWindow(T, v)
      PROVE  /\ T.wins[v].parent # v /\ IsWindow(T, T.wins[v].parent)
             /\ Inside(T.wins[v], T.wins[T.wins[v].parent])
  <2>1. IsWindow(S, v)
    BY <1>3 DEF Keeps, Alike
  <2> DEFINE q == S.wins[v].parent
  <2>2. q # v /\ IsWindow(S, q) /\ q \in Handles /\ Inside(S.wins[v], S.wins[q])
    BY <1>1, <2>1 DEF Nested, IsWindow
  <2>3. T.wins[v].parent = q /\ IsWindow(T, q)
    BY <1>2, <2>1, <2>2 DEF Keeps, Alike
  <2> HIDE DEF q
  <2>4. Inside(T.wins[v], T.wins[q])
    BY <1>2, <2>1, <2>2 DEF Inside
  <2> QED BY <2>2, <2>3, <2>4
<1>4. T.wins[Native].width > 0 /\ T.wins[Native].height > 0
  BY <1>1, <1>2 DEF Nested
<1> QED BY <1>1, <1>3, <1>4 DEF Tame, Nested

(* The two together, for the steps of an operation.                        *)
LEMMA TidyBoth ==
    ASSUME NEW S, Tame(S), NEW v, IsWindow(S, v), NEW T, NEW U,
           Keeps(S, T), Tidy(S, T, v), Keeps(T, U), Tidy(T, U, v)
    PROVE  Keeps(S, U) /\ Tidy(S, U, v)
BY KeepsBoth, ConfinedBoth DEF Tidy, Tame

LEMMA RedrawKeeps ==
    ASSUME NEW S, Good(S), NEW v, IsWindow(S, v)
    PROVE  Keeps(S, Redraw(S, v)) /\ SameCursors(S, Redraw(S, v))
<1>1. CASE v = Native \/ ~S.wins[v].visible
  BY <1>1, KeepsSelf DEF Redraw
<1>2. CASE v # Native /\ S.wins[v].visible /\ S.wins[S.wins[v].parent] = Null
  BY <1>2, Strays DEF Redraw
<1>3. CASE v # Native /\ S.wins[v].visible /\ S.wins[S.wins[v].parent] # Null
  <2>1. IsWindow(S, S.wins[v].parent)
    BY <1>3, WindowIs DEF IsWindow
  <2> QED BY <1>3, <2>1, DrawKeeps DEF Redraw
<1> QED BY <1>1, <1>2, <1>3

(* A visible window that is small enough is seen in its parent.            *)
Seen(S, v) ==
    v # Native /\ S.wins[v].visible /\ Small(S.wins[v], S.wins[S.wins[v].parent]) =>
        \A x \in 0..(S.wins[v].width - 1), y \in 0..(S.wins[v].height - 1) :
            S.wins[S.wins[v].parent].buffer
                [S.wins[v].x + x + (S.wins[v].y + y) * S.wins[S.wins[v].parent].width]
            = S.wins[v].buffer[x + y * S.wins[v].width]

LEMMA RedrawTidy ==
    ASSUME NEW S, Tame(S), NEW v, IsWindow(S, v)
    PROVE  /\ Tidy(S, Redraw(S, v), v) /\ Redraw(S, v).wins[v] = S.wins[v]
           /\ Seen(Redraw(S, v), v)
<1>0. Good(S) /\ Nested(S) /\ ~S.stray /\ v \in Handles
  BY DEF Tame, IsWindow
<1>1. CASE v = Native \/ ~S.wins[v].visible
  BY <1>0, <1>1, KeepsSelf DEF Redraw, Tidy, Seen
<1>2. CASE v # Native /\ S.wins[v].visible
  <2> DEFINE q == S.wins[v].parent
             T == Draw(S, v)
  <2>1. IsWindow(S, q) /\ Inside(S.wins[v], S.wins[q]) /\ q # v /\ q \in Handles
    BY <1>0, <1>2 DEF Nested, IsWindow
  <2>2. Redraw(S, v) = T
    BY <1>2, <2>1 DEF Redraw, IsWindow
  <2>3. T.stray = S.stray /\ T.wins[v] = S.wins[v]
    BY <1>0, <1>2, <2>1, DrawInside
  <2>4. Confined(S, T, v)
    BY <1>0, <1>2, <2>1, DrawConfined
  <2>5. T.wins[q].width = S.wins[q].width /\ T.wins[q].height = S.wins[q].height
    BY <1>0, <1>2, <2>1, DrawKeeps DEF Keeps, Alike
  <2>6. Seen(T, v)
    <3>1. SUFFICES ASSUME Small(S.wins[v], S.wins[q]),
                          NEW x \in 0..(S.wins[v].width - 1), NEW y \in 0..(S.wins[v].height - 1)
                   PROVE  T.wins[q].buffer[S.wins[v].x + x + (S.wins[v].y + y) * S.wins[q].width]
                            = S.wins[v].buffer[x + y * S.wins[v].width]
      <4>1. S.wins[v].parent = q
        OBVIOUS
      <4> HIDE DEF T, q
      <4> QED BY <2>3, <2>5, <4>1 DEF Seen, Small
    <3>2. Columns(S, v) = S.wins[v].width /\ Rows(S, v) = S.wins[v].height
      <4>1. /\ S.wins[v].x \in Short /\ S.wins[v].y \in Short
            /\ S.wins[v].width \in Short /\ S.wins[v].height \in Short
            /\ S.wins[q].width \in Short /\ S.wins[q].height \in Short
        BY <1>0, <2>1, WindowIs
      <4>2. /\ S.wins[v].x + S.wins[v].width <= S.wins[q].width
            /\ S.wins[v].y + S.wins[v].height <= S.wins[q].height
            /\ 2 * S.wins[v].width <= S.wins[q].width + S.wins[v].x
            /\ 2 * S.wins[v].height <= S.wins[q].height + S.wins[v].y
        BY <2>1, <3>1 DEF Inside, Small
      <4> QED BY <4>1, <4>2, DrawnInt DEF Columns, Rows
    <3>3. x \in 0..(Columns(S, v) - 1) /\ y \in 0..(Rows(S, v) - 1)
      BY <3>2
    <3> HIDE DEF T
    <3> QED BY <1>0, <1>2, <2>1, <3>3, DrawShows DEF T
  <2> QED BY <1>0, <2>2, <2>3, <2>4, <2>6 DEF Tidy
<1> QED BY <1>1, <1>2
-----------------------------------------------------------------------------
(* Clearing and scrolling.                                                 *)

(* New cells, and drawn.                                                   *)
LEMMA FilledDrawn ==
    ASSUME NEW S, Good(S), NEW v, IsWindow(S, v),
           NEW B \in [DOMAIN S.wins[v].buffer -> Cell]
    PROVE  LET T == Redraw([S EXCEPT !.wins[v].buffer = B], v) IN
           /\ Keeps(S, T) /\ SameCursors(S, T)
           /\ Tame(S) => Tidy(S, T, v) /\ Seen(T, v)
<1> DEFINE F == [S EXCEPT !.wins[v].buffer = B]
           T == Redraw(F, v)
<1>1. /\ Keeps(S, F) /\ SameCursors(S, F) /\ F.stray = S.stray
      /\ \A u \in Handles : u # v => F.wins[u] = S.wins[u]
  BY Filled
<1> HIDE DEF F
<1>2. Good(F) /\ IsWindow(F, v)
  BY <1>1 DEF Keeps, Alike, IsWindow
<1>3. Keeps(F, T) /\ SameCursors(F, T)
  BY <1>2, RedrawKeeps
<1>4. ASSUME Tame(S) PROVE Tidy(S, T, v) /\ Seen(T, v)
  <2>1. Tame(F) /\ Tidy(S, F, v)
    BY <1>1, <1>4, NestedStays DEF Tame, Tidy, Confined
  <2>2. Tidy(F, T, v) /\ Seen(T, v)
    BY <1>2, <2>1, RedrawTidy
  <2> QED BY <1>1, <1>3, <1>4, <2>1, <2>2, TidyBoth
<1>5. Keeps(S, T) /\ SameCursors(S, T)
  BY <1>1, <1>3, KeepsBoth
<1> QED BY <1>4, <1>5 DEF F

LEMMA ClearDoes ==
    ASSUME NEW S, Good(S), NEW v, IsWindow(S, v)
    PROVE  LET T == Clear(S, v) IN
           /\ Keeps(S, T) /\ SameCursors(S, T)
           /\ Tame(S) => Tidy(S, T, v) /\ Seen(T, v)
<1> DEFINE B == [i \in DOMAIN S.wins[v].buffer |-> "none"]
<1>1. Clear(S, v) = Redraw([S EXCEPT !.wins[v].buffer = B], v)
  BY DEF Clear
<1>2. B \in [DOMAIN S.wins[v].buffer -> Cell]
  BY DEF Cell
<1> HIDE DEF B
<1> QED BY <1>1, <1>2, FilledDrawn

LEMMA ClearLineDoes ==
    ASSUME NEW S, Good(S), NEW v, IsWindow(S, v), NEW n \in Nat
    PROVE  LET T == ClearLine(S, v, n) IN
           /\ Keeps(S, T) /\ SameCursors(S, T)
           /\ Tame(S) /\ n < S.wins[v].height => Tidy(S, T, v) /\ Seen(T, v)
<1> DEFINE w == S.wins[v]
           line == (n * w.width)..(n * w.width + w.width - 1)
           B == [i \in DOMAIN w.buffer |-> IF i \in line THEN "none" ELSE w.buffer[i]]
<1>1. ClearLine(S, v, n) = IF line \subseteq DOMAIN w.buffer
                           THEN Redraw([S EXCEPT !.wins[v].buffer = B], v)
                           ELSE [S EXCEPT !.stray = TRUE]
  BY DEF ClearLine
<1>2. B \in [DOMAIN S.wins[v].buffer -> Cell]
  <2>1. w.buffer \in [DOMAIN w.buffer -> Cell]
    BY WindowIs
  <2> HIDE DEF w, line
  <2>2. B \in [DOMAIN w.buffer -> Cell]
    BY <2>1 DEF Cell
  <2> QED BY <2>2 DEF w
<1>3. n < w.height => line \subseteq DOMAIN w.buffer
  <2>1. /\ w.width \in Nat /\ w.height \in Nat
        /\ DOMAIN w.buffer = 0..(w.width * w.height - 1)
    BY WindowIs, WindowAssumption DEF Short
  <2> HIDE DEF w
  <2> SUFFICES ASSUME n < w.height, NEW i \in line PROVE i \in DOMAIN w.buffer
    OBVIOUS
  <2>2. n * w.width \in Nat
    BY <2>1, Times
  <2>3. i - n * w.width \in Nat /\ i - n * w.width < w.width
    BY <2>1, <2>2
  <2>4. (i - n * w.width) + n * w.width \in 0..(w.width * w.height - 1)
    BY <2>1, <2>3, CellInside
  <2>5. (i - n * w.width) + n * w.width = i
    BY <2>2
  <2> QED BY <2>1, <2>4, <2>5
<1>4. CASE line \subseteq DOMAIN w.buffer
  <2>1. ClearLine(S, v, n) = Redraw([S EXCEPT !.wins[v].buffer = B], v)
    BY <1>1, <1>4
  <2> HIDE DEF B, w, line
  <2> QED BY <1>2, <2>1, FilledDrawn
<1>5. CASE ~(line \subseteq DOMAIN w.buffer)
  <2>1. ClearLine(S, v, n) = [S EXCEPT !.stray = TRUE]
    BY <1>1, <1>5
  <2> HIDE DEF B, line
  <2> QED BY <1>3, <1>5, <2>1, Strays
<1> QED BY <1>4, <1>5

LEMMA ScrollDoes ==
    ASSUME NEW S, Good(S), NEW v, IsWindow(S, v), NEW n \in Nat
    PROVE  LET T == Scroll(S, v, n) IN
           /\ Keeps(S, T) /\ SameCursors(S, T)
           /\ Tame(S) /\ n <= S.wins[v].height => Tidy(S, T, v) /\ Seen(T, v)
<1> DEFINE w == S.wins[v]
           kept == (w.height - n) * w.width
           gone == n * w.width
           B == [i \in DOMAIN w.buffer |-> CASE i < gone -> "none"
                                            [] i >= gone /\ i < kept -> w.buffer[i + gone]
                                            [] OTHER -> w.buffer[i]]
<1>1. Scroll(S, v, n) = IF n > w.height THEN [S EXCEPT !.stray = TRUE]
                        ELSE Redraw([S EXCEPT !.wins[v].buffer = B], v)
  BY DEF Scroll
<1>2. w.width \in Nat /\ w.height \in Nat
  BY WindowIs, WindowAssumption DEF Short
<1>3. CASE n > w.height
  <2>1. Scroll(S, v, n) = [S EXCEPT !.stray = TRUE] /\ ~(n <= w.height)
    BY <1>1, <1>2, <1>3
  <2> HIDE DEF B
  <2> QED BY <2>1, Strays
<1>4. CASE ~(n > w.height)
  <2>1. Scroll(S, v, n) = Redraw([S EXCEPT !.wins[v].buffer = B], v)
    BY <1>1, <1>4
  <2>2. B \in [DOMAIN S.wins[v].buffer -> Cell]
    <3>1. /\ w.buffer \in [DOMAIN w.buffer -> Cell]
          /\ DOMAIN w.buffer = 0..(w.width * w.height - 1)
      BY WindowIs
    <3>2. gone \in Nat /\ kept \in Nat /\ kept + gone = w.width * w.height
      <4> HIDE DEF w
      <4>1. w.height - n \in Nat
        BY <1>2, <1>4
      <4>2. gone \in Nat /\ kept \in Nat
        BY <1>2, <4>1, Times
      <4>3. (w.height - n) * w.width + n * w.width = w.width * w.height
        BY <1>2, <4>1
      <4> QED BY <4>2, <4>3
    <3> HIDE DEF w, gone, kept
    <3>3. ASSUME NEW i \in DOMAIN w.buffer, i >= gone, i < kept
          PROVE  i + gone \in DOMAIN w.buffer
      BY <3>1, <3>2, <3>3
    <3>4. B \in [DOMAIN w.buffer -> Cell]
      BY <3>1, <3>3 DEF Cell
    <3> QED BY <3>4 DEF w
  <2> HIDE DEF B, w
  <2> QED BY <2>1, <2>2, FilledDrawn
<1> QED BY <1>3, <1>4
-----------------------------------------------------------------------------
(* Writing.                                                                *)

OtherCursors(S, T, v) ==
    \A u \in Handles \ {v} : IsWindow(S, u) =>
        T.wins[u].cx = S.wins[u].cx /\ T.wins[u].cy = S.wins[u].cy

(* The cursor is in the window.                                            *)
Points(S, v) == S.wins[v].cx < S.wins[v].width /\ S.wins[v].cy < S.wins[v].height

LEMMA PutDoes ==
    ASSUME NEW S, Good(S), NEW v, IsWindow(S, v), NEW i, NEW c \in Cell
    PROVE  LET T == Put(S, v, i, c) IN
           /\ Keeps(S, T) /\ SameCursors(S, T) /\ Confined(S, T, v)
           /\ i \in DOMAIN S.wins[v].buffer => T.stray = S.stray
<1> DEFINE B == [S.wins[v].buffer EXCEPT ![i] = c]
           T == Put(S, v, i, c)
<1>1. CASE i \in DOMAIN S.wins[v].buffer
  <2>1. B \in [DOMAIN S.wins[v].buffer -> Cell]
    BY <1>1, WindowIs
  <2>2. T = [S EXCEPT !.wins[v].buffer = B]
    BY <1>1 DEF Put
  <2> HIDE DEF B, T
  <2>3. /\ Keeps(S, T) /\ SameCursors(S, T) /\ T.stray = S.stray
        /\ \A u \in Handles : u # v => T.wins[u] = S.wins[u]
    BY <2>1, <2>2, Filled
  <2>4. Confined(S, T, v)
    BY <2>3 DEF Confined
  <2> QED BY <2>3, <2>4 DEF T
<1>2. CASE i \notin DOMAIN S.wins[v].buffer
  <2>1. T = [S EXCEPT !.stray = TRUE]
    BY <1>2 DEF Put
  <2> HIDE DEF T
  <2>2. Keeps(S, T) /\ SameCursors(S, T) /\ T.wins = S.wins
    BY <2>1, Strays
  <2>3. Confined(S, T, v)
    BY <2>2 DEF Confined
  <2> QED BY <1>2, <2>2, <2>3 DEF T
<1> QED BY <1>1, <1>2

LEMMA AtDoes ==
    ASSUME NEW S, Good(S), NEW v, IsWindow(S, v), NEW x \in Int, NEW y \in Int
    PROVE  LET T == At(S, v, x, y) IN
           /\ Keeps(S, T) /\ OtherCursors(S, T, v)
           /\ Tame(S) => Tidy(S, T, v)
           /\ x \in Short => T.wins[v].cx = x
           /\ y \in Short => T.wins[v].cy = y
<1>1. \A z \in Short : z % Word = z
  BY WindowAssumption DEF Short
<1> QED BY <1>1, AtKeeps DEF OtherCursors, Tidy, Tame

LEMMA CursorsBoth ==
    ASSUME NEW S, NEW T, NEW U, NEW v, Keeps(S, T), Keeps(T, U)
    PROVE  /\ OtherCursors(S, T, v) /\ OtherCursors(T, U, v) => OtherCursors(S, U, v)
           /\ OtherCursors(S, T, v) /\ SameCursors(T, U) => OtherCursors(S, U, v)
           /\ SameCursors(S, T) /\ OtherCursors(T, U, v) => OtherCursors(S, U, v)
BY DEF OtherCursors, SameCursors, Keeps, Alike

(* One cell, and the cursor moves.                                         *)
LEMMA PutAt ==
    ASSUME NEW S, Good(S), NEW v, IsWindow(S, v), NEW i, NEW x \in Int, NEW y \in Int
    PROVE  LET T == At(Put(S, v, i, "char"), v, x, y) IN
           /\ Keeps(S, T) /\ OtherCursors(S, T, v)
           /\ Tame(S) /\ i \in DOMAIN S.wins[v].buffer => Tidy(S, T, v)
           /\ x \in Short => T.wins[v].cx = x
           /\ y \in Short => T.wins[v].cy = y
<1> DEFINE P == Put(S, v, i, "char")
           T == At(P, v, x, y)
<1>1. /\ Keeps(S, P) /\ SameCursors(S, P) /\ Confined(S, P, v)
      /\ i \in DOMAIN S.wins[v].buffer => P.stray = S.stray
  BY PutDoes DEF Cell
<1> HIDE DEF P
<1>2. Good(P) /\ IsWindow(P, v)
  BY <1>1 DEF Keeps, Alike, IsWindow
<1>3. /\ Keeps(P, T) /\ OtherCursors(P, T, v)
      /\ Tame(P) => Tidy(P, T, v)
      /\ x \in Short => T.wins[v].cx = x
      /\ y \in Short => T.wins[v].cy = y
  BY <1>2, AtDoes
<1> HIDE DEF T
<1>4. ASSUME Tame(S), i \in DOMAIN S.wins[v].buffer PROVE Tidy(S, T, v)
  <2>1. Tame(P) /\ Tidy(S, P, v)
    BY <1>1, <1>4, NestedStays DEF Tame, Tidy
  <2> QED BY <1>1, <1>3, <1>4, <2>1, TidyBoth
<1> QED BY <1>1, <1>3, <1>4, KeepsBoth, CursorsBoth DEF P, T

LEMMA TypedDoes ==
    ASSUME NEW S, Good(S), NEW v, IsWindow(S, v), NEW c
    PROVE  LET T == Typed(S, v, c) IN
           /\ Keeps(S, T)
           /\ Tame(S) /\ Points(S, v) /\ (c = "\t" => S.wins[v].cx + 1 < S.wins[v].width)
              => /\ Tidy(S, T, v) /\ OtherCursors(S, T, v)
                 /\ T.wins[v].cx <= S.wins[v].width
                 /\ \/ T.wins[v].cy < S.wins[v].height
                    \/ T.wins[v].cx = 0 /\ T.wins[v].cy = S.wins[v].height
<1> DEFINE w == S.wins[v]
           i == w.cx + w.cy * w.width
           T == Typed(S, v, c)
<1>1. /\ w.cx \in Nat /\ w.cy \in Nat /\ w.width \in Nat /\ w.height \in Nat
      /\ w.width < Word /\ w.height < Word /\ Word \in Nat
      /\ DOMAIN w.buffer = 0..(w.width * w.height - 1)
  BY WindowIs, WindowAssumption DEF Short
<1>0. Points(S, v) <=> w.cx < w.width /\ w.cy < w.height
  BY DEF Points
<1>2. Points(S, v) => i \in DOMAIN w.buffer
  <2> HIDE DEF w
  <2> QED BY <1>0, <1>1, CellInside
<1>3. 0 \in Short /\ (Points(S, v) => w.cx + 1 \in Short /\ w.cy + 1 \in Short /\ w.cy \in Short)
  <2> HIDE DEF w
  <2>1. 0 < Word
    BY <1>1
  <2> QED BY <1>0, <1>1, <2>1 DEF Short
<1>4. CASE c = "\n"
  <2>1. T = At(S, v, 0, w.cy + 1)
    BY <1>4 DEF Typed
  <2> HIDE DEF T, w
  <2>2. /\ Keeps(S, T) /\ OtherCursors(S, T, v) /\ (Tame(S) => Tidy(S, T, v))
        /\ T.wins[v].cx = 0 /\ (Points(S, v) => T.wins[v].cy = w.cy + 1)
    BY <1>1, <1>3, <2>1, AtDoes
  <2>3. Points(S, v) => w.cy + 1 < w.height \/ w.cy + 1 = w.height
    BY <1>0, <1>1
  <2> QED BY <1>1, <2>2, <2>3 DEF T, w
<1>5. CASE c = "\t"
  <2> DEFINE P == Put(S, v, i, "char")
  <2>1. T = At(Put(P, v, i + 1, "char"), v, w.cx + 2, w.cy)
    BY <1>5 DEF Typed
  <2>2. /\ Keeps(S, P) /\ SameCursors(S, P) /\ Confined(S, P, v)
        /\ i \in DOMAIN S.wins[v].buffer => P.stray = S.stray
    BY PutDoes DEF Cell
  <2> HIDE DEF T, w, P, i
  <2>3. Good(P) /\ IsWindow(P, v) /\ DOMAIN P.wins[v].buffer = DOMAIN w.buffer
    BY <2>2, SameBuffers DEF Keeps, Alike, IsWindow, w
  <2>4. /\ Keeps(P, T) /\ OtherCursors(P, T, v)
        /\ Tame(P) /\ i + 1 \in DOMAIN w.buffer => Tidy(P, T, v)
        /\ w.cx + 2 \in Short => T.wins[v].cx = w.cx + 2
        /\ w.cy \in Short => T.wins[v].cy = w.cy
    BY <1>1, <2>1, <2>3, PutAt
  <2>5. ASSUME Tame(S), Points(S, v), w.cx + 1 < w.width
        PROVE  /\ Tidy(S, T, v) /\ T.wins[v].cx <= w.width /\ T.wins[v].cy < w.height
    <3>1. (w.cx + 1) + w.cy * w.width \in DOMAIN w.buffer
      <4>1. w.cx + 1 \in Nat /\ w.cx + 1 < w.width /\ w.cy < w.height
        BY <1>0, <1>1, <2>5
      <4> QED BY <1>1, <4>1, CellInside
    <3>2. w.cy * w.width \in Nat
      BY <1>1, Times
    <3>3. i + 1 \in DOMAIN w.buffer
      BY <1>1, <3>1, <3>2 DEF i
    <3>4. Tame(P) /\ Tidy(S, P, v)
      BY <1>2, <2>2, <2>5, NestedStays DEF Tame, Tidy, w
    <3>5. Tidy(S, T, v)
      BY <2>2, <2>4, <2>5, <3>3, <3>4, TidyBoth
    <3>6. w.cx + 2 \in Short /\ w.cy \in Short /\ w.cy < w.height
      BY <1>0, <1>1, <2>5 DEF Short
    <3> QED BY <1>1, <2>4, <2>5, <3>5, <3>6
  <2>6. Keeps(S, T) /\ OtherCursors(S, T, v)
    BY <2>2, <2>4, KeepsBoth, CursorsBoth
  <2> QED BY <1>5, <2>5, <2>6 DEF T, w
<1>6. CASE c # "\n" /\ c # "\t"
  <2>1. T = At(Put(S, v, i, "char"), v, w.cx + 1, w.cy)
    BY <1>6 DEF Typed
  <2> HIDE DEF T, w, i
  <2>2. /\ Keeps(S, T) /\ OtherCursors(S, T, v)
        /\ Tame(S) /\ i \in DOMAIN w.buffer => Tidy(S, T, v)
        /\ w.cx + 1 \in Short => T.wins[v].cx = w.cx + 1
        /\ w.cy \in Short => T.wins[v].cy = w.cy
    <3>1. w.cx + 1 \in Int /\ w.cy \in Int
      BY <1>1
    <3>2. DOMAIN S.wins[v].buffer = DOMAIN w.buffer
      BY DEF w
    <3> QED BY <2>1, <3>1, <3>2, PutAt
  <2>3. Points(S, v) => w.cx + 1 <= w.width /\ w.cy < w.height
    BY <1>0, <1>1
  <2> QED BY <1>2, <1>3, <1>6, <2>2, <2>3 DEF T, w
<1> QED BY <1>4, <1>5, <1>6
LEMMA BrokenDoes ==
    ASSUME NEW S, Good(S), NEW v, IsWindow(S, v)
    PROVE  LET T == Broken(S, v) IN
           /\ Keeps(S, T) /\ OtherCursors(S, T, v)
           /\ Tame(S) => Tidy(S, T, v)
           /\ /\ S.wins[v].cx <= S.wins[v].width /\ S.wins[v].width > 0
              /\ \/ S.wins[v].cy < S.wins[v].height
                 \/ S.wins[v].cx = 0 /\ S.wins[v].cy = S.wins[v].height
              => /\ T.wins[v].cx < S.wins[v].width /\ T.wins[v].cy <= S.wins[v].height
                 /\ T.wins[v].cy = S.wins[v].height => T.wins[v].cx = 0
<1> DEFINE w == S.wins[v]
           T == Broken(S, v)
<1>1. /\ w.cx \in Nat /\ w.cy \in Nat /\ w.width \in Nat /\ w.height \in Nat
      /\ w.width < Word /\ w.height < Word /\ Word \in Nat
  BY WindowIs, WindowAssumption DEF Short
<1>2. CASE w.cx >= w.width
  <2>1. T = At(S, v, 0, w.cy + 1)
    BY <1>2 DEF Broken
  <2>2. 0 \in Short /\ (w.cy < w.height => w.cy + 1 \in Short)
    <3> HIDE DEF w
    <3> QED BY <1>1 DEF Short
  <2>3. /\ Keeps(S, T) /\ OtherCursors(S, T, v) /\ (Tame(S) => Tidy(S, T, v))
        /\ T.wins[v].cx = 0 /\ (w.cy < w.height => T.wins[v].cy = w.cy + 1)
    <3>1. w.cy + 1 \in Int
      BY <1>1
    <3> HIDE DEF T, w
    <3> QED BY <2>1, <2>2, <3>1, AtDoes
  <2> HIDE DEF T
  <2>4. ASSUME /\ w.cx <= w.width /\ w.width > 0
               /\ w.cy < w.height \/ (w.cx = 0 /\ w.cy = w.height)
        PROVE  T.wins[v].cx < w.width /\ T.wins[v].cy <= w.height
    <3> HIDE DEF w
    <3>1. w.cy < w.height
      BY <1>1, <1>2, <2>4
    <3> QED BY <1>1, <2>3, <2>4, <3>1
  <2> QED BY <2>3, <2>4 DEF T
<1>3. CASE ~(w.cx >= w.width)
  <2>1. T = S
    BY <1>3 DEF Broken
  <2>2. w.cx < w.width
    BY <1>1, <1>3
  <2>3. /\ Keeps(S, S) /\ SameCursors(S, S) /\ Confined(S, S, v)
    BY KeepsSelf
  <2>4. OtherCursors(S, S, v) /\ (Tame(S) => Tidy(S, S, v))
    BY <2>3 DEF OtherCursors, Tidy, Tame
  <2>5. w.cy < w.height \/ (w.cx = 0 /\ w.cy = w.height) =>
          w.cy <= w.height /\ (w.cy = w.height => w.cx = 0)
    <3> HIDE DEF w
    <3> QED BY <1>1
  <2> QED BY <2>1, <2>2, <2>3, <2>4, <2>5
<1> QED BY <1>2, <1>3

LEMMA ScrolledDoes ==
    ASSUME NEW S, Good(S), NEW v, IsWindow(S, v)
    PROVE  LET T == Scrolled(S, v) IN
           /\ Keeps(S, T)
           /\ Tame(S) /\ S.wins[v].height > 0 => Tidy(S, T, v) /\ OtherCursors(S, T, v)
           /\ /\ S.wins[v].cx < S.wins[v].width /\ S.wins[v].cy <= S.wins[v].height
              /\ S.wins[v].cy = S.wins[v].height => S.wins[v].cx = 0
              /\ S.wins[v].height > 0
              => Points(T, v)
<1> DEFINE w == S.wins[v]
           A == At(S, v, 0, w.cy - 1)
           T == Scrolled(S, v)
<1>1. /\ w.cx \in Nat /\ w.cy \in Nat /\ w.width \in Nat /\ w.height \in Nat
      /\ w.width < Word /\ w.height < Word /\ Word \in Nat /\ v \in Handles
  BY WindowIs, WindowAssumption DEF Short
<1>2. CASE w.cy >= w.height
  <2>1. T = Scroll(A, v, 1)
    BY <1>2 DEF Scrolled
  <2>2. 0 \in Short /\ (w.cy <= w.height /\ w.height > 0 => w.cy - 1 \in Short)
    <3> HIDE DEF w, A, T
    <3>1. w.cy <= w.height /\ w.height > 0 => w.cy - 1 \in Nat /\ w.cy - 1 <= Word - 1
      BY <1>1, <1>2
    <3> QED BY <1>1, <3>1 DEF Short
  <2>3. /\ Keeps(S, A) /\ OtherCursors(S, A, v) /\ (Tame(S) => Tidy(S, A, v))
        /\ A.wins[v].cx = 0
        /\ w.cy <= w.height /\ w.height > 0 => A.wins[v].cy = w.cy - 1
    <3>1. w.cy - 1 \in Int
      BY <1>1
    <3> HIDE DEF w, T
    <3> QED BY <2>2, <3>1, AtDoes
  <2> HIDE DEF A, T
  <2>4. Good(A) /\ IsWindow(A, v) /\ A.wins[v].height = w.height /\ A.wins[v].width = w.width
    BY <2>3 DEF Keeps, Alike, IsWindow
  <2>5. /\ Keeps(A, T) /\ SameCursors(A, T)
        /\ Tame(A) /\ 1 <= w.height => Tidy(A, T, v)
    BY <2>1, <2>4, ScrollDoes
  <2>6. Keeps(S, T) /\ OtherCursors(S, T, v)
    BY <2>3, <2>5, KeepsBoth, CursorsBoth
  <2>7. ASSUME Tame(S), w.height > 0 PROVE Tidy(S, T, v)
    <3>1. Tame(A) /\ Tidy(S, A, v)
      BY <2>3, <2>7, NestedStays DEF Tidy
    <3>2. 1 <= w.height
      BY <1>1, <2>7
    <3> QED BY <2>3, <2>5, <2>7, <3>1, <3>2, TidyBoth
  <2>8. ASSUME w.cx < w.width, w.cy <= w.height, w.height > 0
        PROVE  Points(T, v)
    <3>1. T.wins[v].cx = 0 /\ T.wins[v].cy = w.cy - 1
      BY <1>1, <2>3, <2>4, <2>5, <2>8 DEF SameCursors
    <3>2. T.wins[v].width = w.width /\ T.wins[v].height = w.height
      BY <1>1, <2>4, <2>5 DEF Keeps, Alike
    <3>3. w.cy - 1 < w.height /\ 0 < w.width
      <4> HIDE DEF w
      <4> QED BY <1>1, <2>8
    <3> QED BY <3>1, <3>2, <3>3 DEF Points
  <2> QED BY <2>6, <2>7, <2>8 DEF T
<1>3. CASE ~(w.cy >= w.height)
  <2>1. T = S
    BY <1>3 DEF Scrolled
  <2>2. w.cy < w.height
    BY <1>1, <1>3
  <2>3. /\ Keeps(S, S) /\ SameCursors(S, S) /\ Confined(S, S, v)
    BY KeepsSelf
  <2>4. OtherCursors(S, S, v) /\ (Tame(S) => Tidy(S, S, v))
    BY <2>3 DEF OtherCursors, Tidy, Tame
  <2> QED BY <2>1, <2>2, <2>3, <2>4 DEF Points
<1> QED BY <1>2, <1>3

(* One round of window_write.                                              *)
WriteRound(S, v, c) == Scrolled(Broken(Typed(S, v, c), v), v)

LEMMA RoundDoes ==
    ASSUME NEW S, Good(S), NEW v, IsWindow(S, v), NEW c
    PROVE  LET T == WriteRound(S, v, c) IN
           /\ Keeps(S, T)
           /\ Tame(S) /\ Points(S, v) /\ (c = "\t" => S.wins[v].cx + 1 < S.wins[v].width)
              => Tidy(S, T, v) /\ OtherCursors(S, T, v) /\ Points(T, v)
<1> DEFINE A == Typed(S, v, c)
           B == Broken(A, v)
           T == Scrolled(B, v)
<1>1. /\ Keeps(S, A)
      /\ Tame(S) /\ Points(S, v) /\ (c = "\t" => S.wins[v].cx + 1 < S.wins[v].width)
              => /\ Tidy(S, A, v) /\ OtherCursors(S, A, v)
                 /\ A.wins[v].cx <= S.wins[v].width
                 /\ \/ A.wins[v].cy < S.wins[v].height
                    \/ A.wins[v].cx = 0 /\ A.wins[v].cy = S.wins[v].height
  BY TypedDoes
<1> HIDE DEF A
<1>2. /\ Good(A) /\ IsWindow(A, v)
      /\ A.wins[v].width = S.wins[v].width /\ A.wins[v].height = S.wins[v].height
  BY <1>1 DEF Keeps, Alike, IsWindow
<1>3. /\ Keeps(A, B) /\ OtherCursors(A, B, v)
      /\ Tame(A) => Tidy(A, B, v)
      /\ /\ A.wins[v].cx <= A.wins[v].width /\ A.wins[v].width > 0
         /\ \/ A.wins[v].cy < A.wins[v].height
            \/ A.wins[v].cx = 0 /\ A.wins[v].cy = A.wins[v].height
         => /\ B.wins[v].cx < A.wins[v].width /\ B.wins[v].cy <= A.wins[v].height
            /\ B.wins[v].cy = A.wins[v].height => B.wins[v].cx = 0
  BY <1>2, BrokenDoes
<1> HIDE DEF B
<1>4. /\ Good(B) /\ IsWindow(B, v)
      /\ B.wins[v].width = S.wins[v].width /\ B.wins[v].height = S.wins[v].height
  BY <1>2, <1>3 DEF Keeps, Alike, IsWindow
<1>5. /\ Keeps(B, T)
      /\ Tame(B) /\ B.wins[v].height > 0 => Tidy(B, T, v) /\ OtherCursors(B, T, v)
      /\ /\ B.wins[v].cx < B.wins[v].width /\ B.wins[v].cy <= B.wins[v].height
         /\ B.wins[v].cy = B.wins[v].height => B.wins[v].cx = 0
         /\ B.wins[v].height > 0
         => Points(T, v)
  BY <1>4, ScrolledDoes
<1> HIDE DEF T
<1>6. Keeps(S, T)
  BY <1>1, <1>3, <1>5, KeepsBoth
<1>7. ASSUME Tame(S), Points(S, v), c = "\t" => S.wins[v].cx + 1 < S.wins[v].width
      PROVE  Tidy(S, T, v) /\ OtherCursors(S, T, v) /\ Points(T, v)
  <2>1. S.wins[v].width > 0 /\ S.wins[v].height > 0
    <3>1. /\ S.wins[v].cx \in Nat /\ S.wins[v].cy \in Nat
          /\ S.wins[v].width \in Nat /\ S.wins[v].height \in Nat
      BY WindowIs, WindowAssumption DEF Short
    <3> QED BY <1>7, <3>1 DEF Points
  <2>2. Tidy(S, A, v) /\ Tame(A) /\ OtherCursors(S, A, v)
    BY <1>1, <1>7, NestedStays DEF Tidy
  <2>3. Tidy(A, B, v) /\ Tame(B)
    BY <1>3, <2>2, NestedStays DEF Tidy
  <2>4. Tidy(B, T, v) /\ OtherCursors(B, T, v)
    BY <1>4, <1>5, <2>1, <2>3
  <2>5. Keeps(S, B) /\ Tidy(S, B, v) /\ OtherCursors(S, B, v)
    BY <1>1, <1>3, <1>7, <2>2, <2>3, TidyBoth, CursorsBoth
  <2>6. Tidy(S, T, v) /\ OtherCursors(S, T, v)
    BY <1>5, <1>7, <2>4, <2>5, TidyBoth, CursorsBoth
  <2>7. Points(T, v)
    BY <1>1, <1>2, <1>3, <1>4, <1>5, <1>7, <2>1
  <2> QED BY <2>6, <2>7
<1> QED BY <1>6, <1>7 DEF T, B, A, WriteRound

(* The loop of window_write.                                               *)
Written(S, v, text) ==
    CHOOSE f : f = [n \in 0..Len(text) |->
                      IF n = 0 THEN S ELSE WriteRound(f[n - 1], v, text[n])]

LEMMA WriteIs ==
    ASSUME NEW S, NEW v, NEW text
    PROVE  LET T == Written(S, v, text)[Len(text)] IN
           Write(S, v, text) = Redraw(SetCursor(T, v, T.wins[v].cx, T.wins[v].cy), v)
BY DEF Write, Written, WriteRound

(* A tab comes first or not at all, and has room.                          *)
Room(S, v, text) ==
    \A i \in 1..Len(text) : text[i] = "\t" => i = 1 /\ S.wins[v].cx + 1 < S.wins[v].width

LEMMA WrittenDoes ==
    ASSUME NEW S, Good(S), NEW v, IsWindow(S, v), NEW text \in Seq(STRING)
    PROVE  LET T == Written(S, v, text)[Len(text)] IN
           /\ Keeps(S, T)
           /\ Tame(S) /\ Points(S, v) /\ Room(S, v, text)
              => Tidy(S, T, v) /\ OtherCursors(S, T, v) /\ Points(T, v)
<1> DEFINE P == Tame(S) /\ Points(S, v) /\ Room(S, v, text)
           N == Len(text)
           D == {T \in Screens : /\ Keeps(S, T)
                                 /\ P => Tidy(S, T, v) /\ OtherCursors(S, T, v) /\ Points(T, v)}
           F == [n \in 1..N |-> [T \in D |-> WriteRound(IF n = 1 THEN S ELSE T, v, text[n])]]
<1>1. N \in Nat
  OBVIOUS
<1>2. S \in D
  <2>1. Keeps(S, S) /\ SameCursors(S, S) /\ Confined(S, S, v)
    BY KeepsSelf
  <2> QED BY <2>1 DEF Good, Tidy, Tame, OtherCursors
<1>3. ASSUME NEW T \in D, NEW n \in 1..N, n = 1 => T = S
      PROVE  WriteRound(T, v, text[n]) \in D
  <2> DEFINE U == WriteRound(T, v, text[n])
  <2>1. Good(T) /\ Keeps(S, T) /\ IsWindow(T, v)
    BY DEF Keeps, Alike, IsWindow
  <2>2. /\ Keeps(T, U)
        /\ Tame(T) /\ Points(T, v) /\ (text[n] = "\t" => T.wins[v].cx + 1 < T.wins[v].width)
              => Tidy(T, U, v) /\ OtherCursors(T, U, v) /\ Points(U, v)
    BY <2>1, RoundDoes
  <2> HIDE DEF U
  <2>3. Keeps(S, U) /\ U \in Screens
    BY <2>1, <2>2, KeepsBoth DEF Keeps, Good
  <2>4. ASSUME P PROVE Tidy(S, U, v) /\ OtherCursors(S, U, v) /\ Points(U, v)
    <3>1. Tidy(S, T, v) /\ OtherCursors(S, T, v) /\ Points(T, v)
      BY <2>4
    <3>2. Tame(T)
      BY <2>1, <2>4, <3>1, NestedStays DEF Tidy
    <3>3. text[n] = "\t" => T.wins[v].cx + 1 < T.wins[v].width
      BY <1>3, <2>4 DEF Room
    <3> QED BY <2>1, <2>2, <2>4, <3>1, <3>2, <3>3, TidyBoth, CursorsBoth
  <2> QED BY <2>3, <2>4 DEF U
<1>4. F \in [1..N -> [D -> D]]
  BY <1>2, <1>3
<1> DEFINE Step(f) == [n \in 0..N |-> IF n = 0 THEN S ELSE WriteRound(f[n - 1], v, text[n])]
<1>5. \E f : f = Step(f)
  <2>1. PICK f \in [0..N -> D] : Rounds(f, N, S, F)
    <3> HIDE DEF D, F, N
    <3> QED BY <1>1, <1>2, <1>4, LoopExists
  <2>2. ASSUME NEW n \in 1..N PROVE F[n][f[n - 1]] = WriteRound(f[n - 1], v, text[n])
    <3>1. n - 1 \in 0..N /\ f[n - 1] \in D
      BY <1>1, <2>1
    <3>2. n = 1 => f[n - 1] = S
      BY <1>1, <2>1 DEF Rounds
    <3> QED BY <3>1, <3>2
  <2>3. \A n \in 0..N : f[n] = IF n = 0 THEN S ELSE WriteRound(f[n - 1], v, text[n])
    <3> SUFFICES ASSUME NEW n \in 0..N
                 PROVE  f[n] = IF n = 0 THEN S ELSE WriteRound(f[n - 1], v, text[n])
      OBVIOUS
    <3>1. f[n] = IF n = 0 THEN S ELSE F[n][f[n - 1]]
      <4> HIDE DEF F, D, N
      <4> QED BY <2>1 DEF Rounds
    <3> QED BY <1>1, <2>2, <3>1
  <2>4. f = Step(f)
    <3> HIDE DEF D, F, N
    <3> QED BY <2>1, <2>3
  <2> QED BY <2>4
<1> DEFINE g == Written(S, v, text)
<1>6. g = Step(g)
  BY <1>5 DEF Written
<1>7. g[0] = S /\ \A n \in 1..N : g[n] = WriteRound(g[n - 1], v, text[n])
  <2> HIDE DEF g
  <2> QED BY <1>1, <1>6
<1> DEFINE good == {n \in 0..N : g[n] \in D}
<1>8. 0 \in good
  BY <1>1, <1>2, <1>7
<1>9. ASSUME NEW n \in 1..N, n - 1 \in good PROVE n \in good
  <2> HIDE DEF D, g
  <2>1. g[n - 1] \in D /\ (n = 1 => g[n - 1] = S) /\ n \in 0..N
    BY <1>7, <1>9
  <2> QED BY <1>3, <1>7, <2>1
<1>10. \A n \in 0..N : n \in good
  <2> HIDE DEF good, N
  <2> QED BY <1>1, <1>8, <1>9, Count
<1>11. g[N] \in D
  <2> HIDE DEF D, g
  <2> QED BY <1>1, <1>10
<1> QED BY <1>11

-----------------------------------------------------------------------------
(* The cursor in all parents.                                              *)

SameCells(S, T) ==
    \A u \in Handles : IsWindow(S, u) => T.wins[u].buffer = S.wins[u].buffer
PointsStay(S, T) ==
    \A u \in Handles : IsWindow(S, u) /\ Points(S, u) => Points(T, u)

(* The way from a window up to one that has no parent.                     *)
Start(S, v, x, y) == [S |-> S, at |-> v, x |-> x, y |-> y]
Climb(S, r) == IF IsWindow(S, r.at) THEN Ascend(r) ELSE r
Climbed(S, v, x, y) ==
    CHOOSE f : f = [n \in 0..Cardinality(Handles) |->
                      IF n = 0 THEN Start(S, v, x, y) ELSE Climb(S, f[n - 1])]

LEMMA SetCursorIs ==
    ASSUME NEW S, NEW v, NEW x, NEW y
    PROVE  SetCursor(S, v, x, y) = Climbed(S, v, x, y)[Cardinality(Handles)].S
BY DEF SetCursor, Climbed, Start, Climb

(* On the way: the cursors that are behind are in their windows, and the   *)
(* next one is in the window it is for.                                    *)
OnTheWay(S) ==
    {r \in [S : Screens, at : Handles \union {Null}, x : Nat, y : Nat] :
        /\ Keeps(S, r.S) /\ SameCells(S, r.S) /\ r.S.stray = S.stray}
Climbing(S, r) ==
    /\ PointsStay(S, r.S)
    /\ IsWindow(r.S, r.at) =>
          r.x < r.S.wins[r.at].width /\ r.y < r.S.wins[r.at].height

LEMMA ClimbDoes ==
    ASSUME NEW S, Good(S), NEW r \in OnTheWay(S)
    PROVE  /\ Climb(S, r) \in OnTheWay(S)
           /\ Tame(S) /\ Climbing(S, r) => Climbing(S, Climb(S, r))
<1>1. CASE ~IsWindow(S, r.at)
  BY <1>1 DEF Climb
<1>2. CASE IsWindow(S, r.at)
  <2> DEFINE T == r.S
             a == r.at
             w == T.wins[a]
             U == At(T, a, r.x, r.y)
             q == Climb(S, r)
  <2>1. /\ T \in Screens /\ a \in Handles \union {Null} /\ r.x \in Nat /\ r.y \in Nat
        /\ Keeps(S, T) /\ SameCells(S, T) /\ T.stray = S.stray /\ Good(T)
        /\ IsWindow(T, a)
    BY <1>2 DEF OnTheWay, Keeps, Alike, IsWindow
  <2>2. q = [S |-> U, at |-> w.parent, x |-> r.x + w.x, y |-> r.y + w.y]
    BY <1>2 DEF Climb, Ascend
  <2> HIDE DEF q
  <2>3. /\ a \in Handles /\ w.parent \in Handles \union {Null} /\ w.x \in Nat /\ w.y \in Nat
        /\ w.width \in Nat /\ w.height \in Nat /\ w.width < Word /\ w.height < Word
        /\ Word \in Nat
    <3>1. /\ a \in Handles /\ w.parent \in Handles \union {Null} /\ w.x \in Short /\ w.y \in Short
          /\ w.width \in Short /\ w.height \in Short
      BY <2>1, WindowIs
    <3> HIDE DEF w
    <3> QED BY <3>1, WindowAssumption DEF Short
  <2>4. /\ Keeps(T, U) /\ U.stray = T.stray
        /\ U.wins[a].cx = r.x % Word /\ U.wins[a].cy = r.y % Word
        /\ U.wins[a].buffer = w.buffer
        /\ \A u \in Handles : u # a => U.wins[u] = T.wins[u]
    <3>1. r.x \in Int /\ r.y \in Int
      BY <2>1
    <3> HIDE DEF U
    <3> QED BY <2>1, <3>1, AtKeeps DEF U
  <2> HIDE DEF U
  <2>5. Keeps(S, U) /\ SameCells(S, U) /\ U.stray = S.stray /\ U \in Screens
    <3>1. Keeps(S, U) /\ U \in Screens
      BY <2>1, <2>4, KeepsBoth DEF Keeps, Good
    <3>2. SameCells(S, U)
      BY <2>1, <2>4 DEF SameCells
    <3> QED BY <2>1, <2>4, <3>1, <3>2
  <2>6. q \in OnTheWay(S)
    <3>1. r.x + w.x \in Nat /\ r.y + w.y \in Nat
      BY <2>1, <2>3
    <3> HIDE DEF w
    <3> QED BY <2>2, <2>3, <2>5, <3>1 DEF OnTheWay
  <2>7. ASSUME Tame(S), Climbing(S, r) PROVE Climbing(S, q)
    <3>1. r.x < w.width /\ r.y < w.height /\ PointsStay(S, T)
      BY <1>2, <2>1, <2>7 DEF Climbing
    <3>2. U.wins[a].cx = r.x /\ U.wins[a].cy = r.y
      <4>1. r.x \in 0..(Word - 1) /\ r.y \in 0..(Word - 1)
        <5> HIDE DEF w
        <5> QED BY <2>1, <2>3, <3>1
      <4>2. r.x % Word = r.x /\ r.y % Word = r.y
        BY <2>3, <4>1
      <4> QED BY <2>4, <4>2
    <3>3. Points(U, a)
      <4>1. U.wins[a].width = w.width /\ U.wins[a].height = w.height
        BY <2>1, <2>3, <2>4 DEF Keeps, Alike
      <4> QED BY <3>1, <3>2, <4>1 DEF Points
    <3>4. PointsStay(S, U)
      BY <2>4, <3>1, <3>3 DEF PointsStay, Points
    <3>5. ASSUME IsWindow(U, w.parent)
          PROVE  r.x + w.x < U.wins[w.parent].width /\ r.y + w.y < U.wins[w.parent].height
      <4> DEFINE b == w.parent
                 p == T.wins[b]
      <4>1. a # Native /\ b \in Handles
        BY <2>1, <2>3, <3>5, WindowAssumption DEF Good, IsWindow
      <4>2. Tame(T) /\ IsWindow(T, b) /\ U.wins[b].width = p.width /\ U.wins[b].height = p.height
        <5>1. Tame(T)
          BY <2>1, <2>7, NestedStays DEF Tame
        <5>2. IsWindow(U, b)
          BY <3>5
        <5> HIDE DEF b
        <5> QED BY <2>4, <4>1, <5>1, <5>2 DEF Keeps, Alike
      <4>3. Inside(w, p)
        BY <2>1, <2>3, <4>1, <4>2 DEF Tame, Nested
      <4>4. p.width \in Nat /\ p.height \in Nat
        <5>1. p.width \in Short /\ p.height \in Short
          BY <2>1, <4>2, WindowIs
        <5> HIDE DEF p
        <5> QED BY <5>1, WindowAssumption DEF Short
      <4>5. r.x + w.x < p.width /\ r.y + w.y < p.height
        <5>1. w.x + w.width <= p.width /\ w.y + w.height <= p.height
          BY <4>3 DEF Inside
        <5> HIDE DEF w, p
        <5> QED BY <2>1, <2>3, <3>1, <4>4, <5>1
      <4> QED BY <4>2, <4>5
    <3> HIDE DEF w
    <3> QED BY <2>2, <3>4, <3>5 DEF Climbing
  <2> QED BY <2>6, <2>7 DEF q
<1> QED BY <1>1, <1>2

(* window_set_cursor_pos changes cursors only, and keeps those that are in *)
(* their windows there.                                                    *)
LEMMA SetCursorDoes ==
    ASSUME NEW S, Good(S), NEW v, IsWindow(S, v), NEW x \in Nat, NEW y \in Nat
    PROVE  LET T == SetCursor(S, v, x, y) IN
           /\ Keeps(S, T) /\ SameCells(S, T) /\ T.stray = S.stray
           /\ Tame(S) /\ x < S.wins[v].width /\ y < S.wins[v].height => PointsStay(S, T)
<1> DEFINE P == Tame(S) /\ x < S.wins[v].width /\ y < S.wins[v].height
           N == Cardinality(Handles)
           D == {r \in OnTheWay(S) : P => Climbing(S, r)}
           base == Start(S, v, x, y)
           F == [n \in 1..N |-> [r \in D |-> Climb(S, r)]]
           Step(f) == [n \in 0..N |-> IF n = 0 THEN base ELSE Climb(S, f[n - 1])]
<1>1. N \in Nat
  <2>1. IsFiniteSet(Handles)
    BY WindowAssumption, FS_Singleton, FS_Union DEF Handles
  <2> QED BY <2>1, FS_CardinalityType
<1>2. base \in D
  <2>1. v \in Handles /\ S \in Screens /\ Keeps(S, S)
    BY KeepsSelf DEF IsWindow, Good
  <2>2. base \in OnTheWay(S)
    BY <2>1 DEF OnTheWay, Start, SameCells
  <2>3. P => Climbing(S, base)
    BY DEF Climbing, Start, PointsStay
  <2> QED BY <2>2, <2>3
<1>3. ASSUME NEW r \in D PROVE Climb(S, r) \in D
  BY ClimbDoes
<1> HIDE DEF P, D, base
<1>4. F \in [1..N -> [D -> D]]
  BY <1>3
<1>5. \E f : f = Step(f)
  <2>1. PICK f \in [0..N -> D] : Rounds(f, N, base, F)
    <3> HIDE DEF F, N
    <3> QED BY <1>1, <1>2, <1>4, LoopExists
  <2>2. ASSUME NEW n \in 1..N PROVE F[n][f[n - 1]] = Climb(S, f[n - 1])
    <3>1. n - 1 \in 0..N /\ f[n - 1] \in D
      BY <1>1, <2>1
    <3> QED BY <3>1
  <2>3. \A n \in 0..N : f[n] = IF n = 0 THEN base ELSE Climb(S, f[n - 1])
    <3> SUFFICES ASSUME NEW n \in 0..N
                 PROVE  f[n] = IF n = 0 THEN base ELSE Climb(S, f[n - 1])
      OBVIOUS
    <3>1. f[n] = IF n = 0 THEN base ELSE F[n][f[n - 1]]
      <4> HIDE DEF F, N
      <4> QED BY <2>1 DEF Rounds
    <3> QED BY <1>1, <2>2, <3>1
  <2>4. f = Step(f)
    <3> HIDE DEF F, N
    <3> QED BY <2>1, <2>3
  <2> QED BY <2>4
<1> DEFINE g == Climbed(S, v, x, y)
<1>6. g = Step(g)
  BY <1>5 DEF Climbed, base
<1>7. g[0] = base /\ \A n \in 1..N : g[n] = Climb(S, g[n - 1])
  <2> HIDE DEF g, N
  <2> QED BY <1>1, <1>6
<1> DEFINE good == {n \in 0..N : g[n] \in D}
<1>8. 0 \in good
  BY <1>1, <1>2, <1>7
<1>9. ASSUME NEW n \in 1..N, n - 1 \in good PROVE n \in good
  <2> HIDE DEF g
  <2>1. g[n - 1] \in D /\ n \in 0..N
    BY <1>9
  <2> QED BY <1>3, <1>7, <2>1
<1>10. \A n \in 0..N : n \in good
  <2> HIDE DEF good, N
  <2> QED BY <1>1, <1>8, <1>9, Count
<1>11. g[N] \in D
  <2> HIDE DEF g, N
  <2> QED BY <1>1, <1>10
<1>12. SetCursor(S, v, x, y) = g[N].S
  BY SetCursorIs
<1> HIDE DEF g, N
<1> QED BY <1>11, <1>12 DEF D, P, OnTheWay, Climbing

-----------------------------------------------------------------------------
(* What an operation on window v does, of a careful process.               *)

(* The cells that are in both sizes of a window are kept.                  *)
Kept(o, w) ==
    <<w.width, w.height>> # <<o.width, o.height>> =>
        \A x \in 0..(Min2(o.width, w.width) - 1), y \in 0..(Min2(o.height, w.height) - 1) :
            w.buffer[x + y * w.width] = o.buffer[x + y * o.width]

SameFrame(o, w) ==
    /\ w.parent = o.parent /\ w.x = o.x /\ w.y = o.y
    /\ w.width = o.width /\ w.height = o.height /\ w.visible = o.visible

Effect(S, T, v) ==
    /\ Tame(T) /\ PointsStay(S, T)
    /\ \A u \in Handles : IsWindow(T, u) <=> IsWindow(S, u)
    /\ T.wins[v].parent = S.wins[v].parent
    /\ \A u \in Handles \ {v} : IsWindow(S, u) =>
          /\ SameFrame(S.wins[u], T.wins[u])
          /\ \A i \in DOMAIN S.wins[u].buffer :
                \/ T.wins[u].buffer[i] = S.wins[u].buffer[i]
                \/ u = S.wins[v].parent /\ InRectangle(T.wins[v], i, S.wins[u].width)
    /\ Look(T.wins[v]) = Look(S.wins[v]) \/ Seen(T, v)
    /\ Kept(S.wins[v], T.wins[v])

LEMMA TidyEffect ==
    ASSUME NEW S, Tame(S), NEW v, IsWindow(S, v), NEW T, Keeps(S, T), Tidy(S, T, v),
           PointsStay(S, T), Look(T.wins[v]) = Look(S.wins[v]) \/ Seen(T, v)
    PROVE  Effect(S, T, v)
<1>1. Tame(T) /\ v \in Handles
  BY NestedStays DEF Tidy, IsWindow
<1>2. /\ \A u \in Handles : IsWindow(T, u) <=> IsWindow(S, u)
      /\ \A u \in Handles : IsWindow(S, u) => SameFrame(S.wins[u], T.wins[u])
  BY DEF Keeps, Alike, SameFrame
<1>3. /\ T.wins[v].parent = S.wins[v].parent /\ Kept(S.wins[v], T.wins[v])
      /\ T.wins[v].x = S.wins[v].x /\ T.wins[v].y = S.wins[v].y
      /\ T.wins[v].width = S.wins[v].width /\ T.wins[v].height = S.wins[v].height
  BY <1>1, <1>2 DEF SameFrame, Kept
<1>4. \A u \in Handles \ {v} : IsWindow(S, u) =>
        \A i \in DOMAIN S.wins[u].buffer :
            \/ T.wins[u].buffer[i] = S.wins[u].buffer[i]
            \/ u = S.wins[v].parent /\ InRectangle(T.wins[v], i, S.wins[u].width)
  BY <1>3 DEF Tidy, Confined, InRectangle
<1> QED BY <1>1, <1>2, <1>3, <1>4 DEF Effect

LEMMA SameCursorsStay ==
    ASSUME NEW S, NEW T, Keeps(S, T), SameCursors(S, T)
    PROVE  PointsStay(S, T)
BY DEF Keeps, Alike, SameCursors, PointsStay, Points

(* A window is replaced by one with the same parent, and drawn.            *)
LEMMA ChangedDoes ==
    ASSUME NEW S, Good(S), NEW v, IsWindow(S, v), v # Native,
           NEW w \in Window, Sized(w), w.parent = S.wins[v].parent
    PROVE  LET T == Redraw([S EXCEPT !.wins[v] = w], v) IN
           /\ Good(T)
           /\ /\ Tame(S) /\ Inside(w, S.wins[w.parent])
              /\ \A c \in Handles : IsWindow(S, c) /\ S.wins[c].parent = v /\ c # v
                    => Inside(S.wins[c], w)
              /\ w.cx = S.wins[v].cx /\ w.cy = S.wins[v].cy
              /\ Points(S, v) => w.cx < w.width /\ w.cy < w.height
              /\ Kept(S.wins[v], w)
              => Effect(S, T, v)
<1> DEFINE F == [S EXCEPT !.wins[v] = w]
           T == Redraw(F, v)
<1>1. w.parent \in Handles /\ v \in Handles
  BY WindowIs
<1>2. /\ Good(F) /\ F.wins[v] = w /\ F.stray = S.stray
      /\ \A u \in Handles : IsWindow(F, u) <=> IsWindow(S, u)
      /\ \A u \in Handles : u # v => F.wins[u] = S.wins[u]
  BY <1>1, Replaced
<1> HIDE DEF F
<1>3. IsWindow(F, v)
  BY <1>1, <1>2
<1>4. Keeps(F, T) /\ SameCursors(F, T) /\ Good(T)
  BY <1>2, <1>3, RedrawKeeps DEF Keeps
<1>5. ASSUME /\ Tame(S) /\ Inside(w, S.wins[w.parent])
             /\ \A c \in Handles : IsWindow(S, c) /\ S.wins[c].parent = v /\ c # v
                   => Inside(S.wins[c], w)
             /\ w.cx = S.wins[v].cx /\ w.cy = S.wins[v].cy
             /\ Points(S, v) => w.cx < w.width /\ w.cy < w.height
             /\ Kept(S.wins[v], w)
      PROVE  Effect(S, T, v)
  <2>1. Tame(F)
    <3>1. \A u \in Handles \ {Native} : IsWindow(S, u) =>
             /\ S.wins[u].parent \in Handles /\ S.wins[u].parent # u
             /\ IsWindow(S, S.wins[u].parent)
             /\ Inside(S.wins[u], S.wins[S.wins[u].parent])
      BY <1>5 DEF Tame, Nested, IsWindow
    <3>2. ASSUME NEW u \in Handles \ {Native}, IsWindow(F, u)
          PROVE  /\ F.wins[u].parent # u /\ IsWindow(F, F.wins[u].parent)
                 /\ Inside(F.wins[u], F.wins[F.wins[u].parent])
      <4>1. IsWindow(S, u)
        BY <1>2, <3>2
      <4>2. CASE u = v
        BY <1>1, <1>2, <1>5, <3>1, <4>1, <4>2
      <4>3. CASE u # v
        <5>1. F.wins[u] = S.wins[u]
          BY <1>2, <4>3
        <5>2. CASE S.wins[u].parent = v
          BY <1>2, <1>3, <1>5, <3>1, <4>1, <4>3, <5>1, <5>2
        <5>3. CASE S.wins[u].parent # v
          BY <1>2, <3>1, <4>1, <5>1, <5>3
        <5> QED BY <5>2, <5>3
      <4> QED BY <4>2, <4>3
    <3>3. F.wins[Native].width > 0 /\ F.wins[Native].height > 0
      BY <1>2, <1>5 DEF Tame, Nested, Handles
    <3>4. ~F.stray
      BY <1>2, <1>5 DEF Tame
    <3> QED BY <1>2, <3>2, <3>3, <3>4 DEF Tame, Nested
  <2>2. Tidy(F, T, v) /\ T.wins[v] = w /\ Seen(T, v)
    BY <1>2, <1>3, <2>1, RedrawTidy
  <2> HIDE DEF T
  <2>3. Tame(T)
    BY <1>4, <2>1, <2>2, NestedStays DEF Tidy
  <2>4. PointsStay(S, T)
    <3> SUFFICES ASSUME NEW u \in Handles, IsWindow(S, u), Points(S, u)
                 PROVE  Points(T, u)
      BY DEF PointsStay
    <3>1. Points(F, u)
      BY <1>2, <1>5 DEF Points
    <3>2. IsWindow(F, u)
      BY <1>2
    <3> QED BY <1>4, <3>1, <3>2, SameCursorsStay DEF PointsStay
  <2>5. \A u \in Handles : IsWindow(T, u) <=> IsWindow(S, u)
    BY <1>2, <1>4 DEF Keeps, Alike
  <2>6. ASSUME NEW u \in Handles \ {v}, IsWindow(S, u)
        PROVE  /\ SameFrame(S.wins[u], T.wins[u])
               /\ \A i \in DOMAIN S.wins[u].buffer :
                     \/ T.wins[u].buffer[i] = S.wins[u].buffer[i]
                     \/ u = S.wins[v].parent /\ InRectangle(T.wins[v], i, S.wins[u].width)
    <3>1. IsWindow(F, u) /\ F.wins[u] = S.wins[u]
      BY <1>2, <2>6
    <3>2. SameFrame(S.wins[u], T.wins[u])
      BY <1>4, <3>1 DEF Keeps, Alike, SameFrame
    <3>3. \A i \in DOMAIN S.wins[u].buffer :
             \/ T.wins[u].buffer[i] = S.wins[u].buffer[i]
             \/ u = S.wins[v].parent /\ InRectangle(w, i, S.wins[u].width)
      BY <1>2, <2>2, <3>1 DEF Tidy, Confined
    <3> QED BY <2>2, <3>2, <3>3
  <2> QED BY <1>5, <2>2, <2>3, <2>4, <2>5, <2>6 DEF Effect
<1> QED BY <1>4, <1>5 DEF F

(* window_write.                                                           *)
LEMMA WriteDoes ==
    ASSUME NEW S, Good(S), NEW v, IsWindow(S, v), NEW text \in Seq(STRING)
    PROVE  /\ Good(Write(S, v, text))
           /\ Tame(S) /\ Points(S, v) /\ Room(S, v, text) => Effect(S, Write(S, v, text), v)
<1> DEFINE T == Written(S, v, text)[Len(text)]
           U == SetCursor(T, v, T.wins[v].cx, T.wins[v].cy)
           R == Redraw(U, v)
<1>0. Write(S, v, text) = R
  BY WriteIs
<1>1. /\ Keeps(S, T)
      /\ Tame(S) /\ Points(S, v) /\ Room(S, v, text)
            => Tidy(S, T, v) /\ OtherCursors(S, T, v) /\ Points(T, v)
  BY WrittenDoes
<1> HIDE DEF T
<1>2. Good(T) /\ IsWindow(T, v)
  BY <1>1 DEF Keeps, Alike, IsWindow
<1>3. /\ Keeps(T, U) /\ SameCells(T, U) /\ U.stray = T.stray
      /\ Tame(T) /\ Points(T, v) => PointsStay(T, U)
  <2>1. T.wins[v].cx \in Nat /\ T.wins[v].cy \in Nat
    BY <1>2, WindowIs, WindowAssumption DEF Short
  <2> HIDE DEF U
  <2> QED BY <1>2, <2>1, SetCursorDoes DEF U, Points
<1> HIDE DEF U
<1>4. Good(U) /\ IsWindow(U, v)
  BY <1>2, <1>3 DEF Keeps, Alike, IsWindow
<1>5. Keeps(U, R) /\ SameCursors(U, R)
  BY <1>4, RedrawKeeps
<1>6. Keeps(S, R) /\ Good(R)
  BY <1>1, <1>3, <1>5, KeepsBoth DEF Keeps
<1>7. ASSUME Tame(S), Points(S, v), Room(S, v, text)
      PROVE  Effect(S, R, v)
  <2>1. Tidy(S, T, v) /\ Tame(T) /\ OtherCursors(S, T, v) /\ Points(T, v)
    BY <1>1, <1>7, NestedStays DEF Tidy
  <2>2. Tidy(T, U, v) /\ Tame(U)
    <3>1. ~U.stray
      BY <1>3, <2>1 DEF Tame
    <3> QED BY <1>3, <2>1, <3>1, NestedStays DEF Tidy, Confined, SameCells
  <2>3. Tidy(U, R, v) /\ Seen(R, v)
    BY <1>4, <2>2, RedrawTidy
  <2>4. Tidy(S, R, v)
    BY <1>1, <1>2, <1>3, <1>5, <1>7, <2>1, <2>2, <2>3, TidyBoth
  <2>5. PointsStay(S, R)
    <3>1. PointsStay(S, T)
      BY <1>1, <2>1 DEF PointsStay, Points, OtherCursors, Keeps, Alike
    <3>2. PointsStay(T, U)
      BY <1>3, <2>1
    <3>3. PointsStay(U, R)
      BY <1>5, SameCursorsStay
    <3> QED BY <1>1, <1>3, <3>1, <3>2, <3>3 DEF PointsStay, Keeps, Alike
  <2> QED BY <1>6, <1>7, <2>3, <2>4, <2>5, TidyEffect
<1> QED BY <1>0, <1>6, <1>7

(* window_clear, window_clear_line, window_scroll, window_redraw.          *)
LEMMA EraseDoes ==
    ASSUME NEW S, Good(S), NEW v, IsWindow(S, v), NEW n \in Nat
    PROVE  /\ Good(Clear(S, v)) /\ (Tame(S) => Effect(S, Clear(S, v), v))
           /\ Good(ClearLine(S, v, n)) /\ Good(Scroll(S, v, n))
           /\ Tame(S) /\ n < S.wins[v].height =>
                Effect(S, ClearLine(S, v, n), v) /\ Effect(S, Scroll(S, v, n), v)
<1>1. S.wins[v].height \in Nat
  BY WindowIs, WindowAssumption DEF Short
<1>2. n < S.wins[v].height => n <= S.wins[v].height
  BY <1>1
<1>3. Good(Clear(S, v)) /\ (Tame(S) => Effect(S, Clear(S, v), v))
  <2> DEFINE T == Clear(S, v)
  <2>1. /\ Keeps(S, T) /\ SameCursors(S, T)
        /\ Tame(S) => Tidy(S, T, v) /\ Seen(T, v)
    BY ClearDoes
  <2> HIDE DEF T
  <2>2. Good(T) /\ (Tame(S) => Effect(S, T, v))
    BY <2>1, SameCursorsStay, TidyEffect DEF Keeps
  <2> QED BY <2>2 DEF T
<1>4. Good(ClearLine(S, v, n)) /\ (Tame(S) /\ n < S.wins[v].height => Effect(S, ClearLine(S, v, n), v))
  <2> DEFINE T == ClearLine(S, v, n)
  <2>1. /\ Keeps(S, T) /\ SameCursors(S, T)
        /\ Tame(S) /\ n < S.wins[v].height => Tidy(S, T, v) /\ Seen(T, v)
    BY ClearLineDoes
  <2> HIDE DEF T
  <2>2. Good(T) /\ (Tame(S) /\ n < S.wins[v].height => Effect(S, T, v))
    BY <2>1, SameCursorsStay, TidyEffect DEF Keeps
  <2> QED BY <2>2 DEF T
<1>5. Good(Scroll(S, v, n)) /\ (Tame(S) /\ n <= S.wins[v].height => Effect(S, Scroll(S, v, n), v))
  <2> DEFINE T == Scroll(S, v, n)
  <2>1. /\ Keeps(S, T) /\ SameCursors(S, T)
        /\ Tame(S) /\ n <= S.wins[v].height => Tidy(S, T, v) /\ Seen(T, v)
    BY ScrollDoes
  <2> HIDE DEF T
  <2>2. Good(T) /\ (Tame(S) /\ n <= S.wins[v].height => Effect(S, T, v))
    BY <2>1, SameCursorsStay, TidyEffect DEF Keeps
  <2> QED BY <2>2 DEF T
<1> QED BY <1>2, <1>3, <1>4, <1>5

LEMMA RedrawDoes ==
    ASSUME NEW S, Good(S), NEW v, IsWindow(S, v)
    PROVE  Good(Redraw(S, v)) /\ (Tame(S) => Effect(S, Redraw(S, v), v))
<1> DEFINE T == Redraw(S, v)
<1>1. /\ Keeps(S, T) /\ SameCursors(S, T)
      /\ Tame(S) => Tidy(S, T, v) /\ Seen(T, v)
  BY RedrawKeeps, RedrawTidy
<1> HIDE DEF T
<1>2. Good(T) /\ (Tame(S) => Effect(S, T, v))
  BY <1>1, SameCursorsStay, TidyEffect DEF Keeps
<1> QED BY <1>2 DEF T

(* Operations that change cursors only.                                    *)
LEMMA CursorEffect ==
    ASSUME NEW S, Tame(S), NEW v, IsWindow(S, v), NEW T, Keeps(S, T), SameCells(S, T),
           T.stray = S.stray, PointsStay(S, T)
    PROVE  Effect(S, T, v)
<1>1. Tidy(S, T, v)
  BY DEF Tame, Tidy, Confined, SameCells
<1>2. Look(T.wins[v]) = Look(S.wins[v])
  BY DEF Look, Keeps, Alike, SameCells, IsWindow
<1> QED BY <1>1, <1>2, TidyEffect

LEMMA PointDoes ==
    ASSUME NEW S, Good(S), NEW v, IsWindow(S, v), NEW x \in Nat, NEW y \in Nat
    PROVE  /\ Good(SetCursor(S, v, x, y))
           /\ Tame(S) /\ x < S.wins[v].width /\ y < S.wins[v].height
              => Effect(S, SetCursor(S, v, x, y), v)
<1> DEFINE T == SetCursor(S, v, x, y)
<1>1. /\ Keeps(S, T) /\ SameCells(S, T) /\ T.stray = S.stray
      /\ Tame(S) /\ x < S.wins[v].width /\ y < S.wins[v].height => PointsStay(S, T)
  BY SetCursorDoes
<1> HIDE DEF T
<1>2. /\ Good(T)
      /\ Tame(S) /\ x < S.wins[v].width /\ y < S.wins[v].height => Effect(S, T, v)
  BY <1>1, CursorEffect DEF Keeps
<1> QED BY <1>2 DEF T

(* window_restore_cursor.                                                  *)
LEMMA RestoreDoes ==
    ASSUME NEW S, Good(S), NEW v, IsWindow(S, v)
    PROVE  /\ Good(RestoreCursor(S, v))
           /\ Tame(S) => Effect(S, RestoreCursor(S, v), v)
<1> DEFINE w == S.wins[v]
           b == w.parent
           p == S.wins[b]
           x == Min2(w.x + w.cx, p.width - 1)
           y == Min2(w.y + w.cy, p.height - 1)
           T == At(S, b, x, y)
<1>1. CASE v = Native
  <2>1. RestoreCursor(S, v) = S
    BY <1>1 DEF RestoreCursor
  <2>2. Keeps(S, S) /\ SameCells(S, S) /\ PointsStay(S, S)
    BY KeepsSelf DEF SameCells, PointsStay
  <2> QED BY <2>1, <2>2, CursorEffect
<1>2. CASE v # Native /\ p = Null
  <2>1. RestoreCursor(S, v) = [S EXCEPT !.stray = TRUE]
    BY <1>2 DEF RestoreCursor
  <2>2. ~Tame(S)
    BY <1>2 DEF Tame, Nested, IsWindow
  <2> QED BY <2>1, <2>2, Strays DEF Keeps
<1>3. CASE v # Native /\ p # Null
  <2>1. RestoreCursor(S, v) = T
    BY <1>3 DEF RestoreCursor
  <2>2. IsWindow(S, b)
    BY <1>3, WindowIs DEF IsWindow
  <2>3. /\ w.x \in Nat /\ w.y \in Nat /\ w.cx \in Nat /\ w.cy \in Nat
        /\ p.width \in Nat /\ p.height \in Nat /\ p.width < Word /\ p.height < Word
        /\ Word \in Nat
    <3>1. /\ w.x \in Short /\ w.y \in Short /\ w.cx \in Short /\ w.cy \in Short
          /\ p.width \in Short /\ p.height \in Short
      BY <2>2, WindowIs
    <3> HIDE DEF w, p
    <3> QED BY <3>1, WindowAssumption DEF Short
  <2>4. x \in Int /\ y \in Int
    <3> HIDE DEF w, p
    <3> QED BY <2>3 DEF Min2
  <2> HIDE DEF x, y, T
  <2>5. /\ Keeps(S, T) /\ T.stray = S.stray
        /\ T.wins[b].cx = x % Word /\ T.wins[b].cy = y % Word
        /\ T.wins[b].buffer = p.buffer
        /\ \A u \in Handles : u # b => T.wins[u] = S.wins[u]
    <3> HIDE DEF b
    <3> QED BY <2>2, <2>4, AtKeeps DEF T
  <2>6. SameCells(S, T)
    BY <2>5 DEF SameCells
  <2>7. ASSUME Tame(S) PROVE Effect(S, T, v)
    <3>1. Inside(w, p)
      BY <1>3, <2>7 DEF Tame, Nested, IsWindow
    <3>2. w.width \in Nat /\ w.height \in Nat
      BY WindowIs, WindowAssumption DEF Short
    <3>3. p.width > 0 /\ p.height > 0
      <4>1. w.width > 0 /\ w.height > 0 /\ w.x + w.width <= p.width /\ w.y + w.height <= p.height
        BY <3>1 DEF Inside
      <4> HIDE DEF w, p
      <4> QED BY <2>3, <3>2, <4>1
    <3>4. x \in 0..(p.width - 1) /\ y \in 0..(p.height - 1)
      <4> HIDE DEF w, p
      <4> QED BY <2>3, <3>3 DEF x, y, Min2
    <3>5. x % Word = x /\ y % Word = y
      <4> HIDE DEF p
      <4> QED BY <2>3, <3>4
    <3>6. T.wins[b].cx < p.width /\ T.wins[b].cy < p.height
      <4> HIDE DEF p
      <4> QED BY <2>3, <2>5, <3>4, <3>5
    <3>7. Points(T, b)
      BY <2>2, <2>5, <3>6 DEF Points, Keeps, Alike, IsWindow
    <3>8. PointsStay(S, T)
      <4> HIDE DEF b
      <4> QED BY <2>5, <3>7 DEF PointsStay, Points
    <3> QED BY <2>5, <2>6, <2>7, <3>8, CursorEffect
  <2> QED BY <2>1, <2>5, <2>7 DEF Keeps
<1> QED BY <1>1, <1>2, <1>3

(* The new buffer of window_reposition.                                    *)
LEMMA ResizedIs ==
    ASSUME NEW S, Good(S), NEW v, IsWindow(S, v), NEW a \in Short, NEW b \in Short
    PROVE  LET w == S.wins[v]
               B == Resized(w, <<a, b>>)
           IN  /\ B \in [0..(a * b - 1) -> Cell]
               /\ \A x \in 0..(Min2(w.width, a) - 1), y \in 0..(Min2(w.height, b) - 1) :
                     B[x + y * a] = w.buffer[x + y * w.width]
<1> DEFINE w == S.wins[v]
           B == Resized(w, <<a, b>>)
           cell(x, y) == IF x < w.width /\ y < w.height THEN w.buffer[x + y * w.width] ELSE Junk
<1>1. /\ w.width \in Nat /\ w.height \in Nat /\ a \in Nat /\ b \in Nat
      /\ DOMAIN w.buffer = 0..(w.width * w.height - 1)
      /\ w.buffer \in [DOMAIN w.buffer -> Cell]
  <2>1. /\ w.width \in Short /\ w.height \in Short
        /\ DOMAIN w.buffer = 0..(w.width * w.height - 1)
        /\ w.buffer \in [DOMAIN w.buffer -> Cell]
    BY WindowIs
  <2> HIDE DEF w
  <2> QED BY <2>1, WindowAssumption DEF Short
<1>2. B = [i \in 0..(a * b - 1) |-> cell(i % a, i \div a)]
  BY DEF Resized
<1> HIDE DEF w, B
<1>3. ASSUME NEW x \in Nat, NEW y \in Nat PROVE cell(x, y) \in Cell
  <2>1. CASE x < w.width /\ y < w.height
    <3>1. x + y * w.width \in DOMAIN w.buffer
      BY <1>1, <2>1, CellInside
    <3> QED BY <1>1, <2>1, <3>1
  <2>2. CASE ~(x < w.width /\ y < w.height)
    BY <2>2, WindowAssumption
  <2> QED BY <2>1, <2>2
<1>4. B \in [0..(a * b - 1) -> Cell]
  <2>1. ASSUME NEW i \in 0..(a * b - 1) PROVE cell(i % a, i \div a) \in Cell
    <3>1. i % a \in 0..(a - 1) /\ i \div a \in 0..(b - 1)
      BY <1>1, RowInside
    <3>2. i % a \in Nat /\ i \div a \in Nat
      BY <1>1, <3>1
    <3> HIDE DEF cell
    <3> QED BY <1>3, <3>2
  <2> HIDE DEF cell
  <2> QED BY <1>2, <2>1
<1>5. ASSUME NEW x \in 0..(Min2(w.width, a) - 1), NEW y \in 0..(Min2(w.height, b) - 1)
      PROVE  B[x + y * a] = w.buffer[x + y * w.width]
  <2>1. x \in Nat /\ y \in Nat /\ x < w.width /\ x < a /\ y < w.height /\ y < b
    BY <1>1 DEF Min2
  <2>2. x + y * a \in 0..(a * b - 1)
    BY <1>1, <2>1, CellInside
  <2>3. (x + y * a) % a = x /\ (x + y * a) \div a = y
    BY <1>1, <2>1, CellOf
  <2>4. B[x + y * a] = cell(x, y)
    <3> DEFINE i == x + y * a
    <3> HIDE DEF cell, i
    <3> QED BY <1>2, <2>2, <2>3 DEF i
  <2> QED BY <2>1, <2>4
<1> QED BY <1>4, <1>5 DEF B, w

LEMMA RepositionDoes ==
    ASSUME NEW S, Good(S), NEW v, IsWindow(S, v),
           NEW at \in Short \X Short, NEW size \in Short \X Short
    PROVE  LET T == Reposition(S, v, at, size)
               p == S.wins[S.wins[v].parent]
           IN  /\ Good(T)
               /\ /\ Tame(S)
                  /\ v # Native =>
                        /\ Fits(at, size, <<p.width, p.height>>)
                        /\ Points(S, v) => S.wins[v].cx < size[1] /\ S.wins[v].cy < size[2]
                        /\ \A c \in Handles : IsWindow(S, c) /\ S.wins[c].parent = v =>
                              S.wins[c].x + S.wins[c].width <= size[1]
                                /\ S.wins[c].y + S.wins[c].height <= size[2]
                  => Effect(S, T, v)
<1> DEFINE o == S.wins[v]
           p == S.wins[o.parent]
           sized == IF <<o.width, o.height>> = size THEN o
                    ELSE [o EXCEPT !.buffer = Resized(o, size), !.width = size[1], !.height = size[2]]
           w == [sized EXCEPT !.x = at[1], !.y = at[2]]
           T == Reposition(S, v, at, size)
<1>1. CASE v = Native
  <2>1. T = S
    BY <1>1 DEF Reposition
  <2>2. Keeps(S, S) /\ SameCells(S, S) /\ PointsStay(S, S)
    BY KeepsSelf DEF SameCells, PointsStay
  <2> QED BY <2>1, <2>2, CursorEffect
<1>2. CASE v # Native
  <2>1. T = Redraw([S EXCEPT !.wins[v] = w], v)
    BY <1>2 DEF Reposition
  <2>2. size = <<size[1], size[2]>> /\ size[1] \in Short /\ size[2] \in Short
        /\ at[1] \in Short /\ at[2] \in Short
    OBVIOUS
  <2>3. /\ Resized(o, size) \in [0..(size[1] * size[2] - 1) -> Cell]
        /\ \A x \in 0..(Min2(o.width, size[1]) - 1), y \in 0..(Min2(o.height, size[2]) - 1) :
              Resized(o, size)[x + y * size[1]] = o.buffer[x + y * o.width]
    <3> DEFINE a == size[1]
               b == size[2]
    <3>1. size = <<a, b>> /\ a \in Short /\ b \in Short
      BY <2>2
    <3>2. /\ Resized(o, <<a, b>>) \in [0..(a * b - 1) -> Cell]
          /\ \A x \in 0..(Min2(o.width, a) - 1), y \in 0..(Min2(o.height, b) - 1) :
                Resized(o, <<a, b>>)[x + y * a] = o.buffer[x + y * o.width]
      <4> HIDE DEF a, b
      <4> QED BY <3>1, ResizedIs
    <3> QED BY <3>1, <3>2
  <2>4. Resized(o, size) \in Buffer
    BY <2>2, <2>3, IsBuffer
  <2>5. /\ o \in Window /\ Sized(o) /\ DOMAIN o.buffer = 0..(o.width * o.height - 1)
    BY WindowIs DEF Good, IsWindow
  <2>6. /\ sized \in Window /\ Sized(sized) /\ sized.parent = o.parent
        /\ sized.width = size[1] /\ sized.height = size[2]
        /\ sized.cx = o.cx /\ sized.cy = o.cy
        /\ Kept(o, sized)
    <3>1. CASE <<o.width, o.height>> = size
      <4>1. sized = o /\ o.width = size[1] /\ o.height = size[2]
        BY <2>2, <3>1
      <4> QED BY <2>5, <4>1 DEF Kept
    <3>2. CASE <<o.width, o.height>> # size
      <4>1. sized = [o EXCEPT !.buffer = Resized(o, size), !.width = size[1], !.height = size[2]]
        BY <3>2
      <4> DEFINE R == Resized(o, size)
      <4>2. R \in Buffer /\ R \in [0..(size[1] * size[2] - 1) -> Cell]
        BY <2>3, <2>4
      <4>3. \A x \in 0..(Min2(o.width, size[1]) - 1), y \in 0..(Min2(o.height, size[2]) - 1) :
               R[x + y * size[1]] = o.buffer[x + y * o.width]
        BY <2>3
      <4> HIDE DEF R, sized, o
      <4>4. /\ sized \in Window /\ sized.parent = o.parent /\ sized.buffer = R
            /\ sized.width = size[1] /\ sized.height = size[2]
            /\ sized.cx = o.cx /\ sized.cy = o.cy
        BY <2>2, <2>5, <4>1, <4>2 DEF Window, R
      <4>5. Sized(sized)
        BY <4>2, <4>4 DEF Sized
      <4> QED BY <4>3, <4>4, <4>5 DEF Kept
    <3> QED BY <3>1, <3>2
  <2> HIDE DEF sized
  <2>7. /\ w \in Window /\ w.parent = o.parent /\ w.buffer = sized.buffer
        /\ w.width = size[1] /\ w.height = size[2] /\ w.x = at[1] /\ w.y = at[2]
        /\ w.cx = o.cx /\ w.cy = o.cy
    BY <2>2, <2>6 DEF Window
  <2>8. Sized(w) /\ Kept(o, w)
    BY <2>6, <2>7 DEF Sized, Kept
  <2> HIDE DEF w
  <2>9. Good(T)
    BY <1>2, <2>1, <2>7, <2>8, ChangedDoes
  <2>10. ASSUME Tame(S), Fits(at, size, <<p.width, p.height>>),
                Points(S, v) => o.cx < size[1] /\ o.cy < size[2],
                \A c \in Handles : IsWindow(S, c) /\ S.wins[c].parent = v =>
                    S.wins[c].x + S.wins[c].width <= size[1]
                      /\ S.wins[c].y + S.wins[c].height <= size[2]
         PROVE  Effect(S, T, v)
    <3>1. Inside(w, S.wins[w.parent])
      BY <2>7, <2>10 DEF Inside, Fits
    <3>2. ASSUME NEW c \in Handles, IsWindow(S, c), S.wins[c].parent = v
          PROVE  Inside(S.wins[c], w)
      <4>1. c # Native
        BY <1>2, <3>2, WindowIs, WindowAssumption DEF Good, IsWindow
      <4>2. S.wins[c].width > 0 /\ S.wins[c].height > 0
        BY <2>10, <3>2, <4>1 DEF Tame, Nested, Inside
      <4> QED BY <2>7, <2>10, <3>2, <4>2 DEF Inside
    <3> QED BY <1>2, <2>1, <2>7, <2>8, <2>10, <3>1, <3>2, ChangedDoes
  <2> QED BY <1>2, <2>9, <2>10
<1> QED BY <1>1, <1>2

(* window_set_visible.                                                     *)
LEMMA SetVisibleDoes ==
    ASSUME NEW S, Good(S), NEW v, IsWindow(S, v), NEW b \in BOOLEAN
    PROVE  /\ Good(SetVisible(S, v, b))
           /\ Tame(S) => Effect(S, SetVisible(S, v, b), v)
<1> DEFINE o == S.wins[v]
           w == [o EXCEPT !.visible = b]
           T == SetVisible(S, v, b)
<1>1. CASE v = Native
  <2>1. T = S
    BY <1>1 DEF SetVisible
  <2>2. Keeps(S, S) /\ SameCells(S, S) /\ PointsStay(S, S)
    BY KeepsSelf DEF SameCells, PointsStay
  <2> QED BY <2>1, <2>2, CursorEffect
<1>2. CASE v # Native
  <2>1. T = Redraw([S EXCEPT !.wins[v] = w], v)
    BY <1>2 DEF SetVisible
  <2>2. o \in Window /\ Sized(o)
    BY DEF Good, IsWindow, Screens
  <2>3. /\ w \in Window /\ w.parent = o.parent /\ w.buffer = o.buffer
        /\ w.width = o.width /\ w.height = o.height /\ w.x = o.x /\ w.y = o.y
        /\ w.cx = o.cx /\ w.cy = o.cy
    BY <2>2 DEF Window
  <2> HIDE DEF w
  <2>4. Sized(w) /\ Kept(o, w)
    BY <2>2, <2>3 DEF Sized, Kept
  <2>5. Good(T)
    BY <1>2, <2>1, <2>3, <2>4, ChangedDoes
  <2>6. ASSUME Tame(S) PROVE Effect(S, T, v)
    <3>1. Inside(w, S.wins[w.parent])
      BY <1>2, <2>3, <2>6 DEF Tame, Nested, Inside, IsWindow
    <3>2. ASSUME NEW c \in Handles, IsWindow(S, c), S.wins[c].parent = v
          PROVE  Inside(S.wins[c], w)
      <4>1. c # Native
        BY <1>2, <3>2, WindowIs, WindowAssumption DEF Good, IsWindow
      <4> QED BY <2>3, <2>6, <3>2, <4>1 DEF Tame, Nested, Inside
    <3>3. Points(S, v) => w.cx < w.width /\ w.cy < w.height
      BY <2>3 DEF Points
    <3> QED BY <1>2, <2>1, <2>3, <2>4, <2>6, <3>1, <3>2, <3>3, ChangedDoes
  <2> QED BY <2>5, <2>6
<1> QED BY <1>1, <1>2

-----------------------------------------------------------------------------
(* The system calls.                                                       *)

TypesInv == Good(Screen) /\ current \in Handles \union {Null} /\ calls \in 0..Calls

(* What holds when processes are careful: no window has lost its parent or *)
(* sticks out of it.                                                       *)
WindowsInv == TypesInv /\ (Careful => Tame(Screen))

LEMMA LiveIs ==
    \A v : v \in Live <=> IsWindow(Screen, v)
BY DEF Live, IsWindow, Screen

LEMMA BecomesIs ==
    ASSUME NEW T, Good(T), Becomes(T)
    PROVE  Screen' = T
BY DEF Good, Screens, Becomes, Screen

LEMMA PointsIs ==
    ASSUME NEW v
    PROVE  /\ Within(CursorOf(v), SizeOf(v)) <=> Points(Screen, v)
           /\ Within(CursorOf(v), SizeOf(v))' <=> Points(Screen, v)'
BY DEF Within, CursorOf, SizeOf, Points, Screen

(* The new window of window_create.                                        *)
LEMMA NewIs ==
    ASSUME NEW p \in Handles \union {Null}, NEW at \in Short \X Short,
           NEW size \in Short \X Short, NEW b \in BOOLEAN, NEW cursor \in Short \X Short
    PROVE  New(p, at, size, b, cursor) \in Window /\ Sized(New(p, at, size, b, cursor))
<1> DEFINE B == [i \in 0..(size[1] * size[2] - 1) |-> Junk]
<1>1. size[1] \in Short /\ size[2] \in Short
  OBVIOUS
<1>2. B \in [0..(size[1] * size[2] - 1) -> Cell]
  BY WindowAssumption
<1> HIDE DEF B
<1>3. B \in Buffer
  BY <1>1, <1>2, IsBuffer
<1>4. New(p, at, size, b, cursor) =
        [parent |-> p, x |-> at[1], y |-> at[2], width |-> size[1], height |-> size[2],
         cx |-> cursor[1], cy |-> cursor[2], visible |-> b, buffer |-> B]
  BY DEF New, B
<1> QED BY <1>2, <1>3, <1>4 DEF Window, Sized

LEMMA InitOK == Init => WindowsInv
<1> SUFFICES ASSUME Init PROVE WindowsInv
  OBVIOUS
<1> DEFINE n == New(Null, <<0, 0>>, <<Width, Height>>, TRUE, <<0, 0>>)
           B == [i \in DOMAIN n.buffer |-> "none"]
           w == [n EXCEPT !.buffer = B]
<1>1. /\ Width \in Short /\ Height \in Short /\ 0 \in Short /\ Width > 0 /\ Height > 0
      /\ Native \in Handles /\ Null \notin Handles
  BY WindowAssumption DEF Short, Handles
<1>2. n \in Window /\ Sized(n)
  BY <1>1, NewIs
<1>3. n.parent = Null /\ n.width = Width /\ n.height = Height
  BY DEF New
<1> HIDE DEF n
<1>4. B \in [0..(Width * Height - 1) -> Cell]
  BY <1>2, <1>3 DEF Sized, Cell
<1>5. B \in Buffer
  <2> HIDE DEF B
  <2> QED BY <1>1, <1>4, IsBuffer
<1>6. w \in Window /\ Sized(w) /\ w.parent = Null /\ w.width = Width /\ w.height = Height
  <2> HIDE DEF B
  <2>1. /\ w \in Window /\ w.buffer = B /\ w.parent = Null
        /\ w.width = Width /\ w.height = Height
    BY <1>2, <1>3, <1>5 DEF Window
  <2> QED BY <1>4, <2>1 DEF Sized
<1>7. /\ wins = [v \in Handles |-> IF v # Native THEN Null ELSE w]
      /\ current = Native /\ stray = FALSE /\ calls = 0
  BY DEF Init, n
<1> HIDE DEF w
<1>8. w # Null
  BY <1>6, WindowAssumption
<1>9. /\ wins \in [Handles -> Window \union {Null}] /\ wins[Native] = w
      /\ \A v \in Handles : wins[v] # Null => v = Native
  BY <1>1, <1>6, <1>7
<1>10. Good(Screen)
  BY <1>1, <1>6, <1>7, <1>8, <1>9 DEF Good, Screens, Screen, IsWindow
<1>11. Tame(Screen)
  BY <1>1, <1>6, <1>7, <1>9, <1>10 DEF Tame, Nested, Screen, IsWindow
<1> QED BY <1>1, <1>7, <1>10, <1>11, WindowAssumption DEF WindowsInv, TypesInv

(* Every operation on a window.                                            *)
LEMMA OperationDoes ==
    ASSUME WindowsInv, NEW v \in Handles,
           Type(v) \/ Erase(v) \/ Show(v) \/ Place(v) \/ Point(v) \/ Restore(v)
    PROVE  /\ IsWindow(Screen, v) /\ Good(Screen)' /\ current' = current /\ calls' \in 0..Calls
           /\ Careful => Effect(Screen, Screen', v)
<1> USE DEF Call
<1>1. /\ Good(Screen) /\ (Careful => Tame(Screen)) /\ calls \in Nat /\ Calls \in Nat
      /\ wins = Screen.wins
  BY WindowAssumption DEF WindowsInv, TypesInv, Screen
<1>2. v \in Live /\ calls' \in 0..Calls
  BY <1>1 DEF Type, Erase, Show, Place, Point, Restore
<1>3. IsWindow(Screen, v)
  BY <1>2, LiveIs
<1>4. ASSUME NEW T, Good(T), Becomes(T), Careful => Effect(Screen, T, v)
      PROVE  Good(Screen)' /\ current' = current /\ (Careful => Effect(Screen, Screen', v))
  <2>1. Screen' = T
    BY <1>4, BecomesIs
  <2>2. Good(Screen)' <=> Good(Screen')
    BY DEF Good, Screens, IsWindow, Sized
  <2> QED BY <1>4, <2>1, <2>2 DEF Becomes
<1>5. CASE Type(v)
  <2>1. PICK text \in Texts :
           /\ Careful => Within(CursorOf(v), SizeOf(v)) /\ RoomFor(v, text)
           /\ Becomes(Write(Screen, v, text))
    BY <1>5 DEF Type
  <2>2. text \in Seq(STRING)
    BY WindowAssumption
  <2>3. Careful => Points(Screen, v)
    BY <2>1, PointsIs
  <2>4. Careful => Room(Screen, v, text)
    <3> SUFFICES ASSUME Careful, NEW i \in 1..Len(text), text[i] = "\t"
                 PROVE  i = 1 /\ Screen.wins[v].cx + 1 < Screen.wins[v].width
      BY DEF Room
    <3>1. i = 1 /\ wins[v].cx < wins[v].width - 1
      BY <2>1, <2>2 DEF RoomFor
    <3>2. wins[v].cx \in Int /\ wins[v].width \in Int
      BY <1>1, <1>3, WindowIs, WindowAssumption DEF Short
    <3> QED BY <1>1, <3>1, <3>2
  <2> QED BY <1>1, <1>2, <1>3, <1>4, <2>1, <2>2, <2>3, <2>4, WriteDoes
<1>6. CASE Erase(v)
  <2>1. CASE Becomes(Clear(Screen, v))
    <3>1. 0 \in Nat
      OBVIOUS
    <3> QED BY <1>1, <1>2, <1>3, <1>4, <2>1, <3>1, EraseDoes
  <2>2. CASE \E n \in 0..Height :
                /\ Careful => n < wins[v].height
                /\ Becomes(ClearLine(Screen, v, n)) \/ Becomes(Scroll(Screen, v, n))
    <3>1. PICK n \in 0..Height :
                /\ Careful => n < wins[v].height
                /\ Becomes(ClearLine(Screen, v, n)) \/ Becomes(Scroll(Screen, v, n))
      BY <2>2
    <3>2. n \in Nat
      BY WindowAssumption
    <3> QED BY <1>1, <1>2, <1>3, <1>4, <3>1, <3>2, EraseDoes
  <2> QED BY <1>6, <2>1, <2>2 DEF Erase
<1>7. CASE Show(v)
  <2>1. CASE \E visible \in BOOLEAN : Becomes(SetVisible(Screen, v, visible))
    BY <1>1, <1>2, <1>3, <1>4, <2>1, SetVisibleDoes
  <2>2. CASE Becomes(Redraw(Screen, v))
    BY <1>1, <1>2, <1>3, <1>4, <2>2, RedrawDoes
  <2> QED BY <1>7, <2>1, <2>2 DEF Show
<1>8. CASE Place(v)
  <2>1. PICK at \in Places, size \in Extents :
           /\ Careful /\ v # Native =>
               /\ Fits(at, size, SizeOf(wins[v].parent))
               /\ Within(CursorOf(v), SizeOf(v)) => Within(CursorOf(v), size)
               /\ \A c \in Children(v) : Fits(<<wins[c].x, wins[c].y>>, SizeOf(c), size)
           /\ Becomes(Reposition(Screen, v, at, size))
    BY <1>8 DEF Place
  <2>2. at \in Short \X Short /\ size \in Short \X Short
    BY WindowAssumption
  <2> DEFINE p == Screen.wins[Screen.wins[v].parent]
  <2>3. ASSUME Careful, v # Native
        PROVE  /\ Fits(at, size, <<p.width, p.height>>)
               /\ Points(Screen, v) =>
                     Screen.wins[v].cx < size[1] /\ Screen.wins[v].cy < size[2]
               /\ \A c \in Handles : IsWindow(Screen, c) /\ Screen.wins[c].parent = v =>
                     /\ Screen.wins[c].x + Screen.wins[c].width <= size[1]
                     /\ Screen.wins[c].y + Screen.wins[c].height <= size[2]
    <3>1. Fits(at, size, <<p.width, p.height>>)
      BY <1>1, <2>1, <2>3 DEF SizeOf
    <3>2. Points(Screen, v) => Screen.wins[v].cx < size[1] /\ Screen.wins[v].cy < size[2]
      BY <1>1, <2>1, <2>3, PointsIs DEF Within, CursorOf
    <3>3. ASSUME NEW c \in Handles, IsWindow(Screen, c), Screen.wins[c].parent = v
          PROVE  /\ Screen.wins[c].x + Screen.wins[c].width <= size[1]
                 /\ Screen.wins[c].y + Screen.wins[c].height <= size[2]
      <4>1. c \in Children(v)
        BY <1>1, <3>3, LiveIs DEF Children
      <4> QED BY <1>1, <2>1, <2>3, <4>1 DEF Fits, SizeOf
    <3> QED BY <3>1, <3>2, <3>3
  <2> QED BY <1>1, <1>2, <1>3, <1>4, <2>1, <2>2, <2>3, RepositionDoes
<1>9. CASE Point(v)
  <2>1. PICK at \in Places :
           /\ Careful => Within(at, SizeOf(v))
           /\ Becomes(SetCursor(Screen, v, at[1], at[2]))
    BY <1>9 DEF Point
  <2>2. at[1] \in Nat /\ at[2] \in Nat
    BY WindowAssumption DEF Short
  <2>3. Careful => at[1] < Screen.wins[v].width /\ at[2] < Screen.wins[v].height
    BY <1>1, <2>1 DEF Within, SizeOf
  <2> QED BY <1>1, <1>2, <1>3, <1>4, <2>1, <2>2, <2>3, PointDoes
<1>10. CASE Restore(v)
  <2>1. Becomes(RestoreCursor(Screen, v))
    BY <1>10 DEF Restore
  <2> QED BY <1>1, <1>2, <1>3, <1>4, <2>1, RestoreDoes
<1> QED BY <1>5, <1>6, <1>7, <1>8, <1>9, <1>10

(* A window comes or goes: the others stay as they are.                    *)
LEMMA CreateDoes ==
    ASSUME WindowsInv, NEW v \in Others, Create(v)
    PROVE  /\ Good(Screen)' /\ current' = current /\ calls' \in 0..Calls
           /\ Careful => Tame(Screen)'
           /\ v \notin Live /\ \A u \in Handles : u # v => wins'[u] = wins[u]
<1>1. /\ Good(Screen) /\ (Careful => Tame(Screen)) /\ calls \in Nat /\ Calls \in Nat
      /\ wins \in [Handles -> Window \union {Null}] /\ stray \in BOOLEAN
  BY WindowAssumption DEF WindowsInv, TypesInv, Good, Screens, Screen
<1>2. /\ calls' \in 0..Calls /\ current' = current /\ stray' = stray
      /\ wins[v] = Null /\ v \in Handles /\ v # Native /\ Native \in Handles
  BY <1>1, WindowAssumption DEF Create, Call, Handles
<1>3. PICK parent \in Handles \union {Null}, at \in Places, size \in Extents,
           cursor \in Garbage :
        LET p == IF IsWindow(Screen, parent) THEN parent ELSE Native IN
        /\ Careful => Fits(at, size, SizeOf(p))
        /\ wins' = [wins EXCEPT ![v] = New(p, at, size, TRUE, cursor)]
  BY DEF Create
<1> DEFINE p == IF IsWindow(Screen, parent) THEN parent ELSE Native
           n == New(p, at, size, TRUE, cursor)
<1>4. p \in Handles /\ IsWindow(Screen, p)
  BY <1>1, <1>2 DEF IsWindow, Good
<1>5. /\ n \in Window /\ Sized(n) /\ n.parent = p /\ n.x = at[1] /\ n.y = at[2]
      /\ n.width = size[1] /\ n.height = size[2]
  <2>1. at \in Short \X Short /\ size \in Short \X Short /\ cursor \in Short \X Short
    BY WindowAssumption
  <2>2. n \in Window /\ Sized(n)
    BY <1>4, <2>1, NewIs
  <2> QED BY <2>2 DEF New
<1>6. /\ Careful => Fits(at, size, SizeOf(p))
      /\ wins' = [wins EXCEPT ![v] = n]
  BY <1>3
<1> HIDE DEF n, p
<1>7. /\ wins'[v] = n /\ wins' \in [Handles -> Window \union {Null}]
      /\ \A u \in Handles : u # v => wins'[u] = wins[u]
  BY <1>1, <1>2, <1>5, <1>6
<1>8. n # Null
  BY <1>5, WindowAssumption
<1>9. \A u \in Handles : wins'[u] # Null <=> u = v \/ wins[u] # Null
  BY <1>7, <1>8
<1>10. Good(Screen)'
  BY <1>1, <1>2, <1>4, <1>5, <1>7, <1>9 DEF Good, Screens, Screen, IsWindow, Sized
<1>11. ASSUME Careful PROVE Tame(Screen)'
  <2>1. Tame(Screen) /\ Nested(Screen) /\ ~stray
    BY <1>1, <1>11 DEF Tame, Screen
  <2>2. Inside(n, wins[p])
    BY <1>5, <1>6, <1>11 DEF Fits, SizeOf, Inside
  <2>3. ASSUME NEW u \in Handles \ {Native}, wins'[u] # Null
        PROVE  /\ wins'[u].parent # u /\ wins'[u].parent \in Handles
               /\ wins'[wins'[u].parent] # Null
               /\ Inside(wins'[u], wins'[wins'[u].parent])
    <3>1. CASE u = v
      <4>1. p # v
        BY <1>2, <1>4 DEF IsWindow, Screen
      <4> QED BY <1>4, <1>5, <1>7, <1>9, <2>2, <3>1, <4>1 DEF IsWindow, Screen
    <3>2. CASE u # v
      <4>1. /\ wins[u].parent # u /\ wins[u].parent \in Handles /\ wins[wins[u].parent] # Null
            /\ Inside(wins[u], wins[wins[u].parent])
        BY <1>9, <2>1, <2>3, <3>2 DEF Nested, IsWindow, Screen
      <4> QED BY <1>2, <1>7, <3>2, <4>1
    <3> QED BY <3>1, <3>2
  <2>4. wins'[Native].width > 0 /\ wins'[Native].height > 0
    BY <1>2, <1>7, <2>1 DEF Nested, Screen
  <2> QED BY <1>2, <1>10, <2>1, <2>3, <2>4 DEF Tame, Nested, IsWindow, Screen
<1> QED BY <1>2, <1>7, <1>10, <1>11 DEF Live

LEMMA DeleteDoes ==
    ASSUME WindowsInv, NEW v \in Others, Delete(v)
    PROVE  /\ Good(Screen)' /\ current' = current /\ calls' \in 0..Calls
           /\ Careful => Tame(Screen)'
           /\ wins'[v] = Null /\ \A u \in Handles : u # v => wins'[u] = wins[u]
<1>1. /\ Good(Screen) /\ (Careful => Tame(Screen)) /\ calls \in Nat /\ Calls \in Nat
      /\ wins \in [Handles -> Window \union {Null}] /\ stray \in BOOLEAN
  BY WindowAssumption DEF WindowsInv, TypesInv, Good, Screens, Screen
<1>2. /\ calls' \in 0..Calls /\ current' = current /\ stray' = stray
      /\ v \in Handles /\ v # Native /\ Native \in Handles
      /\ wins' = [wins EXCEPT ![v] = Null]
      /\ Careful => Childless(v)
  BY <1>1, WindowAssumption DEF Delete, Call, Handles
<1>3. /\ wins'[v] = Null /\ wins' \in [Handles -> Window \union {Null}]
      /\ \A u \in Handles : u # v => wins'[u] = wins[u]
  BY <1>1, <1>2
<1>4. \A u \in Handles : wins'[u] # Null => u # v /\ wins[u] # Null
  BY <1>3
<1>5. Good(Screen)'
  BY <1>1, <1>2, <1>3, <1>4 DEF Good, Screens, Screen, IsWindow, Sized
<1>6. ASSUME Careful PROVE Tame(Screen)'
  <2>1. Nested(Screen) /\ ~stray
    BY <1>1, <1>6 DEF Tame, Screen
  <2>2. ASSUME NEW u \in Handles \ {Native}, wins'[u] # Null
        PROVE  /\ wins'[u].parent # u /\ wins'[u].parent \in Handles
               /\ wins'[wins'[u].parent] # Null
               /\ Inside(wins'[u], wins'[wins'[u].parent])
    <3>1. u # v /\ wins[u] # Null /\ wins'[u] = wins[u]
      BY <1>3, <1>4, <2>2
    <3>2. /\ wins[u].parent # u /\ wins[u].parent \in Handles /\ wins[wins[u].parent] # Null
          /\ Inside(wins[u], wins[wins[u].parent])
      BY <2>1, <3>1 DEF Nested, IsWindow, Screen
    <3>3. wins[u].parent # v
      BY <1>2, <1>6, <3>1 DEF Childless, Children, Live
    <3> QED BY <1>3, <3>1, <3>2, <3>3
  <2>3. wins'[Native].width > 0 /\ wins'[Native].height > 0
    BY <1>2, <1>3, <2>1 DEF Nested, Screen
  <2> QED BY <1>2, <1>5, <2>1, <2>2, <2>3 DEF Tame, Nested, IsWindow, Screen
<1> QED BY <1>2, <1>3, <1>5, <1>6

(* Of the windows that are live before and after a step all are as they    *)
(* were, or they changed as one operation on one of them changes them.     *)
Step ==
    \/ \E v \in Handles : IsWindow(Screen, v) /\ Effect(Screen, Screen', v)
    \/ \E v \in Handles : /\ v \notin Live \/ wins'[v] = Null
                          /\ \A u \in Handles \ {v} : wins'[u] = wins[u]
    \/ wins' = wins

LEMMA NextDoes ==
    ASSUME WindowsInv, Next
    PROVE  WindowsInv' /\ (Careful => Step)
<1>0. current \in Handles \union {Null} /\ Native \in Handles /\ Null \notin Handles
      /\ Live \subseteq Handles
  BY WindowAssumption DEF WindowsInv, TypesInv, Handles, Live
<1>1. ASSUME NEW v \in Handles,
             Type(v) \/ Erase(v) \/ Show(v) \/ Place(v) \/ Point(v) \/ Restore(v)
      PROVE  WindowsInv' /\ (Careful => Step)
  <2>1. /\ IsWindow(Screen, v) /\ Good(Screen)' /\ current' = current /\ calls' \in 0..Calls
        /\ Careful => Effect(Screen, Screen', v)
    BY <1>1, OperationDoes
  <2>2. Tame(Screen') <=> Tame(Screen)'
    BY DEF Tame, Good, Nested, Screens, Sized, IsWindow, Inside
  <2>3. Careful => Tame(Screen)'
    BY <2>1, <2>2 DEF Effect
  <2> QED BY <1>0, <2>1, <2>3 DEF WindowsInv, TypesInv, Step
<1>2. CASE \E v \in Others : Create(v)
  <2>1. PICK v \in Others : Create(v)
    BY <1>2
  <2> QED BY <1>0, <2>1, CreateDoes DEF WindowsInv, TypesInv, Step, Handles
<1>3. CASE \E v \in Others : Delete(v)
  <2>1. PICK v \in Others : Delete(v)
    BY <1>3
  <2> QED BY <1>0, <2>1, DeleteDoes DEF WindowsInv, TypesInv, Step, Handles
<1>4. CASE Terminal
  <2>1. current \in Handles
    BY <1>0, <1>4 DEF Terminal, Type, Erase, Point
  <2> QED BY <1>1, <1>4, <2>1 DEF Terminal
<1>5. CASE \E v \in Handles \union {Null} : Redirect(v)
  <2>1. /\ wins' = wins /\ stray' = stray /\ current' \in Handles \union {Null}
        /\ calls' \in 0..Calls
    <3>1. calls \in Nat /\ Calls \in Nat
      BY WindowAssumption DEF WindowsInv, TypesInv
    <3> QED BY <1>0, <1>5, <3>1 DEF Redirect, Call
  <2>2. Screen' = Screen
    BY <2>1 DEF Screen
  <2>3. Good(Screen)' /\ (Careful => Tame(Screen)')
    <3>1. (Good(Screen') <=> Good(Screen)') /\ (Tame(Screen') <=> Tame(Screen)')
      BY DEF Tame, Good, Nested, Screens, Sized, IsWindow, Inside
    <3> QED BY <2>2, <3>1 DEF WindowsInv, TypesInv
  <2> QED BY <2>1, <2>3 DEF WindowsInv, TypesInv, Step
<1> QED BY <1>1, <1>2, <1>3, <1>4, <1>5 DEF Next

LEMMA StutterDoes ==
    ASSUME WindowsInv, UNCHANGED vars
    PROVE  WindowsInv'
<1>1. Screen' = Screen /\ current' = current /\ calls' = calls
  BY DEF vars, Screen
<1>2. (Good(Screen') <=> Good(Screen)') /\ (Tame(Screen') <=> Tame(Screen)')
  BY DEF Tame, Good, Nested, Screens, Sized, IsWindow, Inside
<1> QED BY <1>1, <1>2 DEF WindowsInv, TypesInv

(* Whatever processes do: every window has a buffer of its size and an     *)
(* address for a parent.  If they are careful, all windows are inside      *)
(* parents that are there.                                                 *)
THEOREM WindowsInvariant == Spec => []WindowsInv
<1>1. Init => WindowsInv
  BY InitOK
<1>2. WindowsInv /\ [Next]_vars => WindowsInv'
  BY NextDoes, StutterDoes
<1> QED BY <1>1, <1>2, PTL DEF Spec

(* Types, of careful processes or not.                                     *)
THEOREM WindowsTyped == Spec => []TypeOK
<1>1. ASSUME WindowsInv PROVE TypeOK
  <2>1. /\ Good(Screen) /\ DOMAIN wins = Handles /\ stray \in BOOLEAN
        /\ current \in Handles \union {Null} /\ calls \in 0..Calls
    BY <1>1 DEF WindowsInv, TypesInv, Good, Screens, Screen
  <2>2. wins[Native] # Null
    BY <2>1 DEF Good, IsWindow, Screen
  <2>3. ASSUME NEW v \in Live
        PROVE  /\ wins[v].parent \in Handles \union {Null}
               /\ {wins[v].x, wins[v].y, wins[v].width, wins[v].height,
                   wins[v].cx, wins[v].cy} \subseteq Short
               /\ wins[v].visible \in BOOLEAN
               /\ wins[v].buffer \in [0..(wins[v].width * wins[v].height - 1) -> Cell]
    <3>1. IsWindow(Screen, v) /\ wins[v] = Screen.wins[v]
      BY LiveIs DEF Screen
    <3>2. /\ wins[v].parent \in Handles \union {Null} /\ wins[v].visible \in BOOLEAN
          /\ wins[v].x \in Short /\ wins[v].y \in Short
          /\ wins[v].width \in Short /\ wins[v].height \in Short
          /\ wins[v].cx \in Short /\ wins[v].cy \in Short
          /\ DOMAIN wins[v].buffer = 0..(wins[v].width * wins[v].height - 1)
          /\ wins[v].buffer \in [DOMAIN wins[v].buffer -> Cell]
      BY <2>1, <3>1, WindowIs
    <3> QED BY <3>2
  <2> QED BY <2>1, <2>2, <2>3 DEF TypeOK
<1> QED BY <1>1, WindowsInvariant, PTL

(* window.c: a careful process has no cell accessed that is in no buffer,  *)
(* neither of its window nor of the parent that it is drawn into.          *)
THEOREM NothingStray ==
    ASSUME Careful
    PROVE  Spec => []AccessesInside
<1>1. WindowsInv => AccessesInside
  BY DEF WindowsInv, Tame, Screen, AccessesInside
<1> QED BY <1>1, WindowsInvariant, PTL

(* The three ways that a step of Step can go, spelled out.                 *)
LEMMA StepIs ==
    ASSUME Step
    PROVE  \/ \E v \in Live : Effect(Screen, Screen', v)
           \/ \E v \in Handles : /\ v \notin Live \/ wins'[v] = Null
                                 /\ \A u \in Live \ {v} : wins'[u] = wins[u]
           \/ wins' = wins
BY LiveIs DEF Step, Live

LEMMA EffectIs ==
    ASSUME NEW v \in Live, Effect(Screen, Screen', v), Good(Screen)
    PROVE  /\ Good(Screen')
           /\ \A u \in Live : Points(Screen, u) => Points(Screen', u)
           /\ \A u \in Live : wins'[u] # Null
           /\ wins'[v].parent = wins[v].parent
           /\ \A u \in Live \ {v} :
                 /\ SameFrame(wins[u], wins'[u])
                 /\ \A i \in DOMAIN wins[u].buffer :
                       \/ wins'[u].buffer[i] = wins[u].buffer[i]
                       \/ u = wins[v].parent /\ InRectangle(wins'[v], i, wins[u].width)
           /\ Look(wins'[v]) = Look(wins[v]) \/ Seen(Screen', v)
           /\ Kept(wins[v], wins'[v])
<1>1. Screen.wins = wins /\ Screen'.wins = wins'
  BY DEF Screen
<1>2. \A u \in Live : u \in Handles /\ IsWindow(Screen, u)
  BY LiveIs DEF Live
<1>3. \A u \in Live : wins'[u] # Null
  BY <1>1, <1>2 DEF Effect, IsWindow
<1> QED BY <1>1, <1>2, <1>3 DEF Effect, PointsStay, Tame

(* window_write and window_set_cursor_pos: the cursors of a window and of  *)
(* all windows around it stay inside, at any depth.                        *)
THEOREM CursorsInside ==
    ASSUME Careful
    PROVE  Spec => CursorsStay
<1>1. WindowsInv /\ [Next]_vars =>
        [\A v \in Live : wins'[v] # Null /\ Within(CursorOf(v), SizeOf(v))
            => Within(CursorOf(v), SizeOf(v))']_vars
  <2> SUFFICES ASSUME WindowsInv, Next, NEW v \in Live, wins'[v] # Null,
                      Within(CursorOf(v), SizeOf(v))
               PROVE  Within(CursorOf(v), SizeOf(v))'
    OBVIOUS
  <2>1. Step /\ Good(Screen) /\ Points(Screen, v)
    BY NextDoes, PointsIs DEF WindowsInv, TypesInv
  <2>2. Points(Screen', v)
    <3>1. CASE \E u \in Live : Effect(Screen, Screen', u)
      BY <2>1, <3>1, EffectIs
    <3>2. CASE wins'[v] = wins[v]
      BY <2>1, <3>2 DEF Points, Screen
    <3> QED BY <2>1, <3>1, <3>2, StepIs
  <2>3. Points(Screen', v) <=> Points(Screen, v)'
    BY DEF Points
  <2> QED BY <2>2, <2>3, PointsIs
<1> QED BY <1>1, WindowsInvariant, PTL DEF Spec, CursorsStay

(* Nothing is drawn outside of the rectangle of the window that an         *)
(* operation is about, and on no window but its parent.                    *)
THEOREM DrawingIsConfined ==
    ASSUME Careful
    PROVE  Spec => DrawsInside
<1>1. WindowsInv /\ [Next]_vars =>
        [\E v \in Handles : \A u \in Live \ {v} : wins'[u] # Null =>
           SizeOf(u)' = SizeOf(u) /\ \A i \in DOMAIN wins[u].buffer :
              \/ Untouched(u, i)
              \/ /\ v \in Live /\ wins'[v] # Null /\ u = wins[v].parent
                 /\ InRectangle(wins'[v], i, wins[u].width)]_vars
  <2> SUFFICES ASSUME WindowsInv, Next
               PROVE  \E v \in Handles : \A u \in Live \ {v} : wins'[u] # Null =>
                        SizeOf(u)' = SizeOf(u) /\ \A i \in DOMAIN wins[u].buffer :
                           \/ Untouched(u, i)
                           \/ /\ v \in Live /\ wins'[v] # Null /\ u = wins[v].parent
                              /\ InRectangle(wins'[v], i, wins[u].width)
    OBVIOUS
  <2>1. Step /\ Good(Screen)
    BY NextDoes DEF WindowsInv, TypesInv
  <2>2. CASE \E v \in Live : Effect(Screen, Screen', v)
    <3>1. PICK v \in Live : Effect(Screen, Screen', v)
      BY <2>2
    <3>2. /\ wins'[v] # Null /\ v \in Handles
          /\ \A u \in Live \ {v} :
                /\ SameFrame(wins[u], wins'[u])
                /\ \A i \in DOMAIN wins[u].buffer :
                      \/ wins'[u].buffer[i] = wins[u].buffer[i]
                      \/ u = wins[v].parent /\ InRectangle(wins'[v], i, wins[u].width)
      BY <2>1, <3>1, EffectIs DEF Live
    <3>3. \A u \in Live \ {v} : SizeOf(u)' = SizeOf(u)
      BY <3>2 DEF SizeOf, SameFrame
    <3> QED BY <3>2, <3>3 DEF Untouched
  <2>3. ASSUME NEW v \in Handles, \A u \in Live \ {v} : wins'[u] = wins[u]
        PROVE  \A u \in Live \ {v} :
                  SizeOf(u)' = SizeOf(u) /\ \A i \in DOMAIN wins[u].buffer : Untouched(u, i)
    BY <2>3 DEF SizeOf, Untouched
  <2>4. Native \in Handles
    BY DEF Handles
  <2> QED BY <2>1, <2>2, <2>3, <2>4, StepIs
<1> QED BY <1>1, WindowsInvariant, PTL DEF Spec, DrawsInside

(* window_redraw: what changes on a window without children, or is moved,  *)
(* can be seen on its parent after the same system call.                   *)
THEOREM ChangesAreShown ==
    ASSUME Careful
    PROVE  Spec => ShownAsWritten
<1>1. WindowsInv /\ [Next]_vars =>
        [\A v \in Live \ {Native} : wins'[v] # Null =>
           LET w == wins'[v]
               p == wins'[w.parent]
           IN  Look(w) # Look(wins[v]) /\ w.visible /\ Childless(v) /\ Small(w, p) =>
                  \A x \in 0..(w.width - 1), y \in 0..(w.height - 1) :
                     p.buffer[w.x + x + (w.y + y) * p.width] = w.buffer[x + y * w.width]]_vars
  <2> SUFFICES ASSUME WindowsInv, Next, NEW v \in Live \ {Native}, wins'[v] # Null,
                      Look(wins'[v]) # Look(wins[v]), wins'[v].visible, Childless(v),
                      Small(wins'[v], wins'[wins'[v].parent]),
                      NEW x \in 0..(wins'[v].width - 1), NEW y \in 0..(wins'[v].height - 1)
               PROVE  wins'[wins'[v].parent].buffer
                         [wins'[v].x + x + (wins'[v].y + y) * wins'[wins'[v].parent].width]
                      = wins'[v].buffer[x + y * wins'[v].width]
    BY DEF vars
  <2>1. Step /\ Good(Screen)
    BY NextDoes DEF WindowsInv, TypesInv
  <2>2. PICK u \in Live : Effect(Screen, Screen', u)
    <3>1. wins'[v] # wins[v]
      OBVIOUS
    <3> QED BY <2>1, <3>1, StepIs
  <2>3. u = v
    <3> SUFFICES ASSUME u # v PROVE FALSE
      OBVIOUS
    <3>1. /\ SameFrame(wins[v], wins'[v]) /\ Good(Screen')
          /\ \A i \in DOMAIN wins[v].buffer :
                \/ wins'[v].buffer[i] = wins[v].buffer[i]
                \/ v = wins[u].parent
      BY <2>1, <2>2, EffectIs
    <3>2. v # wins[u].parent
      BY DEF Childless, Children
    <3>3. /\ wins[v].buffer \in [DOMAIN wins[v].buffer -> Cell]
          /\ DOMAIN wins[v].buffer = 0..(wins[v].width * wins[v].height - 1)
      <4>1. IsWindow(Screen, v) /\ Screen.wins = wins
        BY LiveIs DEF Screen
      <4> QED BY <2>1, <4>1, WindowIs
    <3>4. /\ wins'[v].buffer \in [DOMAIN wins'[v].buffer -> Cell]
          /\ DOMAIN wins'[v].buffer = 0..(wins'[v].width * wins'[v].height - 1)
      <4> DEFINE T == Screen'
      <4>1. IsWindow(T, v) /\ T.wins = wins' /\ Good(T)
        BY <3>1 DEF Screen, IsWindow, Live
      <4> HIDE DEF T
      <4>2. /\ T.wins[v].buffer \in [DOMAIN T.wins[v].buffer -> Cell]
            /\ DOMAIN T.wins[v].buffer = 0..(T.wins[v].width * T.wins[v].height - 1)
        BY <4>1, WindowIs
      <4> QED BY <4>1, <4>2
    <3>5. wins'[v].buffer = wins[v].buffer
      <4> DEFINE o == wins[v].buffer
                 n == wins'[v].buffer
      <4>1. DOMAIN n = DOMAIN o
        BY <3>1, <3>3, <3>4 DEF SameFrame
      <4>2. o \in [DOMAIN o -> Cell] /\ n \in [DOMAIN o -> Cell]
        BY <3>3, <3>4, <4>1
      <4>3. \A i \in DOMAIN o : n[i] = o[i]
        BY <3>1, <3>2
      <4> HIDE DEF o, n
      <4>4. n = o
        BY <4>2, <4>3
      <4> QED BY <4>4 DEF o, n
    <3> QED BY <3>1, <3>5 DEF SameFrame, Look
  <2>4. Seen(Screen', v) /\ Screen'.wins = wins'
    BY <2>1, <2>2, <2>3, EffectIs DEF Screen
  <2> DEFINE T == Screen'
  <2>5. Seen(T, v) /\ T.wins = wins'
    BY <2>4
  <2> HIDE DEF T
  <2> QED BY <2>5 DEF Seen
<1> QED BY <1>1, WindowsInvariant, PTL DEF Spec, ShownAsWritten

(* window_reposition copies what fits, row by row.                         *)
THEOREM ContentsSurviveResize ==
    ASSUME Careful
    PROVE  Spec => ResizeKeeps
<1>1. WindowsInv /\ [Next]_vars =>
        [\A v \in Live : wins'[v] # Null /\ SizeOf(v)' # SizeOf(v) =>
           \A x \in 0..(Min2(wins[v].width, wins'[v].width) - 1),
              y \in 0..(Min2(wins[v].height, wins'[v].height) - 1) :
              wins'[v].buffer[x + y * wins'[v].width] = wins[v].buffer[x + y * wins[v].width]]_vars
  <2> SUFFICES ASSUME WindowsInv, Next, NEW v \in Live, wins'[v] # Null,
                      SizeOf(v)' # SizeOf(v),
                      NEW x \in 0..(Min2(wins[v].width, wins'[v].width) - 1),
                      NEW y \in 0..(Min2(wins[v].height, wins'[v].height) - 1)
               PROVE  wins'[v].buffer[x + y * wins'[v].width]
                        = wins[v].buffer[x + y * wins[v].width]
    OBVIOUS
  <2>1. Step /\ Good(Screen)
    BY NextDoes DEF WindowsInv, TypesInv
  <2>2. <<wins'[v].width, wins'[v].height>> # <<wins[v].width, wins[v].height>>
    BY DEF SizeOf
  <2>3. PICK u \in Live : Effect(Screen, Screen', u)
    BY <2>1, <2>2, StepIs
  <2>4. u = v
    BY <2>1, <2>2, <2>3, EffectIs DEF SameFrame
  <2> QED BY <2>1, <2>2, <2>3, <2>4, EffectIs DEF Kept
<1> QED BY <1>1, WindowsInvariant, PTL DEF Spec, ResizeKeeps
=============================================================================
