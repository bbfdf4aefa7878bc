------------------------------- MODULE Windows -------------------------------
(***************************************************************************)
(* Windows and the terminal: core/graphics/window.c and term.c.  A window  *)
(* has a buffer of cells and draws itself into the buffer of its parent;   *)
(* the native window's buffer is the VGA text buffer.                      *)
(*                                                                         *)
(* Every operation is a system call: one action.  Colours are left out of  *)
(* the cells.  The system calls do nothing for a process that is not in    *)
(* the foreground; the actions are those of one that is.                   *)
(***************************************************************************)
EXTENDS Integers, FiniteSets, Sequences

CONSTANTS
    Native,     \* term_native()
    Others,     \* addresses that malloc may return for a window
    Null,
    Word,       \* 2^16: the values of uint16_t
    Width,      \* 80
    Height,     \* 25
    Places,     \* positions and cursors the runs ask for, as <<x, y>>
    Extents,    \* sizes the runs ask for, as <<width, height>>
    Texts,      \* texts the runs write: sequences of characters
    Garbage,    \* cursors that malloc leaves in a new window
    Junk,       \* what malloc leaves in a new buffer
    Careful,    \* bound: the calls keep to Within, Fits and Childless
    Calls       \* bound: system calls

Handles == {Native} \union Others
Short == 0..(Word - 1)

(* A cell shows a character, of whichever kind, or none.                   *)
Cell == {"char", "none"}

(* A buffer has the cells of a window row by row.                          *)
Buffer == UNION {[0..(n - 1) -> Cell] : n \in 0..(Word * Word)}
Window ==
    [parent : Handles \union {Null}, x : Short, y : Short, width : Short, height : Short,
     cx : Short, cy : Short, visible : BOOLEAN, buffer : Buffer]

ASSUME WindowAssumption ==
    /\ IsFiniteSet(Others) /\ Native \notin Others /\ Null \notin Handles \union Window
    /\ Word \in Nat /\ Width \in 1..(Word - 1) /\ Height \in 1..(Word - 1)
    /\ Places \union Garbage \subseteq Short \X Short
    /\ Extents \subseteq Short \X Short /\ Junk \in Cell /\ Careful \in BOOLEAN /\ Calls \in Nat
    /\ Texts \subseteq Seq(STRING)

VARIABLES
    wins,       \* the window at each address; Null if it has no magic number
    current,    \* where the terminal writes
    stray,      \* a cell outside a buffer, or a deleted window, was accessed
    calls       \* number of system calls so far

vars == <<wins, current, stray, calls>>

(* A state of the windows, as the operators below pass it on.              *)
Screen == [wins |-> wins, stray |-> stray]

IsWindow(S, v) == v \in Handles /\ S.wins[v] # Null

Min2(a, b) == IF a <= b THEN a ELSE b

-----------------------------------------------------------------------------
(* Drawing.                                                                *)

(* One cell, at an index computed by the caller.                           *)
Put(S, v, i, c) ==
    IF i \in DOMAIN S.wins[v].buffer THEN [S EXCEPT !.wins[v].buffer[i] = c]
    ELSE [S EXCEPT !.stray = TRUE]

(* How much of a window is drawn.                                          *)
Drawn(size, parentSize, at) == Min2(size, parentSize - size + at) % Word

(* Mutant: the rows of the parent are as long as those of the window.      *)
DrawNarrow(S, v) ==
    LET w == S.wins[v]
        p == S.wins[w.parent]
        columns == Drawn(w.width, p.width, w.x)
        cells == 0..(columns * Drawn(w.height, p.height, w.y) - 1)
        Source(k) == (k % columns) + (k \div columns) * w.width
        Target(k) == ((w.x + (k % columns)) % Word) + ((w.y + (k \div columns)) % Word) * w.width
        Onto(i) == {k \in cells : Target(k) = i}
    IN  IF \E k \in cells : Source(k) \notin DOMAIN w.buffer \/ Target(k) \notin DOMAIN p.buffer
        THEN [S EXCEPT !.stray = TRUE]
        ELSE [S EXCEPT !.wins[w.parent].buffer =
                 [i \in DOMAIN @ |-> IF Onto(i) = {} THEN @[i]
                     ELSE w.buffer[Source(CHOOSE k \in Onto(i) : \A l \in Onto(i) : l <= k)]]]

(* The cells of window v are copied, row by row, into the parent's buffer. *)
Draw(S, v) ==
    LET w == S.wins[v]
        p == S.wins[w.parent]
        columns == Drawn(w.width, p.width, w.x)
        cells == 0..(columns * Drawn(w.height, p.height, w.y) - 1)
        Source(k) == (k % columns) + (k \div columns) * w.width
        Target(k) == ((w.x + (k % columns)) % Word) + ((w.y + (k \div columns)) % Word) * p.width
        Onto(i) == {k \in cells : Target(k) = i}
    IN  IF \E k \in cells : Source(k) \notin DOMAIN w.buffer \/ Target(k) \notin DOMAIN p.buffer
        THEN [S EXCEPT !.stray = TRUE]
        ELSE [S EXCEPT !.wins[w.parent].buffer =
                 [i \in DOMAIN @ |-> IF Onto(i) = {} THEN @[i]
                     ELSE w.buffer[Source(CHOOSE k \in Onto(i) : \A l \in Onto(i) : l <= k)]]]

(* window_redraw: of neither the native window nor an invisible one.       *)
Redraw(S, v) ==
    IF v = Native \/ ~S.wins[v].visible THEN S
    ELSE IF S.wins[S.wins[v].parent] = Null THEN [S EXCEPT !.stray = TRUE]
    ELSE Draw(S, v)

(* Mutant: a cleared window is not drawn.                                  *)
ClearQuietly(S, v) == [S EXCEPT !.wins[v].buffer = [i \in DOMAIN @ |-> "none"]]

(* window_clear and window_clear_line.                                     *)
Clear(S, v) == Redraw([S EXCEPT !.wins[v].buffer = [i \in DOMAIN @ |-> "none"]], v)
ClearLine(S, v, n) ==
    LET w == S.wins[v]
        line == (n * w.width)..(n * w.width + w.width - 1)
    IN  IF line \subseteq DOMAIN w.buffer
        THEN Redraw([S EXCEPT !.wins[v].buffer = [i \in DOMAIN @ |->
                                 IF i \in line THEN "none" ELSE @[i]]], v)
        ELSE [S EXCEPT !.stray = TRUE]

(* window_scroll: the rows move up; the first n rows are cleared, which    *)
(* are not the n that became free.                                         *)
Scroll(S, v, n) ==
    LET w == S.wins[v]
        kept == (w.height - n) * w.width
        gone == n * w.width
    IN  IF n > w.height THEN [S EXCEPT !.stray = TRUE]
        ELSE Redraw([S EXCEPT !.wins[v].buffer = [i \in DOMAIN @ |->
                        CASE i < gone -> "none"
                          [] i >= gone /\ i < kept -> @[i + gone]
                          [] OTHER -> @[i]]], v)

-----------------------------------------------------------------------------
(* The cursor and writing.                                                 *)

At(S, v, x, y) == [S EXCEPT !.wins[v].cx = x % Word, !.wins[v].cy = y % Word]

(* Mutant: the cursor of a parent is the one of its child.                 *)
AscendUnshifted(r) ==
    LET w == r.S.wins[r.at] IN
    [S |-> At(r.S, r.at, r.x, r.y), at |-> w.parent, x |-> r.x - w.x, y |-> r.y]

(* The cursor of a window is set; on to where that is in its parent.       *)
Ascend(r) ==
    LET w == r.S.wins[r.at] IN
    [S |-> At(r.S, r.at, r.x, r.y), at |-> w.parent, x |-> r.x + w.x, y |-> r.y + w.y]

(* window_set_cursor_pos calls itself for the parent, up to one that is no *)
(* window.  Bound: there are no more rounds than windows, which is enough  *)
(* unless a window became an ancestor of itself.                           *)
SetCursor(S, v, x, y) ==
    LET rounds[n \in 0..Cardinality(Handles)] ==
            IF n = 0 THEN [S |-> S, at |-> v, x |-> x, y |-> y]
            ELSE IF IsWindow(S, rounds[n - 1].at) THEN Ascend(rounds[n - 1])
            ELSE rounds[n - 1]
    IN  rounds[Cardinality(Handles)].S

(* One character, before the line is broken.                               *)
Typed(S, v, c) ==
    LET w == S.wins[v]
        i == w.cx + w.cy * w.width
    IN  CASE c = "\n" -> At(S, v, 0, w.cy + 1)
          [] c = "\t" -> At(Put(Put(S, v, i, "char"), v, i + 1, "char"), v, w.cx + 2, w.cy)
          [] OTHER    -> At(Put(S, v, i, "char"), v, w.cx + 1, w.cy)

(* Mutant: a line is one character longer than the window is wide.         *)
BrokenLate(S, v) ==
    LET w == S.wins[v] IN
    IF w.cx > w.width THEN At(S, v, 0, w.cy + 1) ELSE S

(* "go to next line if needed", "scroll if needed".                        *)
Broken(S, v) ==
    LET w == S.wins[v] IN
    IF w.cx >= w.width THEN At(S, v, 0, w.cy + 1) ELSE S
Scrolled(S, v) ==
    LET w == S.wins[v] IN
    IF w.cy >= w.height THEN Scroll(At(S, v, 0, w.cy - 1), v, 1) ELSE S

(* window_write, of a window.                                              *)
Write(S, v, text) ==
    LET written[n \in 0..Len(text)] ==
            IF n = 0 THEN S
            ELSE Scrolled(Broken(Typed(written[n - 1], v, text[n]), v), v)
        T == written[Len(text)]
    IN  Redraw(SetCursor(T, v, T.wins[v].cx, T.wins[v].cy), v)

(* window_restore_cursor: "can not restore cursor of native window".       *)
RestoreCursor(S, v) ==
    LET w == S.wins[v]
        p == S.wins[w.parent]
    IN  IF v = Native THEN S
        ELSE IF p = Null THEN [S EXCEPT !.stray = TRUE]
        ELSE At(S, w.parent, Min2(w.x + w.cx, p.width - 1), Min2(w.y + w.cy, p.height - 1))

-----------------------------------------------------------------------------
(* Windows come, go and change.                                            *)

New(parent, at, size, visible, cursor) ==
    [parent |-> parent, x |-> at[1], y |-> at[2], width |-> size[1], height |-> size[2],
     cx |-> cursor[1], cy |-> cursor[2], visible |-> visible,
     buffer |-> [i \in 0..(size[1] * size[2] - 1) |-> Junk]]

(* Mutant: the copy uses the old width on both sides.                      *)
ResizedSkewed(w, size) ==
    [i \in 0..(size[1] * size[2] - 1) |->
        LET x == i % Min2(size[1], w.width)
            y == i \div Min2(size[1], w.width)
        IN  IF y < Min2(size[2], w.height) THEN w.buffer[x + y * w.width] ELSE Junk]

(* The buffer of window_reposition: what fits of the old one is copied.    *)
Resized(w, size) ==
    [i \in 0..(size[1] * size[2] - 1) |->
        LET x == i % size[1]
            y == i \div size[1]
        IN  IF x < w.width /\ y < w.height THEN w.buffer[x + y * w.width] ELSE Junk]

(* Mutant: only a window that grows gets a new buffer.                     *)
RepositionLazily(S, v, at, size) ==
    LET w == S.wins[v]
        sized == IF size[1] > w.width \/ size[2] > w.height
                 THEN [w EXCEPT !.buffer = Resized(w, size),
                                !.width = size[1], !.height = size[2]]
                 ELSE [w EXCEPT !.width = size[1], !.height = size[2]]
    IN  IF v = Native THEN S
        ELSE Redraw([S EXCEPT !.wins[v] = [sized EXCEPT !.x = at[1], !.y = at[2]]], v)

(* window_reposition, of another window than the native one.               *)
Reposition(S, v, at, size) ==
    LET w == S.wins[v]
        sized == IF <<w.width, w.height>> = size THEN w
                 ELSE [w EXCEPT !.buffer = Resized(w, size),
                                !.width = size[1], !.height = size[2]]
    IN  IF v = Native THEN S
        ELSE Redraw([S EXCEPT !.wins[v] = [sized EXCEPT !.x = at[1], !.y = at[2]]], v)

SetVisible(S, v, visible) ==
    IF v = Native THEN S
    ELSE Redraw([S EXCEPT !.wins[v].visible = visible], v)

-----------------------------------------------------------------------------
(* term_init.                                                              *)
Init ==
    /\ wins = [v \in Handles |->
                 IF v # Native THEN Null
                 ELSE [New(Null, <<0, 0>>, <<Width, Height>>, TRUE, <<0, 0>>)
                          EXCEPT !.buffer = [i \in DOMAIN @ |-> "none"]]]
    /\ current = Native
    /\ stray = FALSE /\ calls = 0

(* How a careful process uses windows: cursors are inside the window, a    *)
(* window is inside its parent, its children and its cursor stay inside    *)
(* when it is resized, and it has no children when it is deleted.  The     *)
(* code checks nothing of this.                                            *)
Within(place, size) == place[1] < size[1] /\ place[2] < size[2]
SizeOf(v) == <<wins[v].width, wins[v].height>>
CursorOf(v) == <<wins[v].cx, wins[v].cy>>
Fits(at, size, outer) ==
    /\ size[1] > 0 /\ size[2] > 0
    /\ at[1] + size[1] <= outer[1] /\ at[2] + size[2] <= outer[2]
Live == {v \in Handles : wins[v] # Null}
Children(v) == {c \in Live : wins[c].parent = v}
Childless(v) == Children(v) = {}

(* A tab writes two cells, the second of which may be behind the last one. *)
RoomFor(v, text) ==
    \A i \in DOMAIN text : text[i] = "\t" =>
        wins[v].width > 1 /\ i = 1 /\ wins[v].cx < wins[v].width - 1

Call == ~stray /\ calls < Calls /\ calls' = calls + 1

Becomes(S) == wins' = S.wins /\ stray' = S.stray /\ UNCHANGED current

(* window_create; a parent that is not a window means the native one.      *)
Create(v) ==
    /\ Call /\ wins[v] = Null
    /\ \E parent \in Handles \union {Null}, at \in Places, size \in Extents, cursor \in Garbage :
        LET p == IF IsWindow(Screen, parent) THEN parent ELSE Native IN
        /\ Careful => Fits(at, size, SizeOf(p))
        /\ wins' = [wins EXCEPT ![v] = New(p, at, size, TRUE, cursor)]
    /\ UNCHANGED <<current, stray>>

(* window_delete.  The window is cleared before its buffer is freed, so    *)
(* that buffer is lost to the heap.                                        *)
Delete(v) ==
    /\ Call /\ v \in Live
    /\ Careful => Childless(v)
    /\ wins' = [wins EXCEPT ![v] = Null]
    /\ UNCHANGED <<current, stray>>

(* The operations that change what window v shows...                       *)
Type(v) ==
    /\ Call /\ v \in Live
    /\ \E text \in Texts :
        /\ Careful => Within(CursorOf(v), SizeOf(v)) /\ RoomFor(v, text)
        /\ Becomes(Write(Screen, v, text))

Erase(v) ==
    /\ Call /\ v \in Live
    /\ \/ Becomes(Clear(Screen, v))
       \/ \E n \in 0..Height :
            /\ Careful => n < wins[v].height
            /\ Becomes(ClearLine(Screen, v, n)) \/ Becomes(Scroll(Screen, v, n))

Show(v) ==
    /\ Call /\ v \in Live
    /\ \/ \E visible \in BOOLEAN : Becomes(SetVisible(Screen, v, visible))
       \/ Becomes(Redraw(Screen, v))

Place(v) ==
    /\ Call /\ v \in Live
    /\ \E at \in Places, size \in Extents :
        /\ Careful /\ v # Native =>
            /\ Fits(at, size, SizeOf(wins[v].parent))
            /\ Within(CursorOf(v), SizeOf(v)) => Within(CursorOf(v), size)
            /\ \A c \in Children(v) : Fits(<<wins[c].x, wins[c].y>>, SizeOf(c), size)
        /\ Becomes(Reposition(Screen, v, at, size))

(* ... and those that move a cursor.                                       *)
Point(v) ==
    /\ Call /\ v \in Live
    /\ \E at \in Places :
        /\ Careful => Within(at, SizeOf(v))
        /\ Becomes(SetCursor(Screen, v, at[1], at[2]))

Restore(v) == Call /\ v \in Live /\ Becomes(RestoreCursor(Screen, v))

(* The terminal's own operations are those of the window it writes to.     *)
Terminal == Type(current) \/ Erase(current) \/ Point(current)

(* term_redirect: refuses what is a window, takes what is none.            *)
Redirect(v) ==
    /\ Call
    /\ current' = IF IsWindow(Screen, v) THEN current ELSE v
    /\ UNCHANGED <<wins, stray>>

(* A system call on something that is not a window does nothing.           *)
Next ==
    \/ \E v \in Others : Create(v) \/ Delete(v)
    \/ \E v \in Handles :
        Type(v) \/ Erase(v) \/ Show(v) \/ Place(v) \/ Point(v) \/ Restore(v)
    \/ Terminal
    \/ \E v \in Handles \union {Null} : Redirect(v)

Spec == Init /\ [][Next]_vars

-----------------------------------------------------------------------------
(* Properties.                                                             *)

TypeOK ==
    /\ DOMAIN wins = Handles /\ wins[Native] # Null
    /\ \A v \in Live :
        LET w == wins[v] IN
        /\ w.parent \in Handles \union {Null}
        /\ {w.x, w.y, w.width, w.height, w.cx, w.cy} \subseteq Short
        /\ w.visible \in BOOLEAN
        /\ w.buffer \in [0..(w.width * w.height - 1) -> Cell]
    /\ current \in Handles \union {Null} /\ stray \in BOOLEAN /\ calls \in 0..Calls

(* No operation accesses a cell behind the end of a buffer, of the window  *)
(* or of its parent, nor a deleted parent: the indices of writing, line    *)
(* breaks, scrolling and drawing agree with the sizes.                     *)
AccessesInside == ~stray

(* A cursor that is in its window stays there: through line breaks and     *)
(* scrolling, and in all parents, which the cursor moves too, so that the  *)
(* terminal can go on writing to any of them.                              *)
CursorsStay ==
    [][\A v \in Live : wins'[v] # Null /\ Within(CursorOf(v), SizeOf(v))
         => Within(CursorOf(v), SizeOf(v))']_vars

(* Every operation is confined to one window: of the others it changes     *)
(* none, but for the parent's cells in the rectangle of that window.       *)
InRectangle(w, i, width) ==
    /\ i % width \in w.x..(w.x + w.width - 1)
    /\ i \div width \in w.y..(w.y + w.height - 1)
Untouched(u, i) == wins'[u].buffer[i] = wins[u].buffer[i]
DrawsInside ==
    [][\E v \in Handles : \A u \in Live \ {v} : wins'[u] # Null =>
         SizeOf(u)' = SizeOf(u) /\ \A i \in DOMAIN wins[u].buffer :
            \/ Untouched(u, i)
            \/ /\ v \in Live /\ wins'[v] # Null /\ u = wins[v].parent
               /\ InRectangle(wins'[v], i, wins[u].width)]_vars

(* When a visible window without children is changed, moved or made        *)
(* visible, all of it is on its parent as it is in its own buffer.  Only   *)
(* if it is small enough: the part that is drawn shrinks as the window     *)
(* grows beyond half of its parent.                                        *)
Small(w, p) == 2 * w.width <= p.width + w.x /\ 2 * w.height <= p.height + w.y
Look(w) == <<w.x, w.y, w.width, w.height, w.visible, w.buffer>>
ShownAsWritten ==
    [][\A v \in Live \ {Native} : wins'[v] # Null =>
         LET w == wins'[v]
             p == wins'[w.parent]
         IN  Look(w) # Look(wins[v]) /\ w.visible /\ Childless(v) /\ Small(w, p) =>
                \A x \in 0..(w.width - 1), y \in 0..(w.height - 1) :
                    p.buffer[w.x + x + (w.y + y) * p.width] = w.buffer[x + y * w.width]]_vars

(* A window that is moved or resized keeps what it shows, as far as it is  *)
(* in both sizes.                                                          *)
ResizeKeeps ==
    [][\A v \in Live : wins'[v] # Null /\ SizeOf(v)' # SizeOf(v) =>
         \A x \in 0..(Min2(wins[v].width, wins'[v].width) - 1),
            y \in 0..(Min2(wins[v].height, wins'[v].height) - 1) :
            wins'[v].buffer[x + y * wins'[v].width] = wins[v].buffer[x + y * wins[v].width]]_vars
=============================================================================
