--------------------------------- MODULE Vt ---------------------------------
(***************************************************************************)
(* The terminal of the console server, srv/console2/vt100.c: one character  *)
(* at a time, what it does to the cursor, the scroll region and the reading *)
(* of escape sequences, and which cells of the screen it touches.  What is  *)
(* in the cells and their colours are left out.                             *)
(***************************************************************************)
EXTENDS Integers, Sequences, FiniteSets

CONSTANTS
    Rows, Cols,
    MAX_ANSI_ELEMENTS,
    MaxInt,       \* an int is from -MaxInt - 1 to MaxInt
    Digits,       \* bound: the digits that are typed into an escape sequence,
    MaxTens       \* bound: and the largest number that gets another one

ASSUME VtAssumption ==
    /\ Rows \in Nat \ {0} /\ Cols \in Nat \ {0}
    /\ MAX_ANSI_ELEMENTS \in Nat
    /\ MaxInt \in Nat /\ Rows < MaxInt /\ Cols + 8 <= MaxInt
    /\ Digits \subseteq 0..9 /\ MaxTens \in Nat

VARIABLES
    v,            \* struct virtscreen
    misled        \* see Misleads, for the properties

vtVars == <<v, misled>>

Mode == {"char", "ansi", "charset", "csi"}
Controls == {"ESC", "FF", "CR", "LF", "TAB", "BS", "NUL", "letter"}
AfterEsc == {"(", "[", "7", "8", "D", "E", "M", "other"}
Final == {"?", "D", "C", "A", "B", "G", "E", "F", "d", "H", "J", "L", "M", "P", "K",
          "s", "u", "r", "m"}

\* bad: memory outside of the screen was touched; nothing is said after that.
VtInit ==
    /\ v = [x |-> 0, y |-> 0, top |-> 0, bottom |-> Rows, oldx |-> 0, oldy |-> 0,
            mode |-> "char", number |-> 0, reading |-> FALSE, elements |-> <<>>, bad |-> FALSE]
    /\ misled = FALSE

Ints == (-MaxInt - 1)..MaxInt
Wrap(n) == ((n + MaxInt + 1) % (2 * MaxInt + 2)) - (MaxInt + 1)

Clamp(n, limit) == IF n < 0 THEN 0 ELSE IF n >= limit THEN limit - 1 ELSE n

position_console(w, y, x) == [w EXCEPT !.x = Clamp(Wrap(x), Cols), !.y = Clamp(Wrap(y), Rows)]

Loc(y, x) == y * Cols + x
Touch(w, from, to) ==
    [w EXCEPT !.bad = @ \/ (from <= to /\ (from < 0 \/ to >= Rows * Cols))]

\* The length of the move is unsigned: a region that ends before it begins moves
\* all of memory.
scroll_virtscreen(w) ==
    IF w.bottom - 1 < w.top THEN [w EXCEPT !.bad = TRUE]
    ELSE Touch(w, Loc(w.top, 0), Loc(w.bottom, 0) - 1)

scroll_virt_up_at_cursor(w) ==
    IF w.y >= w.top /\ w.y < w.bottom THEN Touch(w, Loc(w.y, 0), Loc(w.bottom, 0) - 1) ELSE w

change_character(w) == Touch(w, Loc(w.y, w.x), Loc(w.y, w.x))

clear_virtscreen(w, mode) ==
    CASE mode = 0 -> Touch(w, Loc(w.y, w.x), Loc(Rows - 1, Cols - 1))
      [] mode = 1 -> Touch(w, 0, Loc(w.y, w.x))
      [] OTHER    -> [Touch(w, 0, Loc(Rows - 1, Cols - 1)) EXCEPT !.x = 0, !.y = 0]

clear_to_eol(w, mode) ==
    Touch(w, Loc(w.y, IF mode = 0 THEN w.x ELSE 0), Loc(w.y, IF mode = 1 THEN w.x ELSE Cols - 1))

\* A line further down, for ESC D and ESC E.
IndexDown(w) ==
    IF w.y + 1 >= w.bottom THEN scroll_virtscreen(w) ELSE [w EXCEPT !.y = @ + 1]

std_interpret_ansi(w, ch) ==
    CASE ch = "(" -> [w EXCEPT !.mode = "charset"]
      [] ch = "[" -> [w EXCEPT !.mode = "csi", !.number = 0, !.elements = <<>>, !.reading = FALSE]
      [] ch = "7" -> [w EXCEPT !.mode = "char", !.oldx = w.x, !.oldy = w.y]
      [] ch = "8" -> [position_console(w, w.y, w.x) EXCEPT !.mode = "char"]
      [] ch = "D" -> [IndexDown(w) EXCEPT !.mode = "char"]
      [] ch = "E" -> [IndexDown([w EXCEPT !.x = 0]) EXCEPT !.mode = "char"]
      [] ch = "M" -> [IF w.y - 1 < w.top THEN scroll_virt_up_at_cursor(w)
                      ELSE [w EXCEPT !.y = @ - 1] EXCEPT !.mode = "char"]
      [] ch = "ESC"   -> w
      [] ch = "other" -> [w EXCEPT !.mode = "char"]

\* Slip: below the region the cursor goes on.
LineFeedBelow(w) ==
    LET down == w.y + 1
    IN  [IF down > w.bottom - 1 THEN [scroll_virtscreen(w) EXCEPT !.y = down]
         ELSE [w EXCEPT !.y = down] EXCEPT !.x = 0]

\* At the end of the region the screen scrolls; below it, the cursor stays.
LineFeed(w) ==
    LET down == w.y + 1
    IN  [IF down = w.bottom THEN scroll_virtscreen(w)
         ELSE IF down > w.bottom THEN w ELSE [w EXCEPT !.y = down] EXCEPT !.x = 0]

\* At the end of a line the cursor stays where it is (STRICT_VT100).
Letter(w) == [change_character(w) EXCEPT !.x = IF @ + 1 < Cols THEN @ + 1 ELSE Cols - 1]

std_interpret_char(w, ch) ==
    CASE ch = "ESC" -> [w EXCEPT !.mode = "ansi"]
      [] ch = "FF"  -> clear_virtscreen(w, 2)
      [] ch = "CR"  -> [w EXCEPT !.x = 0]
      [] ch = "LF"  -> LineFeed(w)
      [] ch = "TAB" -> position_console(w, w.y, w.x + 8 - (w.x % 8))
      [] ch = "BS"  -> [w EXCEPT !.x = IF @ = 0 THEN Cols - 1 ELSE @ - 1]
      [] ch = "NUL" -> w
      [] ch = "letter" -> Letter(w)

-----------------------------------------------------------------------------
\* The end of a sequence ESC [ n ; n ... ch.
Element(w, i, default) == IF i <= Len(w.elements) THEN w.elements[i] ELSE default
FromOne(n) == IF n = 0 THEN 0 ELSE n - 1

\* Slip: the region may go beyond the screen.
set_scroll_region_raw(w, low, high) ==
    [w EXCEPT !.top = IF Wrap(low - 1) < 0 THEN 0 ELSE Wrap(low - 1), !.bottom = high]

set_scroll_region(w, low, high) ==
    [w EXCEPT !.top = IF Wrap(low - 1) < 0 THEN 0 ELSE Wrap(low - 1),
              !.bottom = IF high >= Rows THEN Rows ELSE high]

ScrollRegion(w) ==
    LET low  == Element(w, 1, 1)
        high == Element(w, 2, Rows)
    IN  IF low <= high THEN set_scroll_region(w, low, high) ELSE w

\* What follows the n characters moves to the cursor.  With a number that has wrapped,
\* or wraps when the column is added, it begins to the left of the cursor, and as much
\* more is written behind the end of the line.
delete_chars_in_line(w, n) ==
    LET from == Wrap(w.x + n)
    IN  IF from < w.x THEN Touch(w, Loc(w.y, from), Loc(w.y, Cols + w.x - from) - 1)
        ELSE Touch(w, Loc(w.y, w.x), Loc(w.y, Cols) - 1)

Interpret(w, ch) ==
    LET n == Element(w, 1, 1)
    IN  CASE ch = "D" -> position_console(w, w.y, w.x - n)
          [] ch = "C" -> position_console(w, w.y, w.x + n)
          [] ch = "A" -> position_console(w, w.y - n, w.x)
          [] ch = "B" -> position_console(w, w.y + n, w.x)
          [] ch = "G" -> position_console(w, w.y, FromOne(n))
          [] ch = "E" -> position_console(w, w.y + n, 0)
          [] ch = "F" -> position_console(w, w.y - n, 0)
          [] ch = "d" -> position_console(w, FromOne(n), w.x)
          [] ch = "H" -> position_console(w, FromOne(n), FromOne(Element(w, 2, 1)))
          [] ch = "J" -> clear_virtscreen(w, Element(w, 1, 0))
          [] ch \in {"L", "M"} -> IF n > 0 THEN scroll_virt_up_at_cursor(w) ELSE w
          [] ch = "P" -> delete_chars_in_line(w, n)
          [] ch = "K" -> clear_to_eol(w, Element(w, 1, 0))
          [] ch = "s" -> [w EXCEPT !.oldx = w.x, !.oldy = w.y]
          [] ch = "u" -> position_console(w, w.oldy, w.oldx)
          [] ch = "r" -> ScrollRegion(w)
          [] ch = "m" -> w

Digit(w, d) == [w EXCEPT !.number = Wrap(10 * @ + d), !.reading = TRUE]

special_reading_ansi(w, ch) ==
    LET read == [w EXCEPT !.number = 0, !.reading = FALSE,
                    !.elements = IF (w.reading \/ ch = "semicolon") /\ Len(@) < MAX_ANSI_ELEMENTS
                                 THEN Append(@, w.number) ELSE @]
    IN  IF ch \in {"semicolon", "?"} THEN read ELSE [Interpret(read, ch) EXCEPT !.mode = "char"]

-----------------------------------------------------------------------------
Char == /\ v.mode = "char"
        /\ \E ch \in Controls : v' = std_interpret_char(v, ch)
        /\ UNCHANGED misled

Ansi == /\ v.mode = "ansi"
        /\ \E ch \in AfterEsc \cup {"ESC"} : v' = std_interpret_ansi(v, ch)
        /\ UNCHANGED misled

Charset == /\ v.mode = "charset"
           /\ v' = [v EXCEPT !.mode = "char"]
           /\ UNCHANGED misled

CsiDigit == /\ v.mode = "csi"
            /\ v.number \in 0..MaxTens
            /\ \E d \in Digits : v' = Digit(v, d)
            /\ UNCHANGED misled

\* A program misleads the terminal when it sets a scroll region without a line, or has
\* it delete a number of characters that is more than an int holds (or so near to it
\* that the column does not fit in any more), as far as it wraps.
Misleads(w, ch) ==
    \/ w.bottom <= w.top
    \/ ch = "P" /\ Element(w, 1, 1) \notin 0..(MaxInt - Cols)

Csi == /\ v.mode = "csi"
       /\ \E ch \in Final \cup {"semicolon"} :
            /\ v' = special_reading_ansi(v, ch)
            /\ misled' = (misled \/ Misleads(v', ch))

VtNext == ~v.bad /\ (Char \/ Ansi \/ Charset \/ CsiDigit \/ Csi)

VtSpec == VtInit /\ [][VtNext]_vtVars
-----------------------------------------------------------------------------
\* The parser's mode and numbers, and the region, are in their ranges; and the cursor,
\* which most characters move without looking, is on the screen whatever was printed.
VtTypeOK ==
    /\ v.mode \in Mode
    /\ v.number \in Ints
    /\ Len(v.elements) <= MAX_ANSI_ELEMENTS
    /\ v.x \in 0..Cols - 1 /\ v.y \in 0..Rows - 1
    /\ v.oldx \in 0..Cols - 1 /\ v.oldy \in 0..Rows - 1
    /\ v.top \in 0..MaxInt /\ v.bottom \in (-MaxInt - 1)..Rows

\* The terminal writes outside of the screen's memory only after a program misled it:
\* any other scroll region, number, wrapped or not, and order of characters is safe.
WritesInside == ~misled => ~v.bad

\* Whatever characters are printed, the terminal of vt100.c stays in its states and,
\* but for those two ways, in its memory.
TerminalInside == VtTypeOK /\ WritesInside
=============================================================================
