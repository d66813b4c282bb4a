-------------------------------- MODULE Term --------------------------------
(***************************************************************************)
(* The framebuffer terminal: kernel/src/device/display/term.c over fb.c.   *)
(*                                                                         *)
(* The unit of drawing is a character cell, a pair of row and column.      *)
(* Glyphs are drawn in the swap buffer and become visible when they are    *)
(* flushed to the framebuffer.  Every operation runs under term_lock with  *)
(* interrupts off and is a function from one terminal state to the next.   *)
(***************************************************************************)
EXTENDS Integers, Sequences

CONSTANTS
  Width, Height,  \* ch_width and ch_height
  TabStop         \* 8 in the code

Blank == " "
Tab == "tab"
Newline == "newline"
Cells == (0 .. Height - 1) \X (0 .. Width - 1)

\* term_init and term_clear: x and y are the cursor, px and py the cursor of the
\* last refresh, swap the cells drawn and shown the cells of the framebuffer.
TermInit ==
  [x |-> 0, y |-> 0, px |-> 0, py |-> 0,
   swap |-> [c \in Cells |-> Blank], shown |-> [c \in Cells |-> Blank]]

\* fb_scroll by the height of a row.
fb_scroll(swap) ==
  [c \in Cells |-> IF c[1] + 1 < Height THEN swap[<<c[1] + 1, c[2]>>] ELSE Blank]

\* Mutant: the cursor of the last refresh is kept when the screen scrolls.
advance_line_kept(g) == [g EXCEPT !.x = 0, !.y = @ - 1, !.swap = fb_scroll(@)]

\* _advance_line, which makes the next refresh flush from the first row on.
advance_line(g) ==
  [g EXCEPT !.px = 0, !.py = 0, !.x = 0, !.y = @ - 1, !.swap = fb_scroll(@)]

ScrollIfNeeded(g) == IF g.y >= Height THEN advance_line(g) ELSE g

\* Mutant: the line wraps when its last column has been written.
WrapIfNeeded_eager(g) == IF g.x >= Width - 1 THEN [g EXCEPT !.x = 0, !.y = @ + 1] ELSE g

\* A line wraps when a character no longer fits.
WrapIfNeeded(g) == IF g.x >= Width THEN [g EXCEPT !.x = 0, !.y = @ + 1] ELSE g

\* _draw_glyph at the cursor.
Draw(g, ch) == [g EXCEPT !.swap[<<g.y, g.x>>] = ch, !.x = @ + 1]

\* _term_putch_locked for a character other than a tab.
PutCell(g, ch) ==
  IF ch = Newline THEN ScrollIfNeeded([g EXCEPT !.y = @ + 1, !.x = 0])
  ELSE Draw(ScrollIfNeeded(WrapIfNeeded(g)), ch)

\* n spaces.
PutBlanks(g, n) ==
  LET after[k \in 0 .. n] == IF k = 0 THEN g ELSE PutCell(after[k - 1], Blank)
  IN after[n]

\* _term_putch_locked: a tab is one to TabStop spaces.
term_putch(g, ch) ==
  IF ch # Tab THEN PutCell(g, ch) ELSE PutBlanks(g, TabStop - (g.x % TabStop))

\* term_write and term_write_n.
term_write(g, text) ==
  LET after[k \in 0 .. Len(text)] == IF k = 0 THEN g ELSE term_putch(after[k - 1], text[k])
  IN after[Len(text)]

term_newline(g) == PutCell(g, Newline)

\* term_back: back by a cell, across the beginning of a line, and clear it.
term_back(g) ==
  IF g.x > 0 THEN [g EXCEPT !.x = @ - 1, !.swap[<<g.y, g.x - 1>>] = Blank]
  ELSE IF g.y > 0 THEN [g EXCEPT !.x = Width - 1, !.y = @ - 1,
                                 !.swap[<<g.y - 1, Width - 1>>] = Blank]
  ELSE g

\* fb_flush_region from the start of row top to the end of row bottom.
fb_flush_region(g, top, bottom) ==
  [c \in Cells |-> IF top <= c[1] /\ c[1] <= bottom THEN g.swap[c] ELSE g.shown[c]]

\* term_refresh: flush the rows from the last refresh's to the cursor's.
term_refresh(g) ==
  IF g.px = g.x /\ g.py = g.y THEN g
  ELSE [g EXCEPT !.shown = fb_flush_region(g, g.py, g.y), !.px = g.x, !.py = g.y]

\* term_flush: everything.
term_flush(g) == [g EXCEPT !.shown = g.swap]

-----------------------------------------------------------------------------
(* The colour of text, with one level of push and pop.                     *)

NoColor == "none"   \* 0: on the black background, text nobody can read

\* term_set_fgcolor_prev.
color_push(c, new) == [fg |-> new, prev |-> c.fg]

\* term_restore_fgcolor.
color_pop(c) == [fg |-> c.prev, prev |-> NoColor]
=============================================================================
