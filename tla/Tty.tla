-------------------------------- MODULE Tty ---------------------------------
(***************************************************************************)
(* The terminal device, kernel/src/fs/ttyfs.c, between the keyboard, a     *)
(* task that reads lines, tasks that write, and the kernel log             *)
(* (kprint_core of kernel/src/log/kprint.c).                               *)
(*                                                                         *)
(* One processor executes the tasks.  The sections under tty_lock have     *)
(* interrupts off and are one step; between two of them the keyboard       *)
(* interrupt may come and other tasks run.  A key that finds no task       *)
(* waiting for it is dropped (kevent_dispatch; the module Sched has the    *)
(* protocol in detail).                                                    *)
(***************************************************************************)
EXTENDS Keyboard, Term

CONSTANTS
  BufferSize,   \* TTY_BUFFER_SIZE
  Lens,         \* the lengths asked for by reads
  Environments  \* the keys that are used and the texts that are written together

ASSUME TtyAssumption ==
  /\ BufferSize \in Nat \ {0}
  /\ Lens \subseteq Nat
  /\ \A env \in Environments : IsKeyboard(env.keys) /\ env.texts \subseteq Seq(STRING)
  /\ Width \in Nat \ {0, 1} /\ Height \in Nat \ {0, 1} /\ TabStop \in Nat \ {0}

VARIABLES
  texts,    \* external: what tasks write and the kernel logs
  g,        \* the terminal
  color,    \* its g.fgcolor and g.prev_fgcolor
  ibuff, ibegin, isize, icursor,   \* tty_buf
  reader,   \* the reading task: idle, busy between two events, waiting, woken
  len, kb_data,   \* its argument, and the event it was woken with
  logger,   \* how far a task is in kprint_core
  line,     \* ghost: the line typed so far
  plain,    \* ghost: nothing but the characters of line was drawn since it began
  halted    \* the kernel has panicked

ttyVars == <<ibuff, ibegin, isize, icursor, line>>
readVars == <<reader, len, kb_data>>
kbdVars == <<keyVars, texts>>
vars == <<kbdVars, g, color, ttyVars, readVars, logger, plain, halted>>

Backspace == "backspace"
Nul == "nul"
NoKey == [code |-> Reserved, pressed |-> FALSE, shift |-> FALSE]

Init ==
  /\ \E env \in Environments : KeyboardInit(env.keys) /\ texts = env.texts
  /\ g = TermInit
  /\ color = [fg |-> "white", prev |-> NoColor]
  /\ ibuff = [i \in 0 .. BufferSize - 1 |-> Blank]
  /\ ibegin = 0 /\ isize = 0 /\ icursor = 0
  /\ reader = "idle" /\ len = 0 /\ kb_data = NoKey
  /\ logger = "no"
  /\ line = <<>> /\ plain = TRUE /\ halted = FALSE

\* keyecode_to_ascii.  key_ascii has no character for enter, backspace and tab
\* with shift.
Ascii(code, shift) ==
  LET table == IF shift THEN [a |-> "A", b |-> "B"]
               ELSE [a |-> "a", b |-> "b", enter |-> Newline, back |-> Backspace, tab |-> Tab]
  IN IF code \in DOMAIN table THEN table[code] ELSE Nul

-----------------------------------------------------------------------------
(* Output.                                                                 *)

\* Text drawn while a line is being typed stands between its characters.
Drawn == plain' = (plain /\ line = <<>>)

\* ttyfs_write; to standard error in red.
ttyfs_write(text, err) ==
  /\ ~halted
  /\ g' = term_flush(term_write(g, text))
  /\ color' = IF err THEN color_pop(color_push(color, "red")) ELSE color
  /\ Drawn
  /\ UNCHANGED <<kbdVars, ttyVars, readVars, logger, halted>>

\* kprint_core called by a task, for the file that vfs_resolve_path did not
\* find: push the colour, write, pop it and flush, each under term_lock.
kprint_push ==
  /\ ~halted /\ logger = "no" /\ texts # {}
  /\ color' = color_push(color, "red")
  /\ logger' = "pushed"
  /\ UNCHANGED <<kbdVars, g, ttyVars, readVars, plain, halted>>

kprint_write(text) ==
  /\ ~halted /\ logger = "pushed"
  /\ g' = term_write(g, text)
  /\ Drawn
  /\ logger' = "written"
  /\ UNCHANGED <<kbdVars, color, ttyVars, readVars, halted>>

kprint_pop ==
  /\ ~halted /\ logger = "written"
  /\ color' = color_pop(color)
  /\ logger' = "popped"
  /\ UNCHANGED <<kbdVars, g, ttyVars, readVars, plain, halted>>

kprint_flush ==
  /\ ~halted /\ logger = "popped"
  /\ g' = term_flush(g)
  /\ logger' = "no"
  /\ UNCHANGED <<kbdVars, color, ttyVars, readVars, plain, halted>>

-----------------------------------------------------------------------------
(* The keyboard interrupt.                                                 *)

\* Does the handler log the byte: an unknown key, or a lock key pressed?
Logs(byte, keycode) ==
  byte # Prefix /\ (keycode = Reserved \/ (keycode \in LockKeys /\ ~byte.release))

\* keyboard_callback: with interrupts off, log what there is to log, and
\* publish the event; a reader that is waiting is woken with it.
keyboard_callback ==
  /\ ~halted /\ bytes # <<>>
  /\ UNCHANGED texts
  /\ LET byte == Head(bytes)
         keycode == Keycode(byte.code, is_extended)
     IN /\ ReadByte(keycode)
        /\ IF Logs(byte, keycode)
           THEN /\ \E text \in texts : g' = term_flush(term_write(g, text))
                /\ color' = color_pop(color_push(color, "yellow"))
                /\ Drawn
           ELSE UNCHANGED <<g, color, plain>>
        /\ IF byte # Prefix /\ keycode # Reserved /\ reader = "waiting"
           THEN /\ kb_data' = KeyData(keycode, ~byte.release)
                /\ reader' = "woken"
           ELSE UNCHANGED <<kb_data, reader>>
  /\ UNCHANGED <<ttyVars, len, logger, halted>>

-----------------------------------------------------------------------------
(* ttyfs_read.                                                             *)

\* Longer reads than the buffer are refused.
ttyfs_read(n) ==
  /\ ~halted /\ reader = "idle"
  /\ n <= BufferSize
  /\ len' = n /\ reader' = "busy"
  /\ UNCHANGED <<kbdVars, g, color, ttyVars, kb_data, logger, plain, halted>>

\* kevent_subscribe up to the moment the task waits.
subscribe ==
  /\ ~halted /\ reader = "busy"
  /\ reader' = "waiting"
  /\ UNCHANGED <<kbdVars, g, color, ttyVars, len, kb_data, logger, plain, halted>>

\* _tty_echo_char for a backspace.
EchoBack ==
  IF isize > 0
  THEN /\ isize' = isize - 1
       /\ icursor' = (icursor - 1 + BufferSize) % BufferSize
       /\ g' = term_refresh(term_back(g))
       /\ line' = Front(line)
       /\ plain' = (plain \/ isize = 1)
       /\ UNCHANGED <<ibuff, ibegin>>
  ELSE g' = term_refresh(g) /\ UNCHANGED <<ttyVars, plain>>

\* When a character panics the kernel.
Full == isize >= BufferSize

\* _tty_echo_char for any other character of a line.
EchoChar(ch) ==
  /\ ibuff' = [ibuff EXCEPT ![icursor] = ch]
  /\ icursor' = (icursor + 1) % BufferSize
  /\ isize' = isize + 1
  /\ g' = term_refresh(term_putch(g, ch))
  /\ line' = Append(line, ch)
  /\ plain' = (plain /\ ch # Tab)
  /\ UNCHANGED ibegin

\* The event is looked at: a key that comes up, or has no character, is skipped.
ReadKey(ch) ==
  /\ ~halted /\ reader = "woken"
  /\ kb_data.pressed
  /\ ch = Ascii(kb_data.code, kb_data.shift)

skip_key ==
  /\ ~halted /\ reader = "woken"
  /\ ~kb_data.pressed \/ Ascii(kb_data.code, kb_data.shift) = Nul
  /\ reader' = "busy" /\ kb_data' = NoKey
  /\ UNCHANGED <<kbdVars, g, color, ttyVars, len, logger, plain, halted>>

\* A character is echoed and the reader goes on.
echo_char(ch) ==
  /\ ReadKey(ch) /\ ch \notin {Nul, Newline}
  /\ \/ ch = Backspace /\ EchoBack /\ UNCHANGED halted
     \/ ch # Backspace /\ ~Full /\ EchoChar(ch) /\ UNCHANGED halted
     \/ ch # Backspace /\ Full /\ halted' = TRUE /\ UNCHANGED <<ttyVars, g, plain>>
  /\ reader' = "busy" /\ kb_data' = NoKey
  /\ UNCHANGED <<kbdVars, color, len, logger>>

\* Mutant: the part that has wrapped around is not copied from the beginning.
Copied_straight(n) ==
  [i \in 1 .. n |-> ibuff[IF ibegin + i <= BufferSize THEN ibegin + i - 1 ELSE BufferSize - 1]]

\* What the two memcpy put in the reader's buffer.
Copied(n) ==
  LET toEnd == BufferSize - ibegin
      from(start, count) == [i \in 1 .. count |-> ibuff[start + i - 1]]
  IN IF n <= toEnd THEN from(ibegin, n) ELSE from(ibegin, toEnd) \o from(0, n - toEnd)

\* A newline ends the read, which returns at most len characters of the line
\* and forgets the others.
read_line ==
  /\ ReadKey(Newline)
  /\ g' = term_refresh(term_newline(g))
  /\ isize' = 0 /\ ibegin' = icursor
  /\ line' = <<>> /\ plain' = TRUE
  /\ reader' = "idle" /\ len' = 0 /\ kb_data' = NoKey
  /\ UNCHANGED <<kbdVars, color, ibuff, icursor, logger, halted>>

Next ==
  \/ \E key \in keys : (Press(key) \/ Release(key))
       /\ ~halted
       /\ UNCHANGED <<texts, g, color, ttyVars, readVars, logger, plain, halted>>
  \/ \E text \in texts :
       \/ kprint_write(text)
       \/ \E err \in BOOLEAN : ttyfs_write(text, err)
  \/ keyboard_callback
  \/ kprint_push \/ kprint_pop \/ kprint_flush
  \/ \E n \in Lens : ttyfs_read(n)
  \/ subscribe \/ skip_key \/ read_line
  \/ \E ch \in {"a", "A", "b", "B", Tab, Backspace} : echo_char(ch)

Spec == Init /\ [][Next]_vars

-----------------------------------------------------------------------------
(* Properties.                                                             *)

MinOf(a, b) == IF a < b THEN a ELSE b

\* A read returns the beginning of the line that was typed and edited, in the
\* order of the keys, however often the buffer has wrapped around and whatever
\* part of the line was taken back and typed again: the indices of tty_buf never
\* lose a character, show an old one, or take one that was erased.
ReadsLineTyped ==
  /\ isize = Len(line)
  /\ Copied(MinOf(len, isize)) = SubSeq(line, 1, MinOf(len, isize))

\* The number of cells before the cursor, and the k-th of them counted back.
Before == g.y * Width + g.x
CellBack(k) == LET p == Before - k IN <<p \div Width, p % Width>>

\* What is on the screen is what is in the buffer: the cells before the cursor
\* show the line, as far as it has not scrolled off, across the ends of rows and
\* the scrolling of the screen.  (Not once something else is drawn in the line,
\* or a tab is, of which a backspace erases one cell.)
EchoMatchesLine ==
  plain => \A k \in 1 .. MinOf(Len(line), Before) :
             g.swap[CellBack(k)] = line[Len(line) - k + 1]

\* What has been typed or written is on the framebuffer: a cell that is not
\* flushed yet is one that a backspace has erased, at the cursor or behind it,
\* however echo, writes, log messages and the keyboard interrupt follow on each
\* other.  It is not said of the colour, which a message that interrupts another
\* one changes for the text that follows.  (A backspace to the row above, or to the cell of the last refresh, is not
\* flushed by term_refresh.)
OnlyErasedStale ==
  logger \in {"no", "pushed"} =>
    \A c \in Cells : g.swap[c] # g.shown[c] =>
                       g.swap[c] = Blank /\ c[1] * Width + c[2] >= Before
=============================================================================
