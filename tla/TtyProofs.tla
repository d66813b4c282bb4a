----------------------------- MODULE TtyProofs ------------------------------
(***************************************************************************)
(* Proofs about Tty, for every size of the ring and of the screen, every   *)
(* keyboard and all texts: a read returns the line typed, the driver knows *)
(* the modifiers, and the screen shows what was drawn.                     *)
(***************************************************************************)
EXTENDS Tty, WellFoundedInduction, TLAPS

-----------------------------------------------------------------------------
(* The inductive invariants.                                               *)

\* What can be on the screen: what is echoed, and the characters of texts.
Typed == {Blank, "a", "A", "b", "B", Tab}
Glyphs == Typed \union UNION {ToSet(text) : text \in UNION {env.texts : env \in Environments}}

\* The place in the ring of the i-th character of a line that begins at b.
Slot(b, i) == IF b + i <= BufferSize THEN b + i - 1 ELSE b + i - 1 - BufferSize

\* The ring holds the line, from ibegin to the cursor.
RingInv ==
  /\ ibuff \in [0 .. BufferSize - 1 -> Glyphs] /\ line \in Seq(Glyphs)
  /\ ibegin \in 0 .. BufferSize - 1 /\ icursor \in 0 .. BufferSize - 1
  /\ isize \in 0 .. BufferSize /\ len \in Nat
  /\ isize = Len(line)
  /\ icursor = Slot(ibegin, isize + 1)
  /\ \A i \in 1 .. isize : ibuff[Slot(ibegin, i)] = line[i]

\* The i-th of the bytes bs is prefixed, e being is_extended, and is one of key m.
Prefixed(bs, e, i) == IF i = 1 THEN e ELSE bs[i - 1] = Prefix
Sets(bs, e, i, m) == bs[i] # Prefix /\ Keycode(bs[i].code, Prefixed(bs, e, i)) = m

Down(h, m) == \E key \in h : key.name = m

\* The last byte of m that waits tells whether m is down, among the keys h; if
\* none waits, the state k tells it.
Told(bs, e, k, h, m) ==
  \/ (\A i \in 1 .. Len(bs) : ~Sets(bs, e, i, m)) /\ (m \in k <=> Down(h, m))
  \/ \E i \in 1 .. Len(bs) :
       /\ Sets(bs, e, i, m)
       /\ \A j \in 1 .. Len(bs) : Sets(bs, e, j, m) => j <= i
       /\ bs[i].release <=> ~Down(h, m)

\* A prefix is never the last byte that was sent.
Complete(bs, e) == IF bs = <<>> THEN ~e ELSE bs[Len(bs)] # Prefix

Byte(ks) == [code : {"e0"} \union {key.code : key \in ks}, release : BOOLEAN]

\* keystate and the bytes that wait in the controller tell which modifiers are
\* down.
KeyInv ==
  /\ IsKeyboard(keys) /\ held \subseteq keys
  /\ bytes \in Seq(Byte(keys)) /\ is_extended \in BOOLEAN /\ keystate \subseteq Modifiers
  /\ Complete(bytes, is_extended)
  /\ \A m \in Modifiers : Told(bytes, is_extended, keystate, held, m)

\* A terminal, and one whose cursor is on the screen and not before the last
\* refresh's.
TermRec ==
  [x : 0 .. Width, y : 0 .. Height, px : 0 .. Width, py : 0 .. Height,
   swap : [Cells -> Glyphs], shown : [Cells -> Glyphs]]

Good(t) ==
  /\ t \in TermRec /\ t.y < Height
  /\ t.py < t.y \/ (t.py = t.y /\ t.px <= t.x)

\* A cell that is not flushed yet is blank, and at the cursor or behind it.
StaleOK(t) ==
  \A c \in Cells : t.swap[c] # t.shown[c] =>
                     t.swap[c] = Blank /\ (c[1] > t.y \/ (c[1] = t.y /\ c[2] >= t.x))

ScreenInv ==
  /\ Good(g) /\ texts \subseteq Seq(Glyphs)
  /\ logger \in {"no", "pushed"} => StaleOK(g)

\* The number of cells before row r, column c, and what they show: the k-th cell
\* before the cursor has the k-th last character of l.
Pos(r, c) == r * Width + c

Shows(t, l) ==
  \A r \in 0 .. Height - 1, c \in 0 .. Width - 1 : \A k \in 1 .. Len(l) :
    Pos(r, c) + k = Pos(t.y, t.x) => t.swap[<<r, c>>] = l[Len(l) - k + 1]

EchoInv == plain \in BOOLEAN /\ (plain => Shows(g, line))

-----------------------------------------------------------------------------
(* The ring.                                                               *)

LEMMA Appended ==
  ASSUME NEW S, NEW s \in Seq(S), NEW n \in Nat, n = Len(s), NEW e \in S,
         NEW next, next = Append(s, e)
  PROVE  /\ next \in Seq(S) /\ Len(next) = n + 1 /\ DOMAIN next = 1 .. n + 1
         /\ next[n + 1] = e /\ \A i \in 1 .. n : next[i] = s[i]
OBVIOUS

LEMMA Joined ==
  ASSUME NEW S, NEW u \in Seq(S), NEW v \in Seq(S), NEW k \in Nat, NEW m \in Nat,
         k = Len(u), m = Len(v), NEW next, next = u \o v
  PROVE  /\ next \in Seq(S) /\ Len(next) = k + m
         /\ \A i \in 1 .. k : next[i] = u[i]
         /\ \A i \in 1 .. m : next[k + i] = v[i]
<1>1. next \in Seq(S) /\ Len(next) = k + m
  OBVIOUS
<1>2. \A i \in 1 .. k : next[i] = u[i]
  OBVIOUS
<1>3. ASSUME NEW i \in 1 .. m PROVE next[k + i] = v[i]
  OBVIOUS
<1> QED BY <1>1, <1>2, <1>3

\* A sequence is its two parts joined.
LEMMA TwoParts ==
  ASSUME NEW S, NEW u \in Seq(S), NEW v \in Seq(S), NEW t \in Seq(S), NEW k \in Nat, NEW m \in Nat,
         k = Len(u), m = Len(v), Len(t) = k + m,
         \A i \in 1 .. k : u[i] = t[i], \A i \in 1 .. m : v[i] = t[k + i]
  PROVE  u \o v = t
<1>1. PICK next : next = u \o v
  OBVIOUS
<1>2. /\ next \in Seq(S) /\ Len(next) = k + m
      /\ \A i \in 1 .. k : next[i] = u[i]
      /\ \A i \in 1 .. m : next[k + i] = v[i]
  BY ONLY <1>1, Joined, u \in Seq(S), v \in Seq(S), k \in Nat, m \in Nat, k = Len(u), m = Len(v)
<1>3. ASSUME NEW i \in 1 .. k + m PROVE next[i] = t[i]
  <2>1. CASE i <= k
    <3>1. i \in 1 .. k
      BY <2>1
    <3> QED BY <3>1, <1>2
  <2>2. CASE i > k
    <3>1. i - k \in 1 .. m /\ k + (i - k) = i
      BY <2>2
    <3>2. PICK j \in 1 .. m : k + j = i
      BY <3>1
    <3>3. next[k + j] = v[j] /\ v[j] = t[k + j]
      BY <1>2
    <3> QED BY <3>2, <3>3
  <2> QED BY <2>1, <2>2
<1>4. next = [i \in 1 .. k + m |-> next[i]] /\ t = [i \in 1 .. k + m |-> t[i]]
  BY <1>2
<1> QED BY <1>1, <1>3, <1>4

LEMMA RingSize == BufferSize \in Nat /\ BufferSize >= 1
BY TtyAssumption

\* The remainder of a number below twice the size.
LEMMA RingMod ==
  ASSUME NEW n \in Nat, n >= 1, NEW p \in Nat, p < 2 * n
  PROVE  p % n = IF p < n THEN p ELSE p - n
<1>1. PICK q, r : q = p \div n /\ r = p % n
  OBVIOUS
<1>2. q \in Int /\ r \in 0 .. n - 1 /\ p = n * q + r
  BY <1>1
<1>3. q < 2
  <2>1. SUFFICES ASSUME q >= 2 PROVE FALSE
    BY <1>2
  <2>2. n * q >= n * 2
    BY <2>1, <1>2
  <2> QED BY <2>2, <1>2
<1>4. q > -1
  <2>1. SUFFICES ASSUME q <= -1 PROVE FALSE
    BY <1>2
  <2>2. n * q <= n * (-1)
    BY <2>1, <1>2
  <2> QED BY <2>2, <1>2
<1>5. q = 0 \/ q = 1
  BY <1>2, <1>3, <1>4
<1> QED BY <1>1, <1>2, <1>5

\* The places of a line: within the ring, each other than the others, and one
\* step from the place before.
LEMMA SlotFacts ==
  ASSUME NEW b \in 0 .. BufferSize - 1
  PROVE  /\ \A i \in 1 .. BufferSize + 1 : Slot(b, i) \in 0 .. BufferSize - 1
         /\ \A i, j \in 1 .. BufferSize : Slot(b, i) = Slot(b, j) => i = j
         /\ \A i \in 1 .. BufferSize : (Slot(b, i) + 1) % BufferSize = Slot(b, i + 1)
         /\ \A i \in 1 .. BufferSize :
              (Slot(b, i + 1) - 1 + BufferSize) % BufferSize = Slot(b, i)
         /\ Slot(b, 1) = b
<1>1. PICK n \in Nat : n = BufferSize /\ n >= 1
  BY RingSize
<1>2. \A i \in 1 .. n + 1 : Slot(b, i) \in 0 .. n - 1
  BY <1>1 DEF Slot
<1>3. \A i, j \in 1 .. n : Slot(b, i) = Slot(b, j) => i = j
  BY <1>1 DEF Slot
<1>4. ASSUME NEW i \in 1 .. n PROVE (Slot(b, i) + 1) % n = Slot(b, i + 1)
  <2>1. PICK p \in Nat : p = Slot(b, i) + 1 /\ p < 2 * n
    BY <1>1, <1>2
  <2>2. p % n = IF p < n THEN p ELSE p - n
    BY <2>1, <1>1, RingMod
  <2> QED BY <2>1, <2>2, <1>1 DEF Slot
<1>5. ASSUME NEW i \in 1 .. n PROVE (Slot(b, i + 1) - 1 + n) % n = Slot(b, i)
  <2>1. PICK p \in Nat : p = Slot(b, i + 1) - 1 + n /\ p < 2 * n
    BY <1>1, <1>2
  <2>2. p % n = IF p < n THEN p ELSE p - n
    BY <2>1, <1>1, RingMod
  <2> QED BY <2>1, <2>2, <1>1 DEF Slot
<1>6. Slot(b, 1) = b
  BY <1>1 DEF Slot
<1> QED BY <1>1, <1>2, <1>3, <1>4, <1>5, <1>6

\* A character is added (EchoChar).
LEMMA RingChar ==
  ASSUME RingInv, NEW ch \in Glyphs, ~Full, EchoChar(ch), len' = len
  PROVE  RingInv'
<1>1. PICK n \in Nat : n = BufferSize /\ n >= 1
  BY RingSize
<1>2. isize \in 0 .. n - 1 /\ isize' = isize + 1 /\ isize' \in 1 .. n
  BY <1>1 DEF RingInv, Full, EchoChar
<1>3. PICK b \in 0 .. n - 1 : b = ibegin /\ b = ibegin'
  BY <1>1 DEF RingInv, EchoChar
<1>4. icursor = Slot(b, isize + 1) /\ icursor \in 0 .. n - 1
  BY <1>1, <1>3 DEF RingInv
<1>5. icursor' = Slot(b, isize + 2) /\ icursor' \in 0 .. n - 1
  <2>1. icursor' = (Slot(b, isize + 1) + 1) % BufferSize
    BY <1>4 DEF EchoChar
  <2>2. /\ isize + 1 \in 1 .. BufferSize /\ (isize + 1) + 1 = isize + 2
        /\ isize + 2 \in 1 .. BufferSize + 1
    BY <1>1, <1>2
  <2>3. b \in 0 .. BufferSize - 1
    BY <1>1
  <2> QED BY <2>1, <2>2, <2>3, <1>1, SlotFacts
<1>6. line \in Seq(Glyphs) /\ Len(line) = isize /\ line' = Append(line, ch)
  BY DEF RingInv, EchoChar
<1>7. /\ line' \in Seq(Glyphs) /\ Len(line') = isize'
      /\ line'[isize + 1] = ch /\ \A i \in 1 .. isize : line'[i] = line[i]
  <2>1. PICK s, next : s = line /\ next = line'
    OBVIOUS
  <2>2. PICK k \in Nat : k = isize
    BY <1>2
  <2>3. s \in Seq(Glyphs) /\ k = Len(s) /\ next = Append(s, ch)
    BY <2>1, <2>2, <1>6
  <2>4. /\ next \in Seq(Glyphs) /\ Len(next) = k + 1
        /\ next[k + 1] = ch /\ \A i \in 1 .. k : next[i] = s[i]
    BY ONLY <2>3, Appended, k \in Nat, ch \in Glyphs
  <2> QED BY <2>1, <2>2, <2>4, <1>2
<1>8. ibuff \in [0 .. n - 1 -> Glyphs] /\ ibuff' = [ibuff EXCEPT ![icursor] = ch]
  BY <1>1 DEF RingInv, EchoChar
<1>9. ibuff' \in [0 .. n - 1 -> Glyphs]
  BY <1>8
<1>10. ASSUME NEW i \in 1 .. isize' PROVE ibuff'[Slot(b, i)] = line'[i]
  <2>1. Slot(b, i) \in 0 .. n - 1
    BY <1>1, <1>2, SlotFacts
  <2>2. CASE i = isize + 1
    BY <2>1, <2>2, <1>4, <1>7, <1>8
  <2>3. CASE i \in 1 .. isize
    <3>1. Slot(b, i) # icursor
      <4>1. b \in 0 .. BufferSize - 1 /\ i \in 1 .. BufferSize /\ isize + 1 \in 1 .. BufferSize
        BY <2>3, <1>1, <1>2
      <4>2. i # isize + 1
        BY <2>3, <1>2
      <4> QED BY <4>1, <4>2, <1>4, SlotFacts
    <3>2. ibuff[Slot(b, i)] = line[i]
      BY <2>3, <1>3 DEF RingInv
    <3>3. line'[i] = line[i]
      BY <2>3, <1>7
    <3> QED BY <3>1, <3>2, <3>3, <2>1, <1>8
  <2> QED BY <2>2, <2>3, <1>2
<1>11. len' \in Nat
  BY DEF RingInv
<1>12. icursor' = Slot(ibegin', isize' + 1)
  BY <1>2, <1>3, <1>5
<1>13. \A i \in 1 .. isize' : ibuff'[Slot(ibegin', i)] = line'[i]
  BY <1>3, <1>10
<1>14. /\ ibuff' \in [0 .. BufferSize - 1 -> Glyphs] /\ isize' \in 0 .. BufferSize
       /\ ibegin' \in 0 .. BufferSize - 1 /\ icursor' \in 0 .. BufferSize - 1
  BY <1>1, <1>2, <1>3, <1>5, <1>9
<1> QED BY <1>7, <1>11, <1>12, <1>13, <1>14 DEF RingInv, Slot

\* A character is taken back (EchoBack).
LEMMA RingBack ==
  ASSUME RingInv, EchoBack, len' = len
  PROVE  RingInv'
<1>1. PICK n \in Nat : n = BufferSize /\ n >= 1
  BY RingSize
<1>2. CASE isize > 0
  <2>1. PICK k \in 1 .. n : k = isize /\ isize' = k - 1
    <3>1. isize' = isize - 1
      BY <1>2 DEF EchoBack
    <3>2. isize \in 0 .. BufferSize
      BY DEF RingInv
    <3> QED BY ONLY <3>1, <3>2, <1>1, <1>2
  <2>2. PICK b \in 0 .. n - 1 : b = ibegin /\ b = ibegin'
    BY <1>1, <1>2 DEF RingInv, EchoBack
  <2>3. icursor' = Slot(b, k) /\ icursor' \in 0 .. n - 1
    <3>1. icursor' = (Slot(b, k + 1) - 1 + BufferSize) % BufferSize
      BY <2>1, <2>2, <1>2 DEF RingInv, EchoBack
    <3>2. b \in 0 .. BufferSize - 1 /\ k \in 1 .. BufferSize /\ k \in 1 .. BufferSize + 1
      BY ONLY <1>1, n \in Nat, b \in 0 .. n - 1, k \in 1 .. n
    <3> QED BY <3>1, <3>2, <1>1, SlotFacts
  <2>4. line \in Seq(Glyphs) /\ Len(line) = k /\ line' = SubSeq(line, 1, k - 1)
    BY <2>1, <1>2 DEF RingInv, EchoBack, Front
  <2>5. line' \in Seq(Glyphs) /\ Len(line') = k - 1 /\ \A i \in 1 .. k - 1 : line'[i] = line[i]
    BY <2>4
  <2>6. ibuff' = ibuff
    BY <1>2 DEF EchoBack
  <2>7. \A i \in 1 .. k - 1 : ibuff[Slot(b, i)] = line[i]
    BY <2>1, <2>2 DEF RingInv
  <2>8. \A i \in 1 .. isize' : ibuff'[Slot(ibegin', i)] = line'[i]
    BY <2>1, <2>2, <2>5, <2>6, <2>7
  <2>9. icursor' = Slot(ibegin', isize' + 1)
    BY <2>1, <2>2, <2>3
  <2>10. /\ ibuff' \in [0 .. BufferSize - 1 -> Glyphs] /\ len' \in Nat
         /\ isize' \in 0 .. BufferSize /\ ibegin' \in 0 .. BufferSize - 1
    BY <2>1, <2>2, <2>6, <1>1 DEF RingInv
  <2> QED BY <2>1, <2>3, <2>5, <2>8, <2>9, <2>10, <1>1 DEF RingInv, Slot
<1>3. CASE ~(isize > 0)
  <2>1. UNCHANGED ttyVars
    BY <1>3 DEF EchoBack
  <2> QED BY <2>1 DEF ttyVars, RingInv, Slot
<1> QED BY <1>2, <1>3

\* The steps that leave the ring alone.
LEMMA RingSame ==
  ASSUME RingInv, UNCHANGED ttyVars, len' \in Nat
  PROVE  RingInv'
BY DEF ttyVars, RingInv, Slot

LEMMA RingStep ==
  ASSUME RingInv, Next
  PROVE  RingInv'
<1> len \in Nat
  BY DEF RingInv
<1>1. CASE \E key \in keys :
             /\ (Press(key) \/ Release(key)) /\ ~halted
             /\ UNCHANGED <<texts, g, color, ttyVars, readVars, logger, plain, halted>>
  BY <1>1, RingSame DEF readVars
<1>2. CASE \E text \in texts :
             kprint_write(text) \/ \E err \in BOOLEAN : ttyfs_write(text, err)
  BY <1>2, RingSame DEF kprint_write, ttyfs_write, readVars
<1>3. CASE keyboard_callback
  BY <1>3, RingSame DEF keyboard_callback
<1>4. CASE kprint_push \/ kprint_pop \/ kprint_flush
  BY <1>4, RingSame DEF kprint_push, kprint_pop, kprint_flush, readVars
<1>5. CASE \E n \in Lens : ttyfs_read(n)
  BY <1>5, RingSame, TtyAssumption DEF ttyfs_read
<1>6. CASE subscribe \/ skip_key
  BY <1>6, RingSame DEF subscribe, skip_key
<1>7. CASE read_line
  <2>1. /\ isize' = 0 /\ ibegin' = icursor /\ icursor' = icursor /\ line' = <<>> /\ len' = 0
        /\ ibuff' = ibuff
    BY <1>7 DEF read_line
  <2>2. icursor \in 0 .. BufferSize - 1 /\ ibuff \in [0 .. BufferSize - 1 -> Glyphs]
    BY DEF RingInv
  <2>3. Slot(icursor, 1) = icursor
    BY <2>2, SlotFacts
  <2>4. icursor' = Slot(ibegin', isize' + 1)
    BY <2>1, <2>3
  <2>5. isize' \in 0 .. BufferSize /\ isize' = Len(line') /\ line' \in Seq(Glyphs)
    BY <2>1, RingSize
  <2>6. \A i \in 1 .. isize' : ibuff'[Slot(ibegin', i)] = line'[i]
    BY <2>1
  <2> QED BY <2>1, <2>2, <2>4, <2>5, <2>6 DEF RingInv, Slot
<1>8. CASE \E ch \in {"a", "A", "b", "B", Tab, Backspace} : echo_char(ch)
  <2>1. PICK ch \in {"a", "A", "b", "B", Tab, Backspace} : echo_char(ch)
    BY <1>8
  <2>2. len' = len
    BY <2>1 DEF echo_char
  <2>3. CASE ch = Backspace /\ EchoBack
    BY <2>2, <2>3, RingBack
  <2>4. CASE ch # Backspace /\ ~Full /\ EchoChar(ch)
    <3>1. ch \in Typed
      BY <2>4 DEF Typed
    <3>2. ch \in Glyphs
      BY <3>1 DEF Glyphs
    <3> QED BY <3>2, <2>2, <2>4, RingChar
  <2>5. CASE UNCHANGED <<ttyVars, g, plain>>
    BY <2>2, <2>5, RingSame
  <2> QED BY <2>1, <2>3, <2>4, <2>5 DEF echo_char
<1> QED BY <1>1, <1>2, <1>3, <1>4, <1>5, <1>6, <1>7, <1>8 DEF Next

\* The ring of ttyfs holds the line that is being typed, in whatever part of it
\* the line lies.
THEOREM TtyRing == Spec => []RingInv
<1>1. Init => RingInv
  <2>1. SUFFICES ASSUME Init PROVE RingInv
    OBVIOUS
  <2>2. /\ ibuff = [i \in 0 .. BufferSize - 1 |-> Blank] /\ ibegin = 0 /\ isize = 0
        /\ icursor = 0 /\ len = 0 /\ line = <<>>
    BY <2>1 DEF Init
  <2>3. Blank \in Glyphs
    BY DEF Typed, Glyphs
  <2>4. 0 \in 0 .. BufferSize - 1 /\ 0 \in 0 .. BufferSize
    BY RingSize
  <2>5. Slot(0, 1) = 0
    BY <2>4, SlotFacts
  <2>6. /\ ibuff \in [0 .. BufferSize - 1 -> Glyphs] /\ line \in Seq(Glyphs) /\ isize = Len(line)
        /\ icursor = Slot(ibegin, isize + 1)
    BY <2>2, <2>3, <2>5
  <2> QED BY <2>2, <2>4, <2>6 DEF RingInv
<1>2. RingInv /\ [Next]_vars => RingInv'
  <2>1. SUFFICES ASSUME RingInv, [Next]_vars PROVE RingInv'
    OBVIOUS
  <2>2. CASE Next
    BY <2>1, <2>2, RingStep
  <2>3. CASE UNCHANGED vars
    <3>1. UNCHANGED ttyVars /\ len' \in Nat
      BY <2>1, <2>3 DEF vars, readVars, RingInv
    <3> QED BY <2>1, <3>1, RingSame
  <2> QED BY <2>1, <2>2, <2>3
<1> QED BY <1>1, <1>2, PTL DEF Spec

\* Two stretches of the ring make the beginning of the line (the two memcpy of
\* ttyfs_read).
LEMMA CopiedIs ==
  ASSUME RingInv, NEW n \in 0 .. BufferSize, n <= isize
  PROVE  Copied(n) = SubSeq(line, 1, n)
<1>1. PICK z \in Nat : z = BufferSize /\ z >= 1
  BY RingSize
<1>2. PICK b \in 0 .. z - 1 : b = ibegin
  BY <1>1 DEF RingInv
<1>3. PICK s \in Seq(Glyphs) : s = line
  BY DEF RingInv
<1>4. PICK f \in [0 .. z - 1 -> Glyphs] : f = ibuff
  BY <1>1 DEF RingInv
<1>5. n \in Nat /\ n <= z /\ n <= Len(s)
  BY <1>1, <1>3 DEF RingInv
<1>6. \A i \in 1 .. n : f[Slot(b, i)] = s[i]
  BY <1>2, <1>3, <1>4, <1>5 DEF RingInv
<1>7. PICK t : t = SubSeq(s, 1, n)
  OBVIOUS
<1>8. t \in Seq(Glyphs) /\ Len(t) = n /\ \A i \in 1 .. n : t[i] = s[i]
  BY ONLY <1>5, <1>7, s \in Seq(Glyphs)
<1>9. CASE n <= z - b
  <2>1. PICK c : c = [i \in 1 .. n |-> f[b + i - 1]]
    OBVIOUS
  <2>2. Copied(n) = c
    BY <2>1, <1>1, <1>2, <1>4, <1>9 DEF Copied
  <2>3. \A i \in 1 .. n : Slot(b, i) = b + i - 1
    BY <1>1, <1>5, <1>9 DEF Slot
  <2>4. \A i \in 1 .. n : c[i] = t[i]
    BY ONLY <2>1, <2>3, <1>6, <1>8
  <2>5. c = t
    <3>1. DOMAIN c = 1 .. n /\ DOMAIN t = 1 .. n
      BY <2>1, <1>8, <1>5
    <3>2. c = [i \in 1 .. n |-> c[i]] /\ t = [i \in 1 .. n |-> t[i]]
      BY <2>1, <3>1, <1>8
    <3> QED BY ONLY <3>2, <2>4
  <2> QED BY <2>2, <2>5, <1>3, <1>7
<1>10. CASE ~(n <= z - b)
  <2>1. PICK k \in Nat : k = z - b /\ k >= 1 /\ k < n
    BY <1>5, <1>10
  <2>2. PICK m \in Nat : m = n - k
    BY <2>1, <1>5
  <2>3. PICK u, v : u = [i \in 1 .. k |-> f[b + i - 1]] /\ v = [i \in 1 .. m |-> f[0 + i - 1]]
    OBVIOUS
  <2>4. Copied(n) = u \o v
    BY <2>1, <2>2, <2>3, <1>1, <1>2, <1>4, <1>10 DEF Copied
  <2>5. \A i \in 1 .. k : b + i - 1 \in 0 .. z - 1 /\ Slot(b, i) = b + i - 1 /\ i \in 1 .. n
    BY <2>1, <1>1, <1>5 DEF Slot
  <2>6. \A i \in 1 .. m : /\ 0 + i - 1 \in 0 .. z - 1 /\ Slot(b, k + i) = 0 + i - 1
                          /\ k + i \in 1 .. n
    BY <2>1, <2>2, <1>1, <1>5 DEF Slot
  <2>7. /\ u \in Seq(Glyphs) /\ Len(u) = k /\ \A i \in 1 .. k : u[i] = t[i]
    <3>1. \A i \in 1 .. k : u[i] = f[b + i - 1] /\ u[i] \in Glyphs
      BY ONLY <2>3, <2>5, f \in [0 .. z - 1 -> Glyphs]
    <3>2. u \in [1 .. k -> Glyphs]
      BY ONLY <3>1, <2>3
    <3>3. \A i \in 1 .. k : u[i] = t[i]
      BY ONLY <3>1, <2>5, <1>6, <1>8
    <3> QED BY ONLY <3>2, <3>3, k \in Nat
  <2>8. /\ v \in Seq(Glyphs) /\ Len(v) = m /\ \A i \in 1 .. m : v[i] = t[k + i]
    <3>1. \A i \in 1 .. m : v[i] = f[0 + i - 1] /\ v[i] \in Glyphs
      BY ONLY <2>3, <2>6, f \in [0 .. z - 1 -> Glyphs]
    <3>2. v \in [1 .. m -> Glyphs]
      BY ONLY <3>1, <2>3
    <3> QED BY ONLY <3>1, <3>2, <2>6, <1>6, <1>8, m \in Nat
  <2>9. u \o v = t
    <3>1. PICK S : S = Glyphs
      OBVIOUS
    <3>2. u \in Seq(S) /\ v \in Seq(S) /\ t \in Seq(S) /\ Len(t) = k + m
      BY <3>1, <2>2, <2>7, <2>8, <1>5, <1>8
    <3> QED BY ONLY <3>2, <2>7, <2>8, TwoParts, k \in Nat, m \in Nat
  <2> QED BY <2>4, <2>9, <1>3, <1>7
<1> QED BY <1>9, <1>10

\* A read returns the beginning of the line that was typed and edited, however
\* often the ring has wrapped around: for every size of it and every read.
THEOREM TtyReadsLineTyped == Spec => []ReadsLineTyped
<1>1. RingInv => ReadsLineTyped
  <2>1. SUFFICES ASSUME RingInv PROVE ReadsLineTyped
    OBVIOUS
  <2>2. len \in Nat /\ isize \in 0 .. BufferSize /\ BufferSize \in Nat
    BY <2>1, RingSize DEF RingInv
  <2>3. PICK n : n = MinOf(len, isize)
    OBVIOUS
  <2>4. n \in 0 .. BufferSize /\ n <= isize
    BY <2>2, <2>3 DEF MinOf
  <2>5. Copied(n) = SubSeq(line, 1, n)
    BY <2>1, <2>4, CopiedIs
  <2> QED BY <2>1, <2>3, <2>5 DEF RingInv, ReadsLineTyped
<1> QED BY <1>1, TtyRing, PTL

-----------------------------------------------------------------------------
(* The terminal.                                                           *)

LEMMA ScreenSize == Width \in Nat /\ Width >= 2 /\ Height \in Nat /\ Height >= 2
BY TtyAssumption

LEMMA TermFields ==
  ASSUME NEW t \in TermRec
  PROVE  /\ t.x \in 0 .. Width /\ t.y \in 0 .. Height /\ t.px \in 0 .. Width
         /\ t.py \in 0 .. Height /\ t.swap \in [Cells -> Glyphs] /\ t.shown \in [Cells -> Glyphs]
BY DEF TermRec

LEMMA BlankGlyph == Blank \in Glyphs
BY DEF Glyphs, Typed

\* Screen u is screen s one row up.
LEMMA Scrolled ==
  ASSUME NEW s \in [Cells -> Glyphs]
  PROVE  /\ fb_scroll(s) \in [Cells -> Glyphs]
         /\ \A r \in 0 .. Height - 2, c \in 0 .. Width - 1 :
              fb_scroll(s)[<<r, c>>] = s[<<r + 1, c>>]
<1>1. PICK h \in Nat : h = Height /\ h >= 2
  BY ScreenSize
<1>2. Cells = (0 .. h - 1) \X (0 .. Width - 1)
  BY <1>1 DEF Cells
<1>3. \A c \in Cells : c[1] \in 0 .. h - 1 /\ c[2] \in 0 .. Width - 1
  BY <1>2
<1>4. \A c \in Cells : c[1] + 1 < h => <<c[1] + 1, c[2]>> \in Cells
  <2>1. TAKE c \in Cells
  <2>2. HAVE c[1] + 1 < h
  <2>3. c[1] + 1 \in 0 .. h - 1
    BY ONLY <2>2, <1>3, c \in Cells, h \in Nat
  <2> QED BY <2>3, <1>2, <1>3
<1>5. fb_scroll(s) = [c \in Cells |-> IF c[1] + 1 < h THEN s[<<c[1] + 1, c[2]>>] ELSE Blank]
  BY <1>1 DEF fb_scroll
<1>6. fb_scroll(s) \in [Cells -> Glyphs]
  BY <1>4, <1>5, BlankGlyph
<1>7. ASSUME NEW r \in 0 .. h - 2, NEW c \in 0 .. Width - 1
      PROVE  fb_scroll(s)[<<r, c>>] = s[<<r + 1, c>>]
  <2>1. r \in 0 .. h - 1 /\ r + 1 < h
    BY <1>1
  <2>2. PICK p : p = <<r, c>>
    OBVIOUS
  <2>3. p \in Cells /\ p[1] = r /\ p[2] = c
    BY <2>1, <2>2, <1>2
  <2>4. fb_scroll(s)[p] = s[<<p[1] + 1, p[2]>>]
    BY <2>1, <2>3, <1>5
  <2> QED BY <2>2, <2>3, <2>4
<1> QED BY <1>1, <1>6, <1>7

\* A line wraps: the cursor is where the next character is drawn, perhaps in
\* the row below the screen.
LEMMA Wrapped ==
  ASSUME NEW t \in TermRec, t.y < Height, NEW w, w = WrapIfNeeded(t)
  PROVE  /\ w \in TermRec /\ w.swap = t.swap /\ w.shown = t.shown /\ w.px = t.px /\ w.py = t.py
         /\ w.x < Width
         /\ \/ t.x < Width /\ w.x = t.x /\ w.y = t.y
            \/ t.x = Width /\ w.x = 0 /\ w.y = t.y + 1
<1>1. PICK n \in Nat : n = Width /\ n >= 2
  BY ScreenSize
<1>2. PICK h \in Nat : h = Height /\ h >= 2
  BY ScreenSize
<1>3. t.x \in 0 .. n /\ t.y \in 0 .. h - 1
  BY <1>1, <1>2, TermFields
<1>4. CASE t.x < n
  <2>1. w = t
    BY <1>1, <1>3, <1>4 DEF WrapIfNeeded
  <2> QED BY <2>1, <1>1, <1>4
<1>5. CASE ~(t.x < n)
  <2>1. t.x = n /\ t.x >= Width
    BY <1>1, <1>3, <1>5
  <2>2. PICK k \in 0 .. h : k = t.y + 1
    BY <1>2, <1>3
  <2>3. w = [t EXCEPT !.x = 0, !.y = k]
    BY <2>1, <2>2 DEF WrapIfNeeded, TermRec
  <2>4. /\ w.swap = t.swap /\ w.shown = t.shown /\ w.px = t.px /\ w.py = t.py
        /\ w.x = 0 /\ w.y = k
    BY <2>3 DEF TermRec
  <2>5. w \in TermRec
    <3>1. 0 \in 0 .. Width /\ k \in 0 .. Height
      BY <1>1, <1>2
    <3> QED BY ONLY <3>1, <2>3, t \in TermRec DEF TermRec
  <2> QED BY <2>1, <2>2, <2>4, <2>5, <1>1
<1> QED BY <1>4, <1>5

\* The screen scrolls when the cursor is below it.
LEMMA ScrollFacts ==
  ASSUME NEW t \in TermRec, NEW w, w = ScrollIfNeeded(t)
  PROVE  \/ t.y < Height /\ w = t
         \/ /\ t.y = Height /\ w \in TermRec /\ w.x = 0 /\ w.y = Height - 1 /\ w.px = 0 /\ w.py = 0
            /\ w.swap = fb_scroll(t.swap) /\ w.shown = t.shown
<1>1. PICK n \in Nat : n = Width /\ n >= 2
  BY ScreenSize
<1>2. PICK h \in Nat : h = Height /\ h >= 2
  BY ScreenSize
<1>3. t.x \in 0 .. n /\ t.y \in 0 .. h
  BY <1>1, <1>2, TermFields
<1>4. CASE t.y < h
  <2>1. ~(t.y >= Height)
    BY <1>2, <1>3, <1>4
  <2> QED BY <2>1, <1>2, <1>4 DEF ScrollIfNeeded
<1>5. CASE ~(t.y < h)
  <2>1. t.y = h /\ t.y >= Height
    BY <1>2, <1>3, <1>5
  <2>2. PICK k \in 0 .. h : k = t.y - 1
    BY <2>1, <1>2
  <2>3. PICK u \in [Cells -> Glyphs] : u = fb_scroll(t.swap)
    BY Scrolled, TermFields
  <2>4. w = [t EXCEPT !.px = 0, !.py = 0, !.x = 0, !.y = k, !.swap = u]
    BY <2>1, <2>2, <2>3 DEF ScrollIfNeeded, advance_line, TermRec
  <2>5. /\ w.swap = u /\ w.shown = t.shown /\ w.px = 0 /\ w.py = 0 /\ w.x = 0 /\ w.y = k
    BY ONLY <2>4, t \in TermRec DEF TermRec
  <2>6. w \in TermRec
    <3>1. 0 \in 0 .. Width /\ k \in 0 .. Height /\ 0 \in 0 .. Height
      BY <1>1, <1>2
    <3> QED BY ONLY <3>1, <2>4, t \in TermRec, u \in [Cells -> Glyphs] DEF TermRec
  <2> QED BY <2>1, <2>2, <2>3, <2>5, <2>6, <1>2
<1> QED BY <1>2, <1>4, <1>5

LEMMA Drawing ==
  ASSUME NEW t \in TermRec, t.x < Width, t.y < Height, NEW ch \in Glyphs, NEW w, w = Draw(t, ch)
  PROVE  /\ w \in TermRec /\ w.x = t.x + 1 /\ w.y = t.y /\ w.px = t.px /\ w.py = t.py
         /\ w.shown = t.shown /\ <<t.y, t.x>> \in Cells
         /\ w.swap = [t.swap EXCEPT ![<<t.y, t.x>>] = ch]
<1>1. PICK n \in Nat : n = Width /\ n >= 2
  BY ScreenSize
<1>2. PICK h \in Nat : h = Height /\ h >= 2
  BY ScreenSize
<1>3. t.x \in 0 .. n - 1 /\ t.y \in 0 .. h - 1
  BY <1>1, <1>2, TermFields
<1>4. PICK p \in Cells : p = <<t.y, t.x>>
  BY <1>1, <1>2, <1>3 DEF Cells
<1>5. PICK k \in 0 .. Width : k = t.x + 1
  BY <1>1, <1>3
<1>6. PICK u \in [Cells -> Glyphs] : u = [t.swap EXCEPT ![p] = ch]
  <2>1. t.swap \in [Cells -> Glyphs]
    BY TermFields
  <2> QED BY ONLY <2>1, p \in Cells, ch \in Glyphs
<1>7. w = [t EXCEPT !.swap = u, !.x = k]
  BY <1>4, <1>5, <1>6 DEF Draw, TermRec
<1>8. /\ w.x = k /\ w.y = t.y /\ w.px = t.px /\ w.py = t.py /\ w.shown = t.shown /\ w.swap = u
  BY ONLY <1>7, t \in TermRec DEF TermRec
<1>9. w \in TermRec
  BY ONLY <1>7, t \in TermRec, u \in [Cells -> Glyphs], k \in 0 .. Width DEF TermRec
<1> QED BY <1>4, <1>5, <1>6, <1>8, <1>9

\* The terminal w after a character was drawn at row r, column c of t, and the
\* one after it was drawn on a new last row.
DrawnAt(t, w, r, c, ch) ==
  /\ w \in TermRec /\ w.x = c + 1 /\ w.y = r /\ w.px = t.px /\ w.py = t.py /\ w.shown = t.shown
  /\ <<r, c>> \in Cells /\ w.swap = [t.swap EXCEPT ![<<r, c>>] = ch]

DrawnBelow(t, w, ch) ==
  /\ w \in TermRec /\ w.x = 1 /\ w.y = Height - 1 /\ w.px = 0 /\ w.py = 0 /\ w.shown = t.shown
  /\ <<Height - 1, 0>> \in Cells /\ w.swap = [fb_scroll(t.swap) EXCEPT ![<<Height - 1, 0>>] = ch]

LEMMA PutChar ==
  ASSUME NEW t \in TermRec, t.y < Height, NEW ch \in Glyphs, ch # Newline, NEW w, w = PutCell(t, ch)
  PROVE  \/ t.x < Width /\ DrawnAt(t, w, t.y, t.x, ch)
         \/ t.x = Width /\ t.y + 1 < Height /\ DrawnAt(t, w, t.y + 1, 0, ch)
         \/ t.x = Width /\ t.y = Height - 1 /\ DrawnBelow(t, w, ch)
<1>1. PICK n \in Nat : n = Width /\ n >= 2
  BY ScreenSize
<1>2. PICK h \in Nat : h = Height /\ h >= 2
  BY ScreenSize
<1>3. t.x \in 0 .. n /\ t.y \in 0 .. h - 1
  BY <1>1, <1>2, TermFields
<1>4. PICK a : a = WrapIfNeeded(t)
  OBVIOUS
<1>5. PICK b : b = ScrollIfNeeded(a)
  OBVIOUS
<1>6. w = Draw(b, ch)
  BY <1>4, <1>5 DEF PutCell
<1>7. /\ a \in TermRec /\ a.swap = t.swap /\ a.shown = t.shown /\ a.px = t.px /\ a.py = t.py
      /\ a.x < Width
      /\ \/ t.x < Width /\ a.x = t.x /\ a.y = t.y
         \/ t.x = Width /\ a.x = 0 /\ a.y = t.y + 1
  BY <1>4, Wrapped
<1>8. \/ a.y < Height /\ b = a
      \/ /\ a.y = Height /\ b \in TermRec /\ b.x = 0 /\ b.y = Height - 1 /\ b.px = 0 /\ b.py = 0
         /\ b.swap = fb_scroll(a.swap) /\ b.shown = a.shown
  BY <1>5, <1>7, ScrollFacts
<1>9. CASE a.y < Height /\ b = a
  <2>1. /\ w \in TermRec /\ w.x = a.x + 1 /\ w.y = a.y /\ w.px = a.px /\ w.py = a.py
        /\ w.shown = a.shown /\ <<a.y, a.x>> \in Cells
        /\ w.swap = [a.swap EXCEPT ![<<a.y, a.x>>] = ch]
    BY <1>6, <1>7, <1>9, Drawing
  <2>2. CASE t.x < Width /\ a.x = t.x /\ a.y = t.y
    <3>1. DrawnAt(t, w, t.y, t.x, ch)
      BY <2>1, <2>2, <1>7 DEF DrawnAt
    <3> QED BY <3>1, <2>2
  <2>3. CASE t.x = Width /\ a.x = 0 /\ a.y = t.y + 1
    <3>1. DrawnAt(t, w, t.y + 1, 0, ch)
      BY <2>1, <2>3, <1>7 DEF DrawnAt
    <3> QED BY <3>1, <2>3, <1>9
  <2> QED BY <2>2, <2>3, <1>7
<1>10. CASE /\ a.y = Height /\ b \in TermRec /\ b.x = 0 /\ b.y = Height - 1 /\ b.px = 0 /\ b.py = 0
            /\ b.swap = fb_scroll(a.swap) /\ b.shown = a.shown
  <2>1. t.x = Width /\ t.y = Height - 1
    BY <1>2, <1>3, <1>7, <1>10
  <2>2. b.x < Width /\ b.y < Height
    BY <1>1, <1>2, <1>10
  <2>3. /\ w \in TermRec /\ w.x = b.x + 1 /\ w.y = b.y /\ w.px = b.px /\ w.py = b.py
        /\ w.shown = b.shown /\ <<b.y, b.x>> \in Cells
        /\ w.swap = [b.swap EXCEPT ![<<b.y, b.x>>] = ch]
    BY <2>2, <1>6, <1>10, Drawing
  <2>4. DrawnBelow(t, w, ch)
    BY <2>3, <1>7, <1>10 DEF DrawnBelow
  <2> QED BY <2>1, <2>4
<1> QED BY <1>8, <1>9, <1>10

LEMMA PutNewline ==
  ASSUME NEW t \in TermRec, t.y < Height, NEW w, w = PutCell(t, Newline)
  PROVE  /\ w \in TermRec /\ w.x = 0 /\ w.shown = t.shown
         /\ \/ /\ t.y + 1 < Height /\ w.y = t.y + 1 /\ w.px = t.px /\ w.py = t.py
               /\ w.swap = t.swap
            \/ t.y = Height - 1 /\ w.y = Height - 1 /\ w.px = 0 /\ w.py = 0
<1>1. PICK n \in Nat : n = Width /\ n >= 2
  BY ScreenSize
<1>2. PICK h \in Nat : h = Height /\ h >= 2
  BY ScreenSize
<1>3. t.x \in 0 .. n /\ t.y \in 0 .. h - 1
  BY <1>1, <1>2, TermFields
<1>4. PICK k \in 0 .. h : k = t.y + 1
  BY <1>2, <1>3
<1>5. PICK a : a = [t EXCEPT !.y = k, !.x = 0]
  OBVIOUS
<1>6. w = ScrollIfNeeded(a)
  BY <1>4, <1>5 DEF PutCell, TermRec
<1>7. /\ a.swap = t.swap /\ a.shown = t.shown /\ a.px = t.px /\ a.py = t.py /\ a.x = 0 /\ a.y = k
  BY ONLY <1>5, t \in TermRec DEF TermRec
<1>8. a \in TermRec
  <2>1. 0 \in 0 .. Width /\ k \in 0 .. Height
    BY <1>1, <1>2
  <2> QED BY ONLY <2>1, <1>5, t \in TermRec DEF TermRec
<1>9. \/ a.y < Height /\ w = a
      \/ /\ a.y = Height /\ w \in TermRec /\ w.x = 0 /\ w.y = Height - 1 /\ w.px = 0 /\ w.py = 0
         /\ w.swap = fb_scroll(a.swap) /\ w.shown = a.shown
  BY <1>6, <1>8, ScrollFacts
<1>10. CASE a.y < Height /\ w = a
  BY <1>4, <1>7, <1>8, <1>10
<1>11. CASE /\ a.y = Height /\ w \in TermRec /\ w.x = 0 /\ w.y = Height - 1 /\ w.px = 0 /\ w.py = 0
            /\ w.swap = fb_scroll(a.swap) /\ w.shown = a.shown
  <2>1. t.y = Height - 1
    BY <1>2, <1>3, <1>4, <1>7, <1>11
  <2> QED BY <2>1, <1>7, <1>11
<1> QED BY <1>9, <1>10, <1>11

\* The cursor is behind the last refresh's.
Ahead(t) == t.py < t.y \/ (t.py = t.y /\ t.px < t.x)

\* What was drawn from t to w: the rows from t's cursor to w's, or the screen has
\* scrolled and the next refresh flushes all of it.
Drew(t, w) ==
  /\ w.shown = t.shown
  /\ \/ w.py = 0 /\ w.y = Height - 1
     \/ /\ w.py = t.py /\ w.px = t.px /\ t.y <= w.y
        /\ \A c \in Cells : c[1] < t.y \/ c[1] > w.y => w.swap[c] = t.swap[c]

LEMMA PutCellKeeps ==
  ASSUME NEW t, Good(t), NEW ch \in Glyphs \union {Newline}, NEW w, w = PutCell(t, ch)
  PROVE  Good(w) /\ Ahead(w) /\ Drew(t, w)
<1>1. PICK n \in Nat : n = Width /\ n >= 2
  BY ScreenSize
<1>2. PICK h \in Nat : h = Height /\ h >= 2
  BY ScreenSize
<1>3. t \in TermRec /\ t.y < Height /\ (t.py < t.y \/ (t.py = t.y /\ t.px <= t.x))
  BY DEF Good
<1>4. t.x \in 0 .. n /\ t.y \in 0 .. h - 1 /\ t.px \in 0 .. n /\ t.py \in 0 .. h
  BY <1>1, <1>2, <1>3, TermFields
<1>5. CASE ch = Newline
  <2>1. /\ w \in TermRec /\ w.x = 0 /\ w.shown = t.shown
        /\ \/ /\ t.y + 1 < Height /\ w.y = t.y + 1 /\ w.px = t.px /\ w.py = t.py
              /\ w.swap = t.swap
           \/ t.y = Height - 1 /\ w.y = Height - 1 /\ w.px = 0 /\ w.py = 0
    BY <1>3, <1>5, PutNewline
  <2>2. Ahead(w) /\ Good(w)
    BY <2>1, <1>2, <1>3, <1>4 DEF Ahead, Good
  <2>3. Drew(t, w)
    BY <2>1, <1>2, <1>4 DEF Drew
  <2> QED BY <2>2, <2>3
<1>6. CASE ch # Newline
  <2>1. \/ t.x < Width /\ DrawnAt(t, w, t.y, t.x, ch)
        \/ t.x = Width /\ t.y + 1 < Height /\ DrawnAt(t, w, t.y + 1, 0, ch)
        \/ t.x = Width /\ t.y = Height - 1 /\ DrawnBelow(t, w, ch)
    BY <1>3, <1>6, PutChar
  <2>2. ASSUME NEW r \in 0 .. h - 1, NEW k \in 0 .. n - 1, DrawnAt(t, w, r, k, ch),
               (r = t.y /\ k = t.x) \/ r = t.y + 1
        PROVE  Good(w) /\ Ahead(w) /\ Drew(t, w)
    <3>1. /\ w \in TermRec /\ w.x = k + 1 /\ w.y = r /\ w.px = t.px /\ w.py = t.py
          /\ w.shown = t.shown /\ <<r, k>> \in Cells /\ w.swap = [t.swap EXCEPT ![<<r, k>>] = ch]
      BY <2>2 DEF DrawnAt
    <3>2. Ahead(w) /\ Good(w)
      BY <2>2, <3>1, <1>2, <1>3, <1>4 DEF Ahead, Good
    <3>3. ASSUME NEW c \in Cells, c[1] < t.y \/ c[1] > r PROVE w.swap[c] = t.swap[c]
      <4>1. c[1] # r
        <5>1. c[1] \in 0 .. h - 1
          BY <1>2 DEF Cells
        <5> QED BY <5>1, <3>3, <2>2, <1>4
      <4>2. c # <<r, k>>
        BY <4>1
      <4>3. t.swap \in [Cells -> Glyphs]
        BY <1>3, TermFields
      <4> QED BY <4>2, <4>3, <3>1
    <3>4. Drew(t, w)
      BY <3>1, <3>3, <2>2, <1>4 DEF Drew
    <3> QED BY <3>2, <3>4
  <2>3. CASE t.x < Width /\ DrawnAt(t, w, t.y, t.x, ch)
    BY <2>2, <2>3, <1>1, <1>4
  <2>4. CASE t.x = Width /\ t.y + 1 < Height /\ DrawnAt(t, w, t.y + 1, 0, ch)
    <3>1. t.y + 1 \in 0 .. h - 1 /\ 0 \in 0 .. n - 1
      BY <2>4, <1>1, <1>2, <1>4
    <3> QED BY <2>2, <2>4, <3>1
  <2>5. CASE t.x = Width /\ t.y = Height - 1 /\ DrawnBelow(t, w, ch)
    <3>1. /\ w \in TermRec /\ w.x = 1 /\ w.y = Height - 1 /\ w.px = 0 /\ w.py = 0
          /\ w.shown = t.shown
      BY <2>5 DEF DrawnBelow
    <3> QED BY <3>1, <1>2 DEF Good, Ahead, Drew
  <2> QED BY <2>1, <2>3, <2>4, <2>5
<1> QED BY <1>5, <1>6

\* What two drawings in a row have drawn.
LEMMA DrewOn ==
  ASSUME NEW t, NEW u, NEW w, Good(t), Good(u), Good(w), Drew(t, u), Drew(u, w)
  PROVE  Drew(t, w)
<1>1. PICK h \in Nat : h = Height /\ h >= 2
  BY ScreenSize
<1>2. t.y \in 0 .. h - 1 /\ u.y \in 0 .. h - 1 /\ w.y \in 0 .. h - 1
  <2>1. t \in TermRec /\ u \in TermRec /\ w \in TermRec
    BY DEF Good
  <2>2. t.y \in 0 .. Height /\ u.y \in 0 .. Height /\ w.y \in 0 .. Height
    BY <2>1, TermFields
  <2> QED BY <2>2, <1>1 DEF Good
<1>3. \A c \in Cells : c[1] \in 0 .. h - 1
  BY <1>1 DEF Cells
<1>4. w.shown = t.shown
  BY DEF Drew
<1>5. CASE w.py = 0 /\ w.y = Height - 1
  BY <1>4, <1>5 DEF Drew
<1>6. CASE /\ w.py = u.py /\ w.px = u.px /\ u.y <= w.y
           /\ \A c \in Cells : c[1] < u.y \/ c[1] > w.y => w.swap[c] = u.swap[c]
  <2>1. CASE u.py = 0 /\ u.y = Height - 1
    <3>1. w.py = 0 /\ w.y = Height - 1
      BY <2>1, <1>1, <1>2, <1>6
    <3> QED BY <3>1, <1>4 DEF Drew
  <2>2. CASE /\ u.py = t.py /\ u.px = t.px /\ t.y <= u.y
             /\ \A c \in Cells : c[1] < t.y \/ c[1] > u.y => u.swap[c] = t.swap[c]
    <3>1. w.py = t.py /\ w.px = t.px /\ t.y <= w.y
      BY <2>2, <1>2, <1>6
    <3>2. ASSUME NEW c \in Cells, c[1] < t.y \/ c[1] > w.y PROVE w.swap[c] = t.swap[c]
      <4>1. (c[1] < u.y \/ c[1] > w.y) /\ (c[1] < t.y \/ c[1] > u.y)
        BY ONLY <3>2, <2>2, <1>2, <1>3, <1>6, c \in Cells, h \in Nat
      <4> QED BY <4>1, <2>2, <1>6
    <3> QED BY <3>1, <3>2, <1>4 DEF Drew
  <2> QED BY <2>1, <2>2 DEF Drew
<1> QED BY <1>5, <1>6 DEF Drew

\* The terminals that the loop of term_write goes through.
IsWrite(h, t, text, n) ==
  h = [k \in 0 .. n |-> IF k = 0 THEN t ELSE term_putch(h[k - 1], text[k])]

\* A set of numbers that is not empty has a least one.
LEMMA LeastOf ==
  ASSUME NEW S \in SUBSET Nat, S # {}
  PROVE  \E k \in S : \A j \in S : k <= j
<1> DEFINE R == {p \in Nat \X Nat : p[1] < p[2]}
<1>1. IsWellFoundedOn(R, Nat)
  BY NatLessThanWellFounded DEF OpToRel
<1> HIDE DEF R
<1>2. PICK x \in S : \A y \in S : ~(<<y, x>> \in R)
  BY <1>1, WFMin
<1>3. \A y \in S : ~(y < x)
  BY <1>2 DEF R
<1> QED BY <1>2, <1>3

LEMMA WriteRuns ==
  ASSUME NEW t, NEW text, NEW n \in Nat
  PROVE  \E h : IsWrite(h, t, text, n)
<1> DEFINE D == {k \in 0 .. n : ~\E h : IsWrite(h, t, text, k)}
<1>1. SUFFICES ASSUME D # {} PROVE FALSE
  <2>1. n \in 0 .. n
    OBVIOUS
  <2> QED BY <2>1
<1>2. PICK k \in D : \A j \in D : k <= j
  <2>1. D \in SUBSET Nat
    OBVIOUS
  <2> HIDE DEF D
  <2> QED BY <2>1, <1>1, LeastOf
<1>3. k \in Nat /\ ~\E h : IsWrite(h, t, text, k)
  OBVIOUS
<1>4. CASE k = 0
  <2>1. PICK h : h = [j \in 0 .. 0 |-> t]
    OBVIOUS
  <2>2. h = [j \in 0 .. 0 |-> IF j = 0 THEN t ELSE term_putch(h[j - 1], text[j])]
    BY ONLY <2>1
  <2> QED BY <2>2, <1>3, <1>4 DEF IsWrite
<1>5. CASE k # 0
  <2>1. PICK m \in Nat : k = m + 1
    BY <1>3, <1>5
  <2>2. m \notin D /\ m \in 0 .. n
    BY <2>1, <1>2
  <2>3. PICK h : IsWrite(h, t, text, m)
    BY <2>2
  <2>4. PICK f : f = [j \in 0 .. k |-> IF j = k THEN term_putch(h[m], text[k]) ELSE h[j]]
    OBVIOUS
  <2>5. \A j \in 0 .. m : h[j] = IF j = 0 THEN t ELSE term_putch(h[j - 1], text[j])
    BY ONLY <2>3 DEF IsWrite
  <2>6. \A j \in 0 .. m : f[j] = h[j]
    BY ONLY <2>1, <2>4, m \in Nat
  <2>7. k \in 0 .. k /\ f[k] = term_putch(h[m], text[k])
    BY ONLY <2>1, <2>4, m \in Nat
  <2>8. ASSUME NEW j \in 0 .. k
        PROVE  f[j] = IF j = 0 THEN t ELSE term_putch(f[j - 1], text[j])
    <3>1. CASE j = k
      <4>1. j # 0 /\ j - 1 = m /\ f[m] = h[m]
        BY ONLY <3>1, <2>1, <2>6, m \in Nat
      <4> QED BY ONLY <4>1, <3>1, <2>7
    <3>2. CASE j \in 0 .. m
      <4>1. f[j] = h[j]
        BY <3>2, <2>6
      <4>2. CASE j = 0
        BY ONLY <4>1, <4>2, <3>2, <2>5
      <4>3. CASE j # 0
        <5>1. j - 1 \in 0 .. m
          BY ONLY <4>3, <3>2, m \in Nat
        <5>2. f[j - 1] = h[j - 1]
          BY <5>1, <2>6
        <5>3. h[j] = term_putch(h[j - 1], text[j])
          BY ONLY <4>3, <3>2, <2>5
        <5> QED BY ONLY <5>2, <5>3, <4>1, <4>3
      <4> QED BY <4>2, <4>3
    <3>3. j = k \/ j \in 0 .. m
      BY ONLY <2>1, m \in Nat, j \in 0 .. k
    <3> QED BY <3>1, <3>2, <3>3
  <2>9. f = [j \in 0 .. k |-> f[j]]
    BY ONLY <2>4
  <2>10. IsWrite(f, t, text, k)
    BY ONLY <2>8, <2>9 DEF IsWrite
  <2> QED BY <2>10, <1>3
<1> QED BY <1>4, <1>5

LEMMA WriteIs ==
  ASSUME NEW t, NEW text, NEW n \in Nat, n = Len(text)
  PROVE  \E h : IsWrite(h, t, text, n) /\ term_write(t, text) = h[n]
<1>1. \E h : IsWrite(h, t, text, n)
  BY WriteRuns
<1> QED BY ONLY <1>1, n = Len(text) DEF term_write, IsWrite

\* Spaces are characters that are no tabs.
LEMMA BlanksAre ==
  ASSUME NEW t, NEW n \in Nat, NEW s, s = [i \in 1 .. n |-> Blank]
  PROVE  \E h : IsWrite(h, t, s, n) /\ PutBlanks(t, n) = h[n]
<1>1. PICK h : IsWrite(h, t, s, n)
  BY WriteRuns
<1>2. \A x : term_putch(x, Blank) = PutCell(x, Blank)
  BY DEF term_putch, Blank, Tab
<1>3. ASSUME NEW f PROVE IsWrite(f, t, s, n) <=>
        f = [k \in 0 .. n |-> IF k = 0 THEN t ELSE PutCell(f[k - 1], Blank)]
  <2>1. \A k \in 0 .. n : k = 0 \/ (k \in 1 .. n /\ s[k] = Blank)
    OBVIOUS
  <2>2. \A k \in 0 .. n : (IF k = 0 THEN t ELSE term_putch(f[k - 1], s[k]))
                        = (IF k = 0 THEN t ELSE PutCell(f[k - 1], Blank))
    BY ONLY <2>1, <1>2
  <2>3. [k \in 0 .. n |-> IF k = 0 THEN t ELSE term_putch(f[k - 1], s[k])]
      = [k \in 0 .. n |-> IF k = 0 THEN t ELSE PutCell(f[k - 1], Blank)]
    BY ONLY <2>2
  <2> QED BY ONLY <2>3 DEF IsWrite
<1>4. PICK f : /\ f = [k \in 0 .. n |-> IF k = 0 THEN t ELSE PutCell(f[k - 1], Blank)]
               /\ PutBlanks(t, n) = f[n]
  <2>1. \E f : f = [k \in 0 .. n |-> IF k = 0 THEN t ELSE PutCell(f[k - 1], Blank)]
    BY <1>1, <1>3
  <2> QED BY ONLY <2>1 DEF PutBlanks
<1> QED BY <1>3, <1>4

\* By induction: at least one space keeps what one does.
LEMMA BlanksKeep ==
  ASSUME NEW t, Good(t), NEW n \in Nat, n >= 1, NEW w, w = PutBlanks(t, n)
  PROVE  Good(w) /\ Ahead(w) /\ Drew(t, w)
<1>1. PICK s : s = [i \in 1 .. n |-> Blank]
  OBVIOUS
<1>2. PICK h : IsWrite(h, t, s, n) /\ w = h[n]
  BY <1>1, BlanksAre
<1>3. \A k \in 0 .. n : h[k] = IF k = 0 THEN t ELSE term_putch(h[k - 1], s[k])
  BY ONLY <1>2 DEF IsWrite
<1>4. \A x : term_putch(x, Blank) = PutCell(x, Blank)
  BY DEF term_putch, Blank, Tab
<1>5. h[0] = t /\ \A k \in 1 .. n : h[k] = PutCell(h[k - 1], Blank)
  <2>1. h[0] = t
    BY <1>3
  <2>2. ASSUME NEW k \in 1 .. n PROVE h[k] = PutCell(h[k - 1], Blank)
    <3>1. k \in 0 .. n /\ k # 0 /\ s[k] = Blank
      BY <1>1
    <3> QED BY ONLY <3>1, <1>3, <1>4
  <2> QED BY <2>1, <2>2
<1>6. \A k \in 1 .. n : Good(h[k]) /\ Ahead(h[k]) /\ Drew(t, h[k])
  <2> DEFINE D == {k \in 1 .. n : ~(Good(h[k]) /\ Ahead(h[k]) /\ Drew(t, h[k]))}
  <2>1. SUFFICES ASSUME D # {} PROVE FALSE
    OBVIOUS
  <2>2. PICK k \in D : \A j \in D : k <= j
    <3>1. D \in SUBSET Nat
      OBVIOUS
    <3> HIDE DEF D
    <3> QED BY <2>1, <3>1, LeastOf
  <2>3. k \in 1 .. n /\ ~(Good(h[k]) /\ Ahead(h[k]) /\ Drew(t, h[k]))
    BY <2>2
  <2>4. PICK u, v : u = h[k - 1] /\ v = h[k] /\ v = PutCell(u, Blank)
    BY <2>3, <1>5
  <2>5. Good(u) /\ (k = 1 => u = t) /\ (k # 1 => Drew(t, u))
    <3>1. CASE k = 1
      BY <3>1, <2>4, <1>5
    <3>2. CASE k # 1
      <4>1. k - 1 \in 1 .. n /\ k - 1 \notin D
        BY <3>2, <2>2, <2>3
      <4> QED BY <3>2, <4>1, <2>4
    <3> QED BY <3>1, <3>2
  <2>6. Good(v) /\ Ahead(v) /\ Drew(u, v)
    <3>1. Blank \in Glyphs \union {Newline}
      BY BlankGlyph
    <3> QED BY ONLY <3>1, <2>4, <2>5, PutCellKeeps
  <2>7. Drew(t, v)
    <3>1. CASE k = 1
      BY <3>1, <2>5, <2>6
    <3>2. CASE k # 1
      BY <3>2, <2>5, <2>6, DrewOn
    <3> QED BY <3>1, <3>2
  <2> QED BY <2>3, <2>4, <2>6, <2>7
<1>7. n \in 1 .. n
  OBVIOUS
<1> QED BY <1>2, <1>6, <1>7

\* term_putch.
LEMMA PutchKeeps ==
  ASSUME NEW t, Good(t), NEW ch \in Glyphs \union {Newline}, NEW w, w = term_putch(t, ch)
  PROVE  Good(w) /\ Ahead(w) /\ Drew(t, w)
<1>1. CASE ch # Tab
  <2>1. w = PutCell(t, ch)
    BY <1>1 DEF term_putch
  <2> QED BY <2>1, PutCellKeeps
<1>2. CASE ch = Tab
  <2>1. PICK n : n = TabStop - (t.x % TabStop)
    OBVIOUS
  <2>2. n \in Nat /\ n >= 1
    <3>1. PICK z \in Nat : z = TabStop /\ z >= 1
      BY TtyAssumption
    <3>2. PICK a \in Nat : a = t.x
      BY TermFields, ScreenSize DEF Good
    <3>3. a % z \in 0 .. z - 1
      BY <3>1
    <3> QED BY <2>1, <3>1, <3>2, <3>3
  <2>3. w = PutBlanks(t, n)
    BY <2>1, <1>2 DEF term_putch
  <2> QED BY <2>2, <2>3, BlanksKeep
<1> QED BY <1>1, <1>2

\* By induction: term_write leaves the terminal in order.
LEMMA WriteKeeps ==
  ASSUME NEW t, Good(t), NEW text \in Seq(Glyphs), NEW w, w = term_write(t, text)
  PROVE  Good(w)
<1>1. PICK n \in Nat : n = Len(text)
  OBVIOUS
<1>2. PICK h : IsWrite(h, t, text, n) /\ w = h[n]
  BY <1>1, WriteIs
<1>3. \A k \in 0 .. n : h[k] = IF k = 0 THEN t ELSE term_putch(h[k - 1], text[k])
  BY ONLY <1>2 DEF IsWrite
<1>4. \A k \in 0 .. n : Good(h[k])
  <2> DEFINE D == {k \in 0 .. n : ~Good(h[k])}
  <2>1. SUFFICES ASSUME D # {} PROVE FALSE
    OBVIOUS
  <2>2. PICK k \in D : \A j \in D : k <= j
    <3>1. D \in SUBSET Nat
      OBVIOUS
    <3> HIDE DEF D
    <3> QED BY <2>1, <3>1, LeastOf
  <2>3. k \in 0 .. n /\ ~Good(h[k])
    BY <2>2
  <2>4. k # 0
    BY <2>3, <1>3
  <2>5. k - 1 \in 0 .. n /\ k - 1 \notin D
    BY <2>2, <2>3, <2>4
  <2>6. Good(h[k - 1])
    BY <2>5
  <2>7. PICK ch \in Glyphs \union {Newline} : ch = text[k]
    <3>1. k \in 1 .. n
      BY <2>3, <2>4
    <3> QED BY <3>1, <1>1
  <2>8. PICK u, v : u = h[k - 1] /\ v = h[k] /\ v = term_putch(u, ch)
    BY ONLY <2>3, <2>4, <2>7, <1>3
  <2> QED BY <2>3, <2>6, <2>8, PutchKeeps
<1>5. n \in 0 .. n
  OBVIOUS
<1> QED BY <1>2, <1>4, <1>5

LEMMA RefreshFacts ==
  ASSUME NEW t \in TermRec, t.y < Height, NEW w, w = term_refresh(t)
  PROVE  /\ Good(w) /\ w.x = t.x /\ w.y = t.y /\ w.swap = t.swap
         /\ \/ t.px = t.x /\ t.py = t.y /\ w = t
            \/ /\ ~(t.px = t.x /\ t.py = t.y)
               /\ \A c \in Cells : w.shown[c] = IF t.py <= c[1] /\ c[1] <= t.y
                                                THEN t.swap[c] ELSE t.shown[c]
<1>1. CASE t.px = t.x /\ t.py = t.y
  <2>1. w = t
    BY <1>1 DEF term_refresh
  <2>2. Good(w)
    <3>1. t.px <= t.x
      BY <1>1, TermFields, ScreenSize
    <3> QED BY <3>1, <2>1, <1>1 DEF Good
  <2> QED BY <2>1, <2>2, <1>1
<1>2. CASE ~(t.px = t.x /\ t.py = t.y)
  <2>1. PICK u : u = fb_flush_region(t, t.py, t.y)
    OBVIOUS
  <2>2. u = [c \in Cells |-> IF t.py <= c[1] /\ c[1] <= t.y THEN t.swap[c] ELSE t.shown[c]]
    BY <2>1 DEF fb_flush_region
  <2>3. u \in [Cells -> Glyphs]
    <3>1. t.swap \in [Cells -> Glyphs] /\ t.shown \in [Cells -> Glyphs]
      BY TermFields
    <3>2. \A c \in Cells : u[c] = t.swap[c] \/ u[c] = t.shown[c]
      BY ONLY <2>2
    <3>3. \A c \in Cells : u[c] \in Glyphs
      BY ONLY <3>1, <3>2
    <3> QED BY ONLY <3>3, <2>2
  <2>4. PICK a \in 0 .. Width, b \in 0 .. Height : a = t.x /\ b = t.y
    BY TermFields
  <2>5. w = [t EXCEPT !.shown = u, !.px = a, !.py = b]
    BY <2>1, <2>4, <1>2 DEF term_refresh
  <2>6. /\ w.x = t.x /\ w.y = t.y /\ w.swap = t.swap /\ w.px = a /\ w.py = b /\ w.shown = u
    BY ONLY <2>5, t \in TermRec DEF TermRec
  <2>7. w \in TermRec
    BY ONLY <2>3, <2>5, t \in TermRec, a \in 0 .. Width, b \in 0 .. Height DEF TermRec
  <2>8. Good(w)
    <3>1. w.px <= w.x
      BY <2>4, <2>6, ScreenSize
    <3> QED BY <3>1, <2>4, <2>6, <2>7 DEF Good
  <2> QED BY <2>2, <2>6, <2>8, <1>2
<1> QED BY <1>1, <1>2

\* After something was drawn, a refresh shows it.
LEMMA PutShown ==
  ASSUME NEW t, Good(t), NEW d, Good(d), Ahead(d), Drew(t, d), NEW w, w = term_refresh(d)
  PROVE  Good(w) /\ (StaleOK(t) => StaleOK(w))
<1>1. PICK h \in Nat : h = Height /\ h >= 2
  BY ScreenSize
<1>2. PICK n \in Nat : n = Width /\ n >= 2
  BY ScreenSize
<1>3. t \in TermRec /\ d \in TermRec /\ d.y < Height /\ t.y < Height
  BY DEF Good
<1>4. /\ t.x \in 0 .. n /\ t.y \in 0 .. h - 1 /\ t.py \in 0 .. h
      /\ d.x \in 0 .. n /\ d.y \in 0 .. h - 1 /\ d.py \in 0 .. h /\ d.px \in 0 .. n
  BY <1>1, <1>2, <1>3, TermFields
<1>5. ~(d.px = d.x /\ d.py = d.y)
  BY <1>4 DEF Ahead
<1>6. /\ Good(w) /\ w.x = d.x /\ w.y = d.y /\ w.swap = d.swap
      /\ \A c \in Cells : w.shown[c] = IF d.py <= c[1] /\ c[1] <= d.y
                                       THEN d.swap[c] ELSE d.shown[c]
  BY <1>3, <1>5, RefreshFacts
<1>7. ASSUME StaleOK(t), NEW c \in Cells, w.swap[c] # w.shown[c]
      PROVE  w.swap[c] = Blank /\ (c[1] > w.y \/ (c[1] = w.y /\ c[2] >= w.x))
  <2>1. c[1] \in 0 .. h - 1
    BY <1>1 DEF Cells
  <2>2. ~(d.py <= c[1] /\ c[1] <= d.y) /\ w.shown[c] = d.shown[c]
    BY <1>6, <1>7
  <2>3. ~(d.py = 0 /\ d.y = Height - 1)
    BY <2>1, <2>2, <1>1
  <2>4. /\ d.shown = t.shown /\ d.py = t.py /\ t.y <= d.y
        /\ c[1] < t.y \/ c[1] > d.y => d.swap[c] = t.swap[c]
    BY <2>3 DEF Drew
  <2>5. t.py <= t.y
    BY <1>4 DEF Good
  <2>6. c[1] < t.y \/ c[1] > d.y
    BY ONLY <2>1, <2>2, <2>4, <2>5, <1>4, h \in Nat
  <2>7. t.swap[c] # t.shown[c] /\ w.swap[c] = t.swap[c]
    BY <2>2, <2>4, <2>6, <1>6, <1>7
  <2>8. t.swap[c] = Blank /\ (c[1] > t.y \/ (c[1] = t.y /\ c[2] >= t.x))
    BY <2>7, <1>7 DEF StaleOK
  <2>9. c[1] > d.y
    BY ONLY <2>1, <2>6, <2>8, <1>4, h \in Nat
  <2> QED BY <2>7, <2>8, <2>9, <1>6
<1> QED BY <1>6, <1>7 DEF StaleOK

\* term_back: nothing at the first cell, else the cell before the cursor goes blank.
LEMMA BackFacts ==
  ASSUME NEW t \in TermRec, t.y < Height, NEW w, w = term_back(t)
  PROVE  \/ t.x = 0 /\ t.y = 0 /\ w = t
         \/ /\ w \in TermRec /\ w.px = t.px /\ w.py = t.py /\ w.shown = t.shown
            /\ \/ t.x > 0 /\ w.x = t.x - 1 /\ w.y = t.y
               \/ t.x = 0 /\ t.y > 0 /\ w.x = Width - 1 /\ w.y = t.y - 1
            /\ <<w.y, w.x>> \in Cells /\ w.swap = [t.swap EXCEPT ![<<w.y, w.x>>] = Blank]
<1>1. PICK n \in Nat : n = Width /\ n >= 2
  BY ScreenSize
<1>2. PICK h \in Nat : h = Height /\ h >= 2
  BY ScreenSize
<1>3. t.x \in 0 .. n /\ t.y \in 0 .. h - 1
  BY <1>1, <1>2, TermFields
<1>4. Blank \in Glyphs /\ t.swap \in [Cells -> Glyphs]
  BY BlankGlyph, TermFields
<1>5. CASE t.x > 0
  <2>1. PICK k \in 0 .. n - 1 : k = t.x - 1
    BY <1>3, <1>5
  <2>2. PICK p \in Cells : p = <<t.y, k>>
    BY <1>1, <1>2, <1>3 DEF Cells
  <2>3. PICK u \in [Cells -> Glyphs] : u = [t.swap EXCEPT ![p] = Blank]
    BY ONLY <1>4, p \in Cells
  <2>4. w = [t EXCEPT !.x = k, !.swap = u]
    BY <2>1, <2>2, <2>3, <1>5 DEF term_back, TermRec
  <2>5. w.px = t.px /\ w.py = t.py /\ w.shown = t.shown /\ w.x = k /\ w.y = t.y /\ w.swap = u
    BY ONLY <2>4, t \in TermRec DEF TermRec
  <2>6. w \in TermRec
    <3>1. k \in 0 .. Width
      BY <1>1
    <3> QED BY ONLY <3>1, <2>4, t \in TermRec, u \in [Cells -> Glyphs] DEF TermRec
  <2> QED BY <2>1, <2>2, <2>3, <2>5, <2>6, <1>5
<1>6. CASE t.x = 0 /\ t.y > 0
  <2>1. PICK k \in 0 .. h - 1 : k = t.y - 1
    BY <1>3, <1>6
  <2>2. PICK a \in 0 .. n - 1 : a = Width - 1
    BY <1>1
  <2>3. PICK p \in Cells : p = <<k, a>>
    BY <1>1, <1>2 DEF Cells
  <2>4. PICK u \in [Cells -> Glyphs] : u = [t.swap EXCEPT ![p] = Blank]
    BY ONLY <1>4, p \in Cells
  <2>5. w = [t EXCEPT !.x = a, !.y = k, !.swap = u]
    <3>1. ~(t.x > 0)
      BY <1>6
    <3> QED BY <3>1, <2>1, <2>2, <2>3, <2>4, <1>6 DEF term_back, TermRec
  <2>6. w.px = t.px /\ w.py = t.py /\ w.shown = t.shown /\ w.x = a /\ w.y = k /\ w.swap = u
    BY ONLY <2>5, t \in TermRec DEF TermRec
  <2>7. w \in TermRec
    <3>1. a \in 0 .. Width /\ k \in 0 .. Height
      BY <1>1, <1>2
    <3> QED BY ONLY <3>1, <2>5, t \in TermRec, u \in [Cells -> Glyphs] DEF TermRec
  <2> QED BY <2>1, <2>2, <2>3, <2>4, <2>6, <2>7, <1>6
<1>7. CASE t.x = 0 /\ ~(t.y > 0)
  <2>1. t.y = 0 /\ ~(t.x > 0)
    BY <1>3, <1>7
  <2> QED BY <2>1, <1>7 DEF term_back
<1> QED BY <1>3, <1>5, <1>6, <1>7

\* A backspace and its refresh leave at most blanks behind the cursor stale.
LEMMA BackShown ==
  ASSUME NEW t, Good(t), NEW b, b = term_back(t), NEW w, w = term_refresh(b)
  PROVE  Good(w) /\ (StaleOK(t) => StaleOK(w))
<1>1. PICK h \in Nat : h = Height /\ h >= 2
  BY ScreenSize
<1>2. PICK n \in Nat : n = Width /\ n >= 2
  BY ScreenSize
<1>3. t \in TermRec /\ t.y < Height
  BY DEF Good
<1>4. t.x \in 0 .. n /\ t.y \in 0 .. h - 1
  BY <1>1, <1>2, <1>3, TermFields
<1>5. \/ t.x = 0 /\ t.y = 0 /\ b = t
      \/ /\ b \in TermRec /\ b.px = t.px /\ b.py = t.py /\ b.shown = t.shown
         /\ \/ t.x > 0 /\ b.x = t.x - 1 /\ b.y = t.y
            \/ t.x = 0 /\ t.y > 0 /\ b.x = Width - 1 /\ b.y = t.y - 1
         /\ <<b.y, b.x>> \in Cells /\ b.swap = [t.swap EXCEPT ![<<b.y, b.x>>] = Blank]
  BY <1>3, BackFacts
<1>6. b \in TermRec /\ b.y < Height
  BY <1>1, <1>3, <1>4, <1>5
<1>7. /\ Good(w) /\ w.x = b.x /\ w.y = b.y /\ w.swap = b.swap
      /\ \/ w = b
         \/ \A c \in Cells : w.shown[c] = IF b.py <= c[1] /\ c[1] <= b.y
                                          THEN b.swap[c] ELSE b.shown[c]
  BY <1>6, RefreshFacts
<1>8. \A c \in Cells : w.swap[c] # w.shown[c] => b.swap[c] # b.shown[c]
  BY <1>7
<1>9. ASSUME StaleOK(t) PROVE StaleOK(b)
  <2>1. CASE b = t
    BY <2>1, <1>9
  <2>2. CASE /\ b \in TermRec /\ b.px = t.px /\ b.py = t.py /\ b.shown = t.shown
             /\ \/ t.x > 0 /\ b.x = t.x - 1 /\ b.y = t.y
                \/ t.x = 0 /\ t.y > 0 /\ b.x = Width - 1 /\ b.y = t.y - 1
             /\ <<b.y, b.x>> \in Cells /\ b.swap = [t.swap EXCEPT ![<<b.y, b.x>>] = Blank]
    <3>1. ASSUME NEW c \in Cells, b.swap[c] # b.shown[c]
          PROVE  b.swap[c] = Blank /\ (c[1] > b.y \/ (c[1] = b.y /\ c[2] >= b.x))
      <4>1. c[1] \in 0 .. h - 1 /\ c[2] \in 0 .. n - 1 /\ c = <<c[1], c[2]>>
        BY <1>1, <1>2 DEF Cells
      <4>2. t.swap \in [Cells -> Glyphs]
        BY <1>3, TermFields
      <4>3. CASE c = <<b.y, b.x>>
        <5>1. b.swap[c] = Blank /\ c[1] = b.y /\ c[2] = b.x
          BY <4>2, <4>3, <2>2
        <5> QED BY <5>1, <4>1
      <4>4. CASE c # <<b.y, b.x>>
        <5>1. b.swap[c] = t.swap[c]
          BY <4>2, <4>4, <2>2
        <5>2. t.swap[c] = Blank /\ (c[1] > t.y \/ (c[1] = t.y /\ c[2] >= t.x))
          BY <5>1, <3>1, <2>2, <1>9 DEF StaleOK
        <5>3. c[1] > b.y \/ (c[1] = b.y /\ c[2] >= b.x)
          BY ONLY <5>2, <4>1, <2>2, <1>2, <1>4, h \in Nat
        <5> QED BY <5>1, <5>2, <5>3
      <4> QED BY <4>3, <4>4
    <3> QED BY <3>1 DEF StaleOK
  <2> QED BY <2>1, <2>2, <1>5
<1>10. ASSUME StaleOK(b) PROVE StaleOK(w)
  BY <1>7, <1>8, <1>10 DEF StaleOK
<1> QED BY <1>7, <1>9, <1>10

\* A refresh without a change before it.
LEMMA RefreshShown ==
  ASSUME NEW t, Good(t), NEW w, w = term_refresh(t)
  PROVE  Good(w) /\ (StaleOK(t) => StaleOK(w))
<1>1. t \in TermRec /\ t.y < Height
  BY DEF Good
<1>2. /\ Good(w) /\ w.x = t.x /\ w.y = t.y /\ w.swap = t.swap
      /\ \/ w = t
         \/ \A c \in Cells : w.shown[c] = IF t.py <= c[1] /\ c[1] <= t.y
                                          THEN t.swap[c] ELSE t.shown[c]
  BY <1>1, RefreshFacts
<1>3. \A c \in Cells : w.swap[c] # w.shown[c] => t.swap[c] # t.shown[c]
  BY <1>2
<1> QED BY <1>2, <1>3 DEF StaleOK

\* A flush shows everything.
LEMMA FlushShown ==
  ASSUME NEW t, Good(t), NEW w, w = term_flush(t)
  PROVE  Good(w) /\ StaleOK(w)
<1>1. t \in TermRec /\ t.y < Height
  BY DEF Good
<1>2. PICK u \in [Cells -> Glyphs] : u = t.swap
  BY <1>1, TermFields
<1>3. w = [t EXCEPT !.shown = u]
  BY <1>2 DEF term_flush
<1>4. w \in TermRec
  BY ONLY <1>1, <1>3, u \in [Cells -> Glyphs] DEF TermRec
<1>5. w.x = t.x /\ w.y = t.y /\ w.px = t.px /\ w.py = t.py /\ w.swap = t.swap /\ w.shown = t.swap
  BY ONLY <1>1, <1>2, <1>3 DEF TermRec
<1> QED BY <1>4, <1>5 DEF Good, StaleOK

-----------------------------------------------------------------------------
(* The screen.                                                             *)

LEMMA TextsAre ==
  ASSUME NEW env \in Environments
  PROVE  env.texts \subseteq Seq(Glyphs)
<1>1. SUFFICES ASSUME NEW text \in env.texts PROVE text \in Seq(Glyphs)
  OBVIOUS
<1>2. PICK S : S = STRING
  OBVIOUS
<1>3. text \in Seq(S)
  BY <1>2, TtyAssumption
<1>4. PICK n \in Nat : n = Len(text) /\ DOMAIN text = 1 .. n /\ text = [i \in 1 .. n |-> text[i]]
  BY ONLY <1>3
<1>5. ASSUME NEW i \in 1 .. n PROVE text[i] \in Glyphs
  <2>1. text[i] \in ToSet(text)
    BY <1>4 DEF ToSet
  <2>2. text \in UNION {e.texts : e \in Environments}
    OBVIOUS
  <2> QED BY <2>1, <2>2 DEF Glyphs
<1>6. text \in [1 .. n -> Glyphs]
  BY ONLY <1>4, <1>5
<1> QED BY ONLY <1>6, n \in Nat

\* The steps that leave the terminal alone.
LEMMA ScreenSame ==
  ASSUME ScreenInv, UNCHANGED <<g, texts>>, logger' = logger \/ logger' \notin {"no", "pushed"}
                                            \/ logger \in {"no", "pushed"}
  PROVE  ScreenInv'
BY DEF ScreenInv, Good, StaleOK

\* The steps that draw.
LEMMA ScreenNew ==
  ASSUME ScreenInv, UNCHANGED texts, NEW w, g' = w, Good(w),
         logger' \in {"no", "pushed"} => StaleOK(w)
  PROVE  ScreenInv'
BY DEF ScreenInv, Good, StaleOK

\* Text is written and flushed.
LEMMA TextShown ==
  ASSUME ScreenInv, NEW text \in texts, g' = term_flush(term_write(g, text)), UNCHANGED texts
  PROVE  ScreenInv'
<1>1. PICK t : t = g /\ Good(t)
  BY DEF ScreenInv
<1>2. text \in Seq(Glyphs)
  BY DEF ScreenInv
<1>3. PICK a : a = term_write(t, text)
  OBVIOUS
<1>4. Good(a)
  BY ONLY <1>1, <1>2, <1>3, WriteKeeps
<1>5. PICK w : w = term_flush(a)
  OBVIOUS
<1>6. Good(w) /\ StaleOK(w)
  BY ONLY <1>4, <1>5, FlushShown
<1>7. g' = w
  BY <1>1, <1>3, <1>5
<1> QED BY <1>6, <1>7, ScreenNew

\* A character or a newline is drawn and refreshed.
LEMMA CharShown ==
  ASSUME ScreenInv, NEW ch \in Glyphs \union {Newline}, UNCHANGED <<texts, logger>>,
         g' = term_refresh(term_putch(g, ch))
  PROVE  ScreenInv'
<1>1. PICK t : t = g /\ Good(t)
  BY DEF ScreenInv
<1>2. PICK d : d = term_putch(t, ch)
  OBVIOUS
<1>3. Good(d) /\ Ahead(d) /\ Drew(t, d)
  BY <1>1, <1>2, PutchKeeps
<1>4. PICK w : w = term_refresh(d)
  OBVIOUS
<1>5. Good(w) /\ (StaleOK(t) => StaleOK(w))
  BY ONLY <1>1, <1>3, <1>4, PutShown
<1>6. g' = w
  BY <1>1, <1>2, <1>4
<1>7. logger' \in {"no", "pushed"} => StaleOK(w)
  BY <1>1, <1>5 DEF ScreenInv
<1> QED BY <1>5, <1>6, <1>7, ScreenNew

LEMMA ScreenStep ==
  ASSUME ScreenInv, Next
  PROVE  ScreenInv'
<1>1. CASE \E key \in keys :
             /\ (Press(key) \/ Release(key)) /\ ~halted
             /\ UNCHANGED <<texts, g, color, ttyVars, readVars, logger, plain, halted>>
  BY <1>1, ScreenSame
<1>2. CASE \E text \in texts : kprint_write(text)
  <2>1. PICK text \in texts : kprint_write(text)
    BY <1>2
  <2>2. g' = term_write(g, text) /\ logger' = "written" /\ texts' = texts
    BY <2>1 DEF kprint_write, kbdVars
  <2>3. PICK t : t = g /\ Good(t)
    BY DEF ScreenInv
  <2>4. PICK w : w = term_write(t, text)
    OBVIOUS
  <2>5. text \in Seq(Glyphs)
    BY DEF ScreenInv
  <2>6. Good(w)
    BY ONLY <2>3, <2>4, <2>5, WriteKeeps
  <2> QED BY <2>2, <2>3, <2>4, <2>6, ScreenNew
<1>3. CASE \E text \in texts : \E err \in BOOLEAN : ttyfs_write(text, err)
  BY <1>3, TextShown DEF ttyfs_write, kbdVars
<1>4. CASE keyboard_callback
  <2>1. UNCHANGED <<texts, logger>>
    BY <1>4 DEF keyboard_callback
  <2>2. (\E text \in texts : g' = term_flush(term_write(g, text))) \/ g' = g
    BY <1>4 DEF keyboard_callback
  <2> QED BY <2>1, <2>2, TextShown, ScreenSame
<1>5. CASE kprint_push
  BY <1>5, ScreenSame DEF kprint_push, kbdVars
<1>6. CASE kprint_pop
  BY <1>6, ScreenSame DEF kprint_pop, kbdVars
<1>7. CASE kprint_flush
  <2>1. g' = term_flush(g) /\ texts' = texts
    BY <1>7 DEF kprint_flush, kbdVars
  <2>2. PICK t : t = g /\ Good(t)
    BY DEF ScreenInv
  <2>3. PICK w : w = term_flush(t)
    OBVIOUS
  <2>4. Good(w) /\ StaleOK(w)
    BY ONLY <2>2, <2>3, FlushShown
  <2> QED BY <2>1, <2>2, <2>3, <2>4, ScreenNew
<1>8. CASE (\E n \in Lens : ttyfs_read(n)) \/ subscribe \/ skip_key
  BY <1>8, ScreenSame DEF ttyfs_read, subscribe, skip_key, kbdVars
<1>9. CASE read_line
  <2>1. g' = term_refresh(term_putch(g, Newline)) /\ UNCHANGED <<texts, logger>>
    BY <1>9 DEF read_line, term_newline, term_putch, Newline, Tab, kbdVars
  <2> QED BY <2>1, CharShown
<1>10. CASE \E ch \in {"a", "A", "b", "B", Tab, Backspace} : echo_char(ch)
  <2>1. PICK ch \in {"a", "A", "b", "B", Tab, Backspace} : echo_char(ch)
    BY <1>10
  <2>2. UNCHANGED <<texts, logger>>
    BY <2>1 DEF echo_char, kbdVars
  <2>3. CASE ch # Backspace /\ EchoChar(ch)
    <3>1. ch \in Typed
      BY <2>3 DEF Typed
    <3>2. ch \in Glyphs \union {Newline}
      BY <3>1 DEF Glyphs
    <3>3. g' = term_refresh(term_putch(g, ch))
      BY <2>3 DEF EchoChar
    <3> QED BY <3>2, <3>3, <2>2, CharShown
  <2>4. CASE UNCHANGED <<ttyVars, g, plain>>
    BY <2>2, <2>4, ScreenSame
  <2>5. CASE EchoBack
    <3>1. PICK t : t = g /\ Good(t)
      BY DEF ScreenInv
    <3>2. CASE g' = term_refresh(g)
      <4>1. PICK w : w = term_refresh(t)
        OBVIOUS
      <4>2. Good(w) /\ (StaleOK(t) => StaleOK(w))
        BY ONLY <3>1, <4>1, RefreshShown
      <4>3. g' = w /\ (logger' \in {"no", "pushed"} => StaleOK(w))
        BY <4>1, <4>2, <3>1, <3>2, <2>2 DEF ScreenInv
      <4> QED BY <4>2, <4>3, <2>2, ScreenNew
    <3>3. CASE g' = term_refresh(term_back(g))
      <4>1. PICK b : b = term_back(t)
        OBVIOUS
      <4>2. PICK w : w = term_refresh(b)
        OBVIOUS
      <4>3. Good(w) /\ (StaleOK(t) => StaleOK(w))
        BY ONLY <3>1, <4>1, <4>2, BackShown
      <4>4. g' = w /\ (logger' \in {"no", "pushed"} => StaleOK(w))
        BY <4>1, <4>2, <4>3, <3>1, <3>3, <2>2 DEF ScreenInv
      <4> QED BY <4>3, <4>4, <2>2, ScreenNew
    <3> QED BY <3>2, <3>3, <2>5 DEF EchoBack
  <2> QED BY <2>1, <2>3, <2>4, <2>5 DEF echo_char
<1> QED BY <1>1, <1>2, <1>3, <1>4, <1>5, <1>6, <1>7, <1>8, <1>9, <1>10 DEF Next

\* The terminal stays in order, its cursor on the screen, and what was drawn is
\* shown or about to be flushed.
THEOREM TtyScreen == Spec => []ScreenInv
<1>1. Init => ScreenInv
  <2>1. SUFFICES ASSUME Init PROVE ScreenInv
    OBVIOUS
  <2>2. PICK s \in [Cells -> Glyphs] : s = [c \in Cells |-> Blank]
    BY BlankGlyph
  <2>3. PICK t : t = [x |-> 0, y |-> 0, px |-> 0, py |-> 0, swap |-> s, shown |-> s]
    OBVIOUS
  <2>4. g = t /\ \E env \in Environments : texts = env.texts
    BY <2>1, <2>2, <2>3 DEF Init, TermInit
  <2>5. 0 \in 0 .. Width /\ 0 \in 0 .. Height /\ 0 < Height
    BY ScreenSize
  <2>6. t \in TermRec
    BY ONLY <2>3, <2>5, s \in [Cells -> Glyphs] DEF TermRec
  <2>7. t.x = 0 /\ t.y = 0 /\ t.px = 0 /\ t.py = 0 /\ t.swap = s /\ t.shown = s
    BY ONLY <2>3
  <2>8. Good(t) /\ StaleOK(t)
    BY <2>5, <2>6, <2>7 DEF Good, StaleOK
  <2>9. texts \subseteq Seq(Glyphs)
    BY <2>4, TextsAre
  <2> QED BY <2>4, <2>8, <2>9 DEF ScreenInv
<1>2. ScreenInv /\ [Next]_vars => ScreenInv'
  <2>1. SUFFICES ASSUME ScreenInv, [Next]_vars PROVE ScreenInv'
    OBVIOUS
  <2>2. CASE Next
    BY <2>1, <2>2, ScreenStep
  <2>3. CASE UNCHANGED vars
    <3>1. UNCHANGED <<g, texts>> /\ logger' = logger
      BY <2>3 DEF vars, kbdVars
    <3> QED BY <2>1, <3>1, ScreenSame
  <2> QED BY <2>1, <2>2, <2>3
<1> QED BY <1>1, <1>2, PTL DEF Spec

-----------------------------------------------------------------------------
(* The echo.                                                               *)

LEMMA MulMono ==
  ASSUME NEW a \in Nat, NEW b \in Nat, NEW n \in Nat, a <= b
  PROVE  a * n <= b * n /\ a * n \in Nat
<1>1. PICK d \in Nat : b = a + d
  <2>1. b - a \in Nat /\ b = a + (b - a)
    OBVIOUS
  <2> QED BY <2>1
<1>2. b * n = a * n + d * n /\ d * n \in Nat /\ a * n \in Nat
  BY <1>1
<1> QED BY <1>2

LEMMA PosFacts ==
  ASSUME NEW r \in Nat, NEW c \in Nat
  PROVE  /\ Pos(r, c) \in Nat /\ Pos(r, c + 1) = Pos(r, c) + 1
         /\ Pos(r + 1, c) = Pos(r, c) + Width /\ Pos(r, Width) = Pos(r + 1, 0)
<1>1. PICK n \in Nat : n = Width
  BY ScreenSize
<1>2. r * n \in Nat /\ (r + 1) * n = r * n + n
  OBVIOUS
<1> QED BY ONLY <1>1, <1>2, c \in Nat DEF Pos

\* Cells are ordered by rows and columns.
LEMMA PosLess ==
  ASSUME NEW r \in Nat, NEW q \in Nat, NEW c \in 0 .. Width - 1, NEW d \in 0 .. Width, r < q
  PROVE  Pos(r, c) < Pos(q, d)
<1>1. PICK n \in Nat : n = Width
  BY ScreenSize
<1>2. (r + 1) * n <= q * n /\ (r + 1) * n = r * n + n /\ r * n \in Nat /\ q * n \in Nat
  <2>1. (r + 1) * n <= q * n
    BY MulMono
  <2>2. (r + 1) * n = r * n + n /\ r * n \in Nat /\ q * n \in Nat
    OBVIOUS
  <2> QED BY <2>1, <2>2
<1>3. c \in 0 .. n - 1 /\ d \in 0 .. n
  BY <1>1
<1> QED BY ONLY <1>1, <1>2, <1>3, n \in Nat DEF Pos

LEMMA PosUnique ==
  ASSUME NEW r \in Nat, NEW q \in Nat, NEW c \in 0 .. Width - 1, NEW d \in 0 .. Width - 1,
         Pos(r, c) = Pos(q, d)
  PROVE  r = q /\ c = d
<1>1. PICK n \in Nat : n = Width
  BY ScreenSize
<1>2. c \in Nat /\ d \in Nat /\ c \in 0 .. Width /\ d \in 0 .. Width
  BY <1>1
<1>3. Pos(r, c) \in Nat
  BY <1>2, PosFacts
<1>4. ~(r < q)
  <2>1. SUFFICES ASSUME r < q PROVE FALSE
    OBVIOUS
  <2>2. Pos(r, c) < Pos(q, d)
    BY <2>1, <1>2, PosLess
  <2> QED BY <2>2, <1>3
<1>5. ~(q < r)
  <2>1. SUFFICES ASSUME q < r PROVE FALSE
    OBVIOUS
  <2>2. Pos(q, d) < Pos(r, c)
    BY <2>1, <1>2, PosLess
  <2> QED BY <2>2, <1>3
<1>6. r = q
  BY <1>4, <1>5
<1>7. r * n \in Nat
  OBVIOUS
<1> QED BY <1>1, <1>2, <1>6, <1>7 DEF Pos

LEMMA OneOn ==
  ASSUME NEW a \in Nat, NEW b \in Nat, NEW k \in Nat, k >= 1, a + k = b + 1
  PROVE  /\ k = 1 => a = b
         /\ k # 1 => a + (k - 1) = b /\ a # b /\ k - 1 >= 1
OBVIOUS

\* A character was drawn: line l with ch behind it.
LEMMA ShowsChar ==
  ASSUME NEW t, Good(t), NEW l \in Seq(Glyphs), Shows(t, l), NEW ch \in Glyphs, ch # Newline,
         NEW w, w = PutCell(t, ch), NEW m, m = Append(l, ch)
  PROVE  Shows(w, m)
<1>1. PICK h \in Nat : h = Height /\ h >= 2
  BY ScreenSize
<1>2. PICK n \in Nat : n = Width /\ n >= 2
  BY ScreenSize
<1>3. t \in TermRec /\ t.y < Height
  BY DEF Good
<1>4. t.x \in 0 .. n /\ t.y \in 0 .. h - 1 /\ t.swap \in [Cells -> Glyphs]
  BY <1>1, <1>2, <1>3, TermFields
<1>5. PICK z \in Nat : z = Len(l)
  OBVIOUS
<1>6. Len(m) = z + 1 /\ m[z + 1] = ch /\ \A i \in 1 .. z : m[i] = l[i]
  BY <1>5, Appended
<1>7. \A r \in 0 .. h - 1, c \in 0 .. n - 1 : \A k \in 1 .. z :
        Pos(r, c) + k = Pos(t.y, t.x) => t.swap[<<r, c>>] = l[z - k + 1]
  BY <1>1, <1>2, <1>5 DEF Shows
<1>8. \A r \in 0 .. h - 1, c \in 0 .. n - 1 : <<r, c>> \in Cells /\ Pos(r, c) \in Nat
  <2>1. TAKE r \in 0 .. h - 1, c \in 0 .. n - 1
  <2>2. r \in Nat /\ c \in Nat
    OBVIOUS
  <2> QED BY <2>2, <1>1, <1>2, PosFacts DEF Cells
<1>9. \A k \in 1 .. z + 1 : k # 1 => k - 1 \in 1 .. z /\ z - (k - 1) + 1 \in 1 .. z
                                     /\ z - (k - 1) + 1 = (z + 1) - k + 1
  OBVIOUS
<1>10. ASSUME NEW r0 \in 0 .. h - 1, NEW c0 \in 0 .. n - 1, Pos(r0, c0) = Pos(t.y, t.x),
              DrawnAt(t, w, r0, c0, ch)
       PROVE  Shows(w, m)
  <2>1. w.x = c0 + 1 /\ w.y = r0 /\ w.swap = [t.swap EXCEPT ![<<r0, c0>>] = ch]
    BY <1>10 DEF DrawnAt
  <2>2. Pos(w.y, w.x) = Pos(r0, c0) + 1
    BY <2>1, PosFacts
  <2>3. ASSUME NEW r \in 0 .. h - 1, NEW c \in 0 .. n - 1, NEW k \in 1 .. z + 1,
               Pos(r, c) + k = Pos(w.y, w.x)
        PROVE  w.swap[<<r, c>>] = m[(z + 1) - k + 1]
    <3>1. /\ k = 1 => Pos(r, c) = Pos(r0, c0)
          /\ k # 1 => /\ Pos(r, c) + (k - 1) = Pos(r0, c0)
                      /\ Pos(r, c) # Pos(r0, c0)
      <4>1. k \in Nat /\ k >= 1
        BY ONLY k \in 1 .. z + 1, z \in Nat
      <4>2. Pos(r, c) \in Nat /\ Pos(r0, c0) \in Nat
        BY ONLY <1>8, r \in 0 .. h - 1, c \in 0 .. n - 1, r0 \in 0 .. h - 1, c0 \in 0 .. n - 1
      <4>3. Pos(r, c) + k = Pos(r0, c0) + 1
        BY ONLY <2>2, <2>3
      <4> QED BY ONLY <4>1, <4>2, <4>3, OneOn
    <3>2. CASE k = 1
      <4>1. Pos(r, c) = Pos(r0, c0)
        BY ONLY <3>1, <3>2
      <4>2. r = r0 /\ c = c0
        BY <4>1, <1>2, PosUnique
      <4>3. w.swap[<<r, c>>] = ch /\ (z + 1) - k + 1 = z + 1
        BY <4>2, <3>2, <2>1, <1>4, <1>8
      <4> QED BY <4>3, <1>6
    <3>3. CASE k # 1
      <4>1. Pos(r, c) + (k - 1) = Pos(t.y, t.x)
        BY ONLY <3>1, <3>3, <1>10
      <4>2. t.swap[<<r, c>>] = l[z - (k - 1) + 1]
        BY <4>1, <3>3, <1>7, <1>9
      <4>3. <<r, c>> # <<r0, c0>>
        <5>1. Pos(r, c) # Pos(r0, c0)
          BY ONLY <3>1, <3>3
        <5> QED BY <5>1
      <4>4. w.swap[<<r, c>>] = t.swap[<<r, c>>]
        BY <4>3, <2>1, <1>4, <1>8
      <4> QED BY <4>2, <4>4, <3>3, <1>6, <1>9
    <3> QED BY <3>2, <3>3
  <2> QED BY ONLY <2>3, <1>1, <1>2, <1>6 DEF Shows
<1>11. CASE t.x < Width /\ DrawnAt(t, w, t.y, t.x, ch)
  BY <1>2, <1>4, <1>10, <1>11
<1>12. CASE t.x = Width /\ t.y + 1 < Height /\ DrawnAt(t, w, t.y + 1, 0, ch)
  <2>1. Pos(t.y + 1, 0) = Pos(t.y, t.x)
    <3>1. t.y \in Nat /\ t.x \in Nat
      BY <1>4
    <3> QED BY <3>1, <1>12, PosFacts
  <2>2. t.y + 1 \in 0 .. h - 1 /\ 0 \in 0 .. n - 1
    BY <1>1, <1>2, <1>4, <1>12
  <2> QED BY <2>1, <2>2, <1>10, <1>12
<1>13. CASE t.x = Width /\ t.y = Height - 1 /\ DrawnBelow(t, w, ch)
  <2>1. PICK u \in [Cells -> Glyphs] : u = fb_scroll(t.swap)
    BY <1>4, Scrolled
  <2>2. w.x = 1 /\ w.y = h - 1 /\ w.swap = [u EXCEPT ![<<h - 1, 0>>] = ch]
    BY <2>1, <1>1, <1>13 DEF DrawnBelow
  <2>3. \A r \in 0 .. h - 2, c \in 0 .. n - 1 : u[<<r, c>>] = t.swap[<<r + 1, c>>]
    BY <2>1, <1>1, <1>2, <1>4, Scrolled
  <2>4. PICK p \in Nat : p = Pos(h - 1, 0)
    <3>1. h - 1 \in Nat
      BY <1>1
    <3> QED BY <3>1, PosFacts
  <2>5. Pos(w.y, w.x) = p + 1 /\ Pos(t.y, t.x) = p + n
    <3>1. h - 1 \in Nat /\ 0 + 1 = 1 /\ (h - 1) + 1 = h /\ t.y = h - 1
      BY <1>1, <1>13
    <3>2. Pos(h - 1, 0 + 1) = p + 1
      BY <3>1, <2>4, PosFacts
    <3>3. Pos(h - 1, Width) = Pos((h - 1) + 1, 0) /\ Pos((h - 1) + 1, 0) = p + Width
      BY <3>1, <2>4, PosFacts
    <3> QED BY <3>1, <3>2, <3>3, <2>2, <1>2, <1>13
  <2>6. ASSUME NEW r \in 0 .. h - 1, NEW c \in 0 .. n - 1, NEW k \in 1 .. z + 1,
               Pos(r, c) + k = Pos(w.y, w.x)
        PROVE  w.swap[<<r, c>>] = m[(z + 1) - k + 1]
    <3>1. /\ k = 1 => Pos(r, c) = p
          /\ k # 1 => Pos(r, c) + (k - 1) = p /\ Pos(r, c) # p /\ k - 1 >= 1
      <4>1. k \in Nat /\ k >= 1
        BY ONLY k \in 1 .. z + 1, z \in Nat
      <4>2. Pos(r, c) \in Nat
        BY ONLY <1>8, r \in 0 .. h - 1, c \in 0 .. n - 1
      <4>3. Pos(r, c) + k = p + 1
        BY ONLY <2>5, <2>6
      <4> QED BY ONLY <4>1, <4>2, <4>3, OneOn, p \in Nat
    <3>2. CASE k = 1
      <4>1. Pos(r, c) = Pos(h - 1, 0)
        BY ONLY <3>1, <3>2, <2>4
      <4>2. h - 1 \in Nat /\ 0 \in 0 .. Width - 1
        BY <1>1, <1>2
      <4>3. r = h - 1 /\ c = 0
        BY <4>1, <4>2, <1>2, PosUnique
      <4>4. w.swap[<<r, c>>] = ch /\ (z + 1) - k + 1 = z + 1
        BY <4>3, <3>2, <2>2, <1>8
      <4> QED BY <4>4, <1>6
    <3>3. CASE k # 1
      <4>1. Pos(r, c) + (k - 1) = p /\ k - 1 >= 1
        BY ONLY <3>1, <3>3
      <4>2. <<r, c>> # <<h - 1, 0>>
        <5>1. Pos(r, c) # p
          BY ONLY <3>1, <3>3
        <5> QED BY <5>1, <2>4
      <4>3. r # h - 1
        <5>1. SUFFICES ASSUME r = h - 1 PROVE FALSE
          OBVIOUS
        <5>2. h - 1 \in Nat /\ (h - 1) * n \in Nat
          BY <1>1
        <5>3. Pos(h - 1, c) = (h - 1) * n + c /\ p = (h - 1) * n + 0
          BY <2>4, <1>2 DEF Pos
        <5> QED BY ONLY <5>1, <5>2, <5>3, <4>1, c \in 0 .. n - 1, k \in 1 .. z + 1, n \in Nat,
                        z \in Nat
      <4>4. r \in 0 .. h - 2 /\ r + 1 \in 0 .. h - 1
        BY <4>3
      <4>5. Pos(r + 1, c) = Pos(r, c) + n
        BY <1>2, PosFacts
      <4>6. Pos(r + 1, c) + (k - 1) = Pos(t.y, t.x)
        <5>1. PICK a \in Nat : a = Pos(r, c)
          BY <1>8
        <5>2. a + (k - 1) = p
          BY ONLY <5>1, <4>1
        <5>3. (a + n) + (k - 1) = p + n
          BY ONLY <5>2, a \in Nat, n \in Nat, k \in 1 .. z + 1, z \in Nat
        <5>4. Pos(r + 1, c) = a + n
          BY ONLY <5>1, <4>5
        <5> QED BY ONLY <5>3, <5>4, <2>5
      <4>7. t.swap[<<r + 1, c>>] = l[z - (k - 1) + 1]
        BY <4>4, <4>6, <3>3, <1>7, <1>9
      <4>8. w.swap[<<r, c>>] = t.swap[<<r + 1, c>>]
        BY <4>2, <4>4, <2>2, <2>3, <1>8
      <4> QED BY <4>7, <4>8, <3>3, <1>6, <1>9
    <3> QED BY <3>2, <3>3
  <2> QED BY ONLY <2>6, <1>1, <1>2, <1>6 DEF Shows
<1> QED BY <1>3, <1>11, <1>12, <1>13, PutChar

\* The last character was taken back: what is left of line l.
LEMMA ShowsBack ==
  ASSUME NEW t, Good(t), NEW l, NEW z \in Nat, z = Len(l), z >= 1, Shows(t, l),
         NEW w, w = term_back(t),
         NEW m, Len(m) = z - 1, \A i \in 1 .. z - 1 : m[i] = l[i]
  PROVE  Shows(w, m)
<1>1. PICK h \in Nat : h = Height /\ h >= 2
  BY ScreenSize
<1>2. PICK n \in Nat : n = Width /\ n >= 2
  BY ScreenSize
<1>3. t \in TermRec /\ t.y < Height
  BY DEF Good
<1>4. PICK y \in 0 .. h - 1, x \in 0 .. n : t.x = x /\ t.y = y
  BY <1>1, <1>2, <1>3, TermFields
<1>5. t.swap \in [Cells -> Glyphs]
  BY <1>3, TermFields
<1>6. \A r \in 0 .. h - 1, c \in 0 .. n - 1 : <<r, c>> \in Cells /\ Pos(r, c) \in Nat
  <2>1. TAKE r \in 0 .. h - 1, c \in 0 .. n - 1
  <2>2. r \in Nat /\ c \in Nat
    OBVIOUS
  <2> QED BY <2>2, <1>1, <1>2, PosFacts DEF Cells
<1>7. \A r \in 0 .. h - 1, c \in 0 .. n - 1 : \A k \in 1 .. z :
        Pos(r, c) + k = Pos(y, x) => t.swap[<<r, c>>] = l[z - k + 1]
  BY <1>1, <1>2, <1>4 DEF Shows
<1>8. \A k \in 1 .. z - 1 : /\ k + 1 \in 1 .. z /\ z - k \in 1 .. z - 1
                            /\ z - (k + 1) + 1 = z - k /\ (z - 1) - k + 1 = z - k
  BY ONLY z \in Nat
<1>9. SUFFICES ASSUME NEW r \in 0 .. h - 1, NEW c \in 0 .. n - 1, NEW k \in 1 .. z - 1,
                      Pos(r, c) + k = Pos(w.y, w.x)
               PROVE  w.swap[<<r, c>>] = m[(z - 1) - k + 1]
  BY ONLY <1>1, <1>2, <1>9, Len(m) = z - 1 DEF Shows
<1>10. PICK a \in Nat : a = Pos(r, c)
  BY ONLY <1>6, r \in 0 .. h - 1, c \in 0 .. n - 1
<1>11. k \in Nat /\ k >= 1
  BY ONLY k \in 1 .. z - 1, z \in Nat
<1>12. CASE t.x = 0 /\ t.y = 0 /\ w = t
  <2>1. Pos(w.y, w.x) = 0
    BY <1>12, <1>2 DEF Pos
  <2> QED BY ONLY <2>1, <1>9, <1>10, <1>11, a \in Nat
<1>13. CASE /\ \/ t.x > 0 /\ w.x = t.x - 1 /\ w.y = t.y
               \/ t.x = 0 /\ t.y > 0 /\ w.x = Width - 1 /\ w.y = t.y - 1
            /\ w.swap = [t.swap EXCEPT ![<<w.y, w.x>>] = Blank]
  <2>1. Pos(y, x) = Pos(w.y, w.x) + 1
    <3>1. CASE t.x > 0 /\ w.x = t.x - 1 /\ w.y = t.y
      <4>1. x - 1 \in Nat /\ (x - 1) + 1 = x /\ y \in Nat
        BY ONLY <1>4, <3>1, n \in Nat, h \in Nat, x \in 0 .. n, y \in 0 .. h - 1
      <4>2. Pos(y, (x - 1) + 1) = Pos(y, x - 1) + 1
        BY ONLY <4>1, PosFacts
      <4> QED BY ONLY <4>1, <4>2, <3>1, <1>4
    <3>2. CASE t.x = 0 /\ t.y > 0 /\ w.x = Width - 1 /\ w.y = t.y - 1
      <4>1. y - 1 \in Nat /\ (y - 1) + 1 = y /\ n - 1 \in Nat /\ (n - 1) + 1 = n
        BY ONLY <1>2, <1>4, <3>2, n \in Nat, h \in Nat, y \in 0 .. h - 1
      <4>2. Pos(y - 1, (n - 1) + 1) = Pos(y - 1, n - 1) + 1
        BY ONLY <4>1, PosFacts
      <4>3. Pos(y - 1, Width) = Pos((y - 1) + 1, 0)
        BY ONLY <4>1, PosFacts
      <4> QED BY ONLY <4>1, <4>2, <4>3, <3>2, <1>2, <1>4
    <3> QED BY ONLY <3>1, <3>2, <1>13
  <2>2. a + (k + 1) = Pos(y, x)
    <3>1. PICK e : e = Pos(w.y, w.x)
      OBVIOUS
    <3>2. a + k = e /\ Pos(y, x) = e + 1
      BY ONLY <3>1, <2>1, <1>9, <1>10
    <3> QED BY ONLY <3>2, <1>11, a \in Nat
  <2>3. t.swap[<<r, c>>] = l[z - k]
    <3>1. k + 1 \in 1 .. z /\ z - (k + 1) + 1 = z - k
      BY ONLY <1>8, k \in 1 .. z - 1
    <3>2. t.swap[<<r, c>>] = l[z - (k + 1) + 1]
      BY ONLY <3>1, <2>2, <1>7, <1>10, r \in 0 .. h - 1, c \in 0 .. n - 1
    <3> QED BY ONLY <3>1, <3>2
  <2>4. <<r, c>> # <<w.y, w.x>>
    <3>1. SUFFICES ASSUME r = w.y, c = w.x PROVE FALSE
      OBVIOUS
    <3>2. a + k = a
      BY ONLY <3>1, <1>9, <1>10
    <3> QED BY ONLY <3>2, <1>11, a \in Nat
  <2>5. w.swap[<<r, c>>] = t.swap[<<r, c>>]
    <3>1. <<r, c>> \in Cells
      BY ONLY <1>6, r \in 0 .. h - 1, c \in 0 .. n - 1
    <3> QED BY ONLY <3>1, <2>4, <1>5, <1>13
  <2>6. m[(z - 1) - k + 1] = l[z - k]
    <3>1. z - k \in 1 .. z - 1 /\ (z - 1) - k + 1 = z - k
      BY ONLY <1>8, k \in 1 .. z - 1
    <3>2. m[z - k] = l[z - k]
      BY ONLY <3>1, \A i \in 1 .. z - 1 : m[i] = l[i]
    <3> QED BY ONLY <3>1, <3>2
  <2> QED BY ONLY <2>3, <2>5, <2>6
<1> QED BY ONLY <1>3, <1>12, <1>13, BackFacts, w = term_back(t)

\* What is shown to the framebuffer does not matter.
LEMMA ShowsSame ==
  ASSUME NEW t, NEW l, Shows(t, l), NEW w, w.x = t.x, w.y = t.y, w.swap = t.swap
  PROVE  Shows(w, l)
BY DEF Shows

LEMMA ShowsNone ==
  ASSUME NEW t
  PROVE  Shows(t, <<>>)
BY DEF Shows

\* Steps that set g, line and plain.
LEMMA EchoSet ==
  ASSUME NEW w, NEW m, g' = w, line' = m, plain' \in BOOLEAN, plain' => Shows(w, m)
  PROVE  EchoInv'
BY DEF EchoInv, Shows, Pos

\* Steps that draw text in between.
LEMMA EchoDrawn ==
  ASSUME EchoInv, Drawn, line' = line
  PROVE  EchoInv'
<1>1. PICK w : w = g'
  OBVIOUS
<1>2. plain' \in BOOLEAN /\ (plain' => line = <<>>)
  BY DEF EchoInv, Drawn
<1>3. plain' => Shows(w, line)
  <2>1. Shows(w, <<>>)
    BY ShowsNone
  <2> QED BY <2>1, <1>2
<1> QED BY <1>1, <1>2, <1>3, EchoSet

LEMMA EchoSame ==
  ASSUME EchoInv, UNCHANGED <<g, line, plain>>
  PROVE  EchoInv'
BY DEF EchoInv, Shows, Pos

LEMMA EchoStep ==
  ASSUME RingInv, ScreenInv, EchoInv, Next
  PROVE  EchoInv'
<1>1. CASE \E key \in keys :
             /\ (Press(key) \/ Release(key)) /\ ~halted
             /\ UNCHANGED <<texts, g, color, ttyVars, readVars, logger, plain, halted>>
  BY <1>1, EchoSame DEF ttyVars
<1>2. CASE \E text \in texts :
             kprint_write(text) \/ \E err \in BOOLEAN : ttyfs_write(text, err)
  BY <1>2, EchoDrawn DEF kprint_write, ttyfs_write, ttyVars
<1>3. CASE keyboard_callback
  <2>1. line' = line /\ (Drawn \/ UNCHANGED <<g, plain>>)
    BY <1>3 DEF keyboard_callback, ttyVars
  <2> QED BY <2>1, EchoDrawn, EchoSame
<1>4. CASE kprint_push \/ kprint_pop
  BY <1>4, EchoSame DEF kprint_push, kprint_pop, ttyVars
<1>5. CASE kprint_flush
  <2>1. PICK t : t = g /\ Good(t)
    BY DEF ScreenInv
  <2>2. PICK w : w = term_flush(t)
    OBVIOUS
  <2>3. t \in TermRec
    BY <2>1 DEF Good
  <2>4. w.x = t.x /\ w.y = t.y /\ w.swap = t.swap
    BY ONLY <2>2, <2>3 DEF term_flush, TermRec
  <2>5. PICK l : l = line
    OBVIOUS
  <2>6. plain \in BOOLEAN /\ (plain => Shows(t, l))
    BY <2>1, <2>5 DEF EchoInv
  <2>7. plain => Shows(w, l)
    BY ONLY <2>4, <2>6, ShowsSame
  <2>8. g' = w /\ line' = l /\ plain' = plain
    BY <2>1, <2>2, <2>5, <1>5 DEF kprint_flush, ttyVars
  <2> QED BY <2>6, <2>7, <2>8, EchoSet
<1>6. CASE (\E n \in Lens : ttyfs_read(n)) \/ subscribe \/ skip_key
  BY <1>6, EchoSame DEF ttyfs_read, subscribe, skip_key, ttyVars
<1>7. CASE read_line
  <2>1. line' = <<>> /\ plain' = TRUE
    BY <1>7 DEF read_line
  <2>2. PICK w : w = g'
    OBVIOUS
  <2> QED BY <2>1, <2>2, ShowsNone, EchoSet
<1>8. CASE \E ch \in {"a", "A", "b", "B", Tab, Backspace} : echo_char(ch)
  <2>1. PICK ch \in {"a", "A", "b", "B", Tab, Backspace} : echo_char(ch)
    BY <1>8
  <2>2. PICK t : t = g /\ Good(t)
    BY DEF ScreenInv
  <2>3. PICK l \in Seq(Glyphs) : l = line
    BY DEF RingInv
  <2>4. plain \in BOOLEAN /\ (plain => Shows(t, l))
    BY <2>2, <2>3 DEF EchoInv
  <2>5. CASE ch # Backspace /\ EchoChar(ch)
    <3>1. ch \in Typed /\ ch # Newline
      BY <2>5 DEF Typed, Tab, Newline
    <3>2. ch \in Glyphs
      BY <3>1 DEF Glyphs
    <3>3. PICK d : d = PutCell(t, ch)
      OBVIOUS
    <3>4. PICK w : w = term_refresh(d)
      OBVIOUS
    <3>5. PICK m : m = Append(l, ch)
      OBVIOUS
    <3>6. line' = m /\ plain' = (plain /\ ch # Tab)
      BY <2>3, <2>5, <3>5 DEF EchoChar
    <3>7. CASE ~plain'
      <4>1. PICK v : v = g'
        OBVIOUS
      <4> QED BY <4>1, <3>6, <3>7, EchoSet
    <3>8. CASE plain'
      <4>1. plain /\ ch # Tab
        BY <3>6, <3>8
      <4>2. Good(d)
        <5>1. d = term_putch(t, ch)
          BY <4>1, <3>3 DEF term_putch
        <5> QED BY <5>1, <3>2, <2>2, PutchKeeps
      <4>3. Shows(d, m)
        BY ONLY <4>1, <3>1, <3>2, <3>3, <3>5, <2>2, <2>4, l \in Seq(Glyphs), ShowsChar
      <4>4. w.x = d.x /\ w.y = d.y /\ w.swap = d.swap
        <5>1. d \in TermRec /\ d.y < Height
          BY <4>2 DEF Good
        <5> QED BY ONLY <5>1, <3>4, RefreshFacts
      <4>5. Shows(w, m)
        BY ONLY <4>3, <4>4, ShowsSame
      <4>6. g' = w
        BY <4>1, <3>3, <3>4, <2>2, <2>5 DEF EchoChar, term_putch
      <4> QED BY <4>5, <4>6, <3>6, <3>8, EchoSet
    <3> QED BY <3>7, <3>8
  <2>6. CASE UNCHANGED <<ttyVars, g, plain>>
    BY <2>6, EchoSame DEF ttyVars
  <2>7. CASE EchoBack
    <3>1. CASE isize > 0
      <4>1. PICK z \in Nat : z = isize /\ z >= 1 /\ z = Len(l)
        BY <3>1, <2>3 DEF RingInv
      <4>2. PICK m : m = SubSeq(l, 1, z - 1)
        OBVIOUS
      <4>3. Len(m) = z - 1 /\ \A i \in 1 .. z - 1 : m[i] = l[i]
        BY <4>1, <4>2
      <4>4. PICK b : b = term_back(t)
        OBVIOUS
      <4>5. PICK w : w = term_refresh(b)
        OBVIOUS
      <4>6. g' = w /\ line' = m /\ plain' = (plain \/ z = 1)
        BY <4>1, <4>2, <4>4, <4>5, <3>1, <2>2, <2>3, <2>7 DEF EchoBack, Front
      <4>7. CASE z = 1
        <5>1. m = <<>>
          BY <4>2, <4>7
        <5>2. Shows(w, m)
          BY <5>1, ShowsNone
        <5> QED BY <5>2, <4>6, <4>7, EchoSet
      <4>8. CASE z # 1
        <5>1. ASSUME plain PROVE Shows(w, m)
          <6>1. Shows(b, m)
            BY ONLY <5>1, <4>1, <4>3, <4>4, <2>2, <2>4, ShowsBack
          <6>2. b \in TermRec /\ b.y < Height
            <7>1. t \in TermRec /\ t.y < Height
              BY <2>2 DEF Good
            <7>2. PICK h \in Nat : h = Height
              BY ScreenSize
            <7>3. t.y \in 0 .. h
              BY <7>1, <7>2, TermFields
            <7>4. b = t \/ (b \in TermRec /\ (b.y = t.y \/ b.y = t.y - 1))
              BY ONLY <7>1, <4>4, BackFacts
            <7>5. t.y - 1 < Height
              BY ONLY <7>1, <7>2, <7>3
            <7> QED BY ONLY <7>1, <7>4, <7>5
          <6>3. w.x = b.x /\ w.y = b.y /\ w.swap = b.swap
            BY ONLY <6>2, <4>5, RefreshFacts
          <6> QED BY ONLY <6>1, <6>3, ShowsSame
        <5>2. plain' = plain
          BY <4>6, <4>8, <2>4
        <5> QED BY <5>1, <5>2, <4>6, <2>4, EchoSet
      <4> QED BY <4>7, <4>8
    <3>2. CASE ~(isize > 0)
      <4>1. PICK w : w = term_refresh(t)
        OBVIOUS
      <4>2. g' = w /\ line' = l /\ plain' = plain
        BY <4>1, <3>2, <2>2, <2>3, <2>7 DEF EchoBack, ttyVars
      <4>3. w.x = t.x /\ w.y = t.y /\ w.swap = t.swap
        <5>1. t \in TermRec /\ t.y < Height
          BY <2>2 DEF Good
        <5> QED BY ONLY <5>1, <4>1, RefreshFacts
      <4>4. plain => Shows(w, l)
        BY ONLY <4>3, <2>4, ShowsSame
      <4> QED BY <4>2, <4>4, <2>4, EchoSet
    <3> QED BY <3>1, <3>2
  <2> QED BY <2>1, <2>5, <2>6, <2>7 DEF echo_char
<1> QED BY <1>1, <1>2, <1>3, <1>4, <1>5, <1>6, <1>7, <1>8 DEF Next

\* The cells before the cursor, by their number.
LEMMA CellOf ==
  ASSUME NEW p \in Nat, NEW y \in Nat, NEW x \in 0 .. Width, y < Height,
         NEW k \in Nat, k >= 1, p + k = Pos(y, x)
  PROVE  /\ p \div Width \in 0 .. Height - 1 /\ p % Width \in 0 .. Width - 1
         /\ Pos(p \div Width, p % Width) = p
<1>1. PICK n \in Nat : n = Width /\ n >= 2
  BY ScreenSize
<1>2. PICK h \in Nat : h = Height /\ h >= 2
  BY ScreenSize
<1>3. PICK q \in Nat, m \in 0 .. n - 1 : q = p \div n /\ m = p % n /\ p = q * n + m
  BY ONLY <1>1, p \in Nat, n \in Nat
<1>4. q < h
  <2>1. SUFFICES ASSUME h <= q PROVE FALSE
    OBVIOUS
  <2>2. y + 1 <= h /\ y + 1 \in Nat
    BY ONLY <1>2, y \in Nat, h \in Nat, y < Height
  <2>3. (y + 1) * n <= h * n /\ (y + 1) * n \in Nat /\ h * n <= q * n /\ h * n \in Nat
    BY ONLY <2>1, <2>2, MulMono, n \in Nat, h \in Nat, q \in Nat
  <2>4. (y + 1) * n = y * n + n /\ y * n \in Nat /\ q * n \in Nat
    BY ONLY y \in Nat, n \in Nat, q \in Nat
  <2>5. p + k = y * n + x /\ x \in 0 .. n
    BY <1>1 DEF Pos
  <2> QED BY ONLY <2>3, <2>4, <2>5, <1>3, p \in Nat, k \in Nat, k >= 1, n \in Nat, m \in 0 .. n - 1
<1> QED BY <1>1, <1>2, <1>3, <1>4 DEF Pos

\* What is on the screen before the cursor is the line in the buffer: the end of
\* EchoMatchesLine, from the same fact about each cell.
LEMMA ShowsIsEcho ==
  ASSUME RingInv, ScreenInv, EchoInv
  PROVE  EchoMatchesLine
<1>1. SUFFICES ASSUME plain, NEW k \in 1 .. MinOf(Len(line), Before)
               PROVE  g.swap[CellBack(k)] = line[Len(line) - k + 1]
  BY DEF EchoMatchesLine
<1>2. PICK y \in Nat, x \in 0 .. Width : g.y = y /\ g.x = x /\ y < Height
  <2>1. g \in TermRec /\ g.y < Height
    BY DEF ScreenInv, Good
  <2>2. g.y \in 0 .. Height /\ g.x \in 0 .. Width
    BY <2>1, TermFields
  <2> QED BY <2>1, <2>2, ScreenSize
<1>3. PICK e \in Nat : e = Before /\ e = Pos(y, x)
  <2>1. x \in Nat
    BY ScreenSize
  <2> QED BY <2>1, <1>2, PosFacts DEF Before, Pos
<1>4. PICK z \in Nat : z = Len(line)
  BY DEF RingInv
<1>5. k \in 1 .. z /\ k \in Nat /\ k >= 1 /\ e - k \in Nat /\ (e - k) + k = e
  <2>1. k \in 1 .. MinOf(z, e)
    BY <1>1, <1>3, <1>4
  <2> QED BY ONLY <2>1, z \in Nat, e \in Nat DEF MinOf
<1>6. PICK p \in Nat : p = e - k /\ p + k = Pos(y, x)
  BY <1>3, <1>5
<1>7. /\ p \div Width \in 0 .. Height - 1 /\ p % Width \in 0 .. Width - 1
      /\ Pos(p \div Width, p % Width) = p
  <2>1. y < Height /\ k \in Nat /\ k >= 1 /\ p + k = Pos(y, x)
    BY ONLY <1>2, <1>5, <1>6
  <2> QED BY ONLY <2>1, CellOf, p \in Nat, y \in Nat, x \in 0 .. Width, Zenon
<1>8. CellBack(k) = <<p \div Width, p % Width>>
  BY ONLY <1>3, <1>6 DEF CellBack
<1>9. Shows(g, line)
  BY <1>1 DEF EchoInv
<1>10. PICK r \in 0 .. Height - 1, c \in 0 .. Width - 1 : r = p \div Width /\ c = p % Width
  BY ONLY <1>7
<1>11. Pos(r, c) + k = Pos(g.y, g.x)
  BY ONLY <1>2, <1>6, <1>7, <1>10
<1>12. k \in 1 .. Len(line)
  BY ONLY <1>4, <1>5
<1>13. g.swap[<<r, c>>] = line[Len(line) - k + 1]
  BY ONLY <1>9, <1>11, <1>12, r \in 0 .. Height - 1, c \in 0 .. Width - 1 DEF Shows
<1> QED BY ONLY <1>8, <1>10, <1>13

\* What ttyfs echoes stays in step with the line it keeps: on a screen of any
\* size, the cells before the cursor show the line of the buffer, after any
\* typing and taking back, wrapping and scrolling.
THEOREM TtyEchoMatchesLine == Spec => []EchoMatchesLine
<1>1. Init => EchoInv
  <2>1. SUFFICES ASSUME Init PROVE EchoInv
    OBVIOUS
  <2>2. line = <<>> /\ plain = TRUE
    BY <2>1 DEF Init
  <2> QED BY <2>2, ShowsNone DEF EchoInv
<1>2. RingInv /\ ScreenInv /\ EchoInv /\ [Next]_vars => EchoInv'
  <2>1. SUFFICES ASSUME RingInv, ScreenInv, EchoInv, [Next]_vars PROVE EchoInv'
    OBVIOUS
  <2>2. CASE Next
    BY <2>1, <2>2, EchoStep
  <2>3. CASE UNCHANGED vars
    BY <2>1, <2>3, EchoSame DEF vars, ttyVars
  <2> QED BY <2>1, <2>2, <2>3
<1>3. RingInv /\ ScreenInv /\ EchoInv => EchoMatchesLine
  BY ShowsIsEcho
<1> QED BY <1>1, <1>2, <1>3, TtyRing, TtyScreen, PTL DEF Spec

-----------------------------------------------------------------------------
(* The screen.                                                             *)

\* A cell at the cursor or behind it has a number that is not below the cursor's.
LEMMA StaleBehind ==
  ASSUME NEW t, Good(t), NEW c \in Cells, c[1] > t.y \/ (c[1] = t.y /\ c[2] >= t.x)
  PROVE  c[1] * Width + c[2] >= t.y * Width + t.x
<1>1. PICK n \in Nat : n = Width /\ n >= 2
  BY ScreenSize
<1>2. t.y \in Nat /\ t.x \in 0 .. Width /\ t.x \in Nat
  <2>1. t \in TermRec
    BY DEF Good
  <2>2. t.y \in 0 .. Height /\ t.x \in 0 .. Width
    BY <2>1, TermFields
  <2> QED BY <2>2, ScreenSize
<1>3. c[1] \in Nat /\ c[2] \in 0 .. Width - 1 /\ c[2] \in Nat
  BY ScreenSize DEF Cells
<1>4. PICK r \in Nat, q \in Nat : r = c[1] /\ q = c[2]
  BY ONLY <1>3
<1>5. PICK y \in Nat, x \in Nat : y = t.y /\ x = t.x
  BY ONLY <1>2
<1>6. r * n \in Nat /\ y * n \in Nat
  BY ONLY r \in Nat, y \in Nat, n \in Nat
<1>7. CASE r = y /\ q >= x
  <2>1. r * n + q >= y * n + x
    BY ONLY <1>6, <1>7, q \in Nat, x \in Nat
  <2> QED BY ONLY <2>1, <1>1, <1>4, <1>5
<1>8. CASE r > y
  <2>1. y + 1 <= r /\ y + 1 \in Nat /\ (y + 1) * n = y * n + n
    BY ONLY <1>8, r \in Nat, y \in Nat, n \in Nat
  <2>2. (y + 1) * n <= r * n
    BY ONLY <2>1, MulMono, n \in Nat, r \in Nat
  <2>3. x <= n
    BY ONLY <1>1, <1>2, <1>5, n \in Nat
  <2>4. r * n + q >= y * n + x
    BY ONLY <2>1, <2>2, <2>3, <1>6, q \in Nat, x \in Nat, n \in Nat
  <2> QED BY ONLY <2>4, <1>1, <1>4, <1>5
<1> QED BY <1>4, <1>5, <1>7, <1>8

\* On a screen of any size, with any texts written and logged: what is drawn is on
\* the framebuffer, but for cells a backspace has erased at the cursor or behind
\* it.
THEOREM TtyOnlyErasedStale == Spec => []OnlyErasedStale
<1>1. ASSUME ScreenInv PROVE OnlyErasedStale
  <2>1. SUFFICES ASSUME logger \in {"no", "pushed"}, NEW c \in Cells, g.swap[c] # g.shown[c]
                 PROVE  g.swap[c] = Blank /\ c[1] * Width + c[2] >= g.y * Width + g.x
    BY DEF OnlyErasedStale, Before
  <2>2. PICK t : t = g /\ Good(t) /\ StaleOK(t)
    BY <1>1, <2>1 DEF ScreenInv
  <2>3. t.swap[c] = Blank /\ (c[1] > t.y \/ (c[1] = t.y /\ c[2] >= t.x))
    BY <2>1, <2>2 DEF StaleOK
  <2>4. c[1] * Width + c[2] >= t.y * Width + t.x
    BY ONLY <2>2, <2>3, StaleBehind, c \in Cells
  <2> QED BY ONLY <2>2, <2>3, <2>4
<1> QED BY <1>1, TtyScreen, PTL

-----------------------------------------------------------------------------
(* The modifiers.                                                          *)

\* A key has the keycode of a modifier if it is that modifier.
LEMMA KeyNames ==
  ASSUME NEW ks, IsKeyboard(ks), NEW key \in ks, NEW m \in Modifiers
  PROVE  Keycode(key.code, key.ext) = m <=> key.name = m
<1>1. PICK code : code = Keycode(key.code, key.ext)
  OBVIOUS
<1>2. code = key.name \/ {code, key.name} \cap Modifiers = {}
  BY <1>1 DEF IsKeyboard
<1> QED BY ONLY <1>1, <1>2, m \in Modifiers

LEMMA ShortSeqs ==
  ASSUME NEW S, NEW a \in S, NEW b \in S
  PROVE  /\ <<a>> \in Seq(S) /\ Len(<<a>>) = 1 /\ <<a>>[1] = a
         /\ <<a, b>> \in Seq(S) /\ Len(<<a, b>>) = 2 /\ <<a, b>>[1] = a /\ <<a, b>>[2] = b
         /\ \A s \in Seq(S) : Len(s) = 0 => s = <<>>
OBVIOUS

\* next is bs, with e before it, and behind it the bytes of a key, up to z.
Sent(next, bs, n, z, e, key, up) ==
  /\ \A i \in 1 .. n : next[i] = bs[i]
  /\ (z = n + 1 /\ ~key.ext) \/ (z = n + 2 /\ key.ext /\ next[n + 1] = Prefix)
  /\ next[z] = [code |-> key.code, release |-> up]
  /\ next[z] # Prefix /\ Prefixed(next, e, z) = key.ext

\* The bytes of a key behind those that wait.
LEMMA KeyBytes ==
  ASSUME NEW ks, IsKeyboard(ks), NEW key \in ks, NEW up \in BOOLEAN,
         NEW bs \in Seq(Byte(ks)), NEW n \in Nat, n = Len(bs), NEW e \in BOOLEAN, Complete(bs, e),
         NEW next, next = bs \o BytesOf(key, up)
  PROVE  next \in Seq(Byte(ks)) /\ Sent(next, bs, n, Len(next), e, key, up)
<1>1. key.code # "e0" /\ key.ext \in BOOLEAN
  BY DEF IsKeyboard
<1>2. PICK last : last = [code |-> key.code, release |-> up]
  OBVIOUS
<1>3. last \in Byte(ks) /\ last # Prefix
  BY ONLY <1>1, <1>2, up \in BOOLEAN, key \in ks DEF Byte, Prefix
<1>4. Prefix \in Byte(ks)
  BY DEF Byte, Prefix
<1>5. CASE ~key.ext
  <2>1. PICK v \in Seq(Byte(ks)) : v = <<last>> /\ Len(v) = 1 /\ v[1] = last
    BY ONLY <1>3, ShortSeqs, Zenon
  <2>2. next = bs \o v
    BY <2>1, <1>2, <1>5 DEF BytesOf
  <2>3. /\ next \in Seq(Byte(ks)) /\ Len(next) = n + 1
        /\ \A i \in 1 .. n : next[i] = bs[i]
        /\ \A i \in 1 .. 1 : next[n + i] = v[i]
    BY ONLY <2>1, <2>2, Joined, bs \in Seq(Byte(ks)), n \in Nat, n = Len(bs), v \in Seq(Byte(ks))
  <2>4. next[n + 1] = last
    BY ONLY <2>1, <2>3
  <2>5. Prefixed(next, e, n + 1) = FALSE
    <3>1. CASE n = 0
      <4>1. bs = <<>>
        BY ONLY <3>1, <1>3, ShortSeqs, n = Len(bs), bs \in Seq(Byte(ks))
      <4>2. n + 1 = 1
        BY ONLY <3>1
      <4> QED BY ONLY <4>1, <4>2, Complete(bs, e), e \in BOOLEAN DEF Prefixed, Complete
    <3>2. CASE n # 0
      <4>1. n \in 1 .. n /\ n + 1 # 1 /\ (n + 1) - 1 = n
        BY ONLY <3>2, n \in Nat
      <4>2. bs # <<>>
        BY <3>2
      <4>3. next[n] # Prefix
        BY <4>1, <4>2, <2>3 DEF Complete
      <4> QED BY ONLY <4>1, <4>3 DEF Prefixed
    <3> QED BY <3>1, <3>2
  <2> QED BY ONLY <2>3, <2>4, <2>5, <1>1, <1>2, <1>3, <1>5 DEF Sent
<1>6. CASE key.ext
  <2>1. PICK v \in Seq(Byte(ks)) : /\ v = <<Prefix, last>> /\ Len(v) = 2
                                  /\ v[1] = Prefix /\ v[2] = last
    <3>1. last \in Byte(ks)
      BY ONLY <1>3
    <3>2. /\ <<Prefix, last>> \in Seq(Byte(ks)) /\ Len(<<Prefix, last>>) = 2
          /\ <<Prefix, last>>[1] = Prefix /\ <<Prefix, last>>[2] = last
      BY ONLY <3>1, <1>4, ShortSeqs, Zenon
    <3> QED BY ONLY <3>2, Zenon
  <2>2. next = bs \o v
    BY <2>1, <1>2, <1>6 DEF BytesOf
  <2>3. /\ next \in Seq(Byte(ks)) /\ Len(next) = n + 2
        /\ \A i \in 1 .. n : next[i] = bs[i]
        /\ \A i \in 1 .. 2 : next[n + i] = v[i]
    BY ONLY <2>1, <2>2, Joined, bs \in Seq(Byte(ks)), n \in Nat, n = Len(bs), v \in Seq(Byte(ks))
  <2>4. next[n + 1] = Prefix /\ next[n + 2] = last
    BY ONLY <2>1, <2>3
  <2>5. n + 2 # 1 /\ (n + 2) - 1 = n + 1
    BY ONLY n \in Nat
  <2>6. Prefixed(next, e, n + 2) = TRUE
    BY ONLY <2>4, <2>5 DEF Prefixed
  <2> QED BY ONLY <2>3, <2>4, <2>6, <1>1, <1>2, <1>3, <1>6 DEF Sent
<1> QED BY <1>1, <1>5, <1>6

\* Of the keys h, the key that goes up or down leaves h2, as far as m goes.
Turned(h, h2, key, up, m) == Down(h2, m) <=> IF key.name = m THEN ~up ELSE Down(h, m)

\* A key goes down or up: its bytes are the last ones about it, and say nothing
\* about the others.
LEMMA ToldKey ==
  ASSUME NEW ks, IsKeyboard(ks), NEW key \in ks, NEW up \in BOOLEAN, NEW m \in Modifiers,
         NEW bs, NEW n \in Nat, n = Len(bs), NEW e, NEW next, NEW z, z = Len(next),
         Sent(next, bs, n, z, e, key, up),
         NEW k, NEW h, NEW h2, Told(bs, e, k, h, m), Turned(h, h2, key, up, m)
  PROVE  Told(next, e, k, h2, m)
<1>1. n = Len(bs)
  OBVIOUS
<1>2. z = Len(next)
  OBVIOUS
<1>3. /\ \A i \in 1 .. n : next[i] = bs[i]
      /\ (z = n + 1 /\ ~key.ext) \/ (z = n + 2 /\ key.ext /\ next[n + 1] = Prefix)
      /\ next[z] = [code |-> key.code, release |-> up]
      /\ next[z] # Prefix /\ Prefixed(next, e, z) = key.ext
  BY ONLY Sent(next, bs, n, z, e, key, up) DEF Sent
<1>4. ASSUME NEW i \in 1 .. n PROVE Sets(next, e, i, m) <=> Sets(bs, e, i, m)
  <2>1. next[i] = bs[i]
    BY ONLY <1>3, i \in 1 .. n
  <2>2. Prefixed(next, e, i) = Prefixed(bs, e, i)
    <3>1. CASE i = 1
      BY ONLY <3>1 DEF Prefixed
    <3>2. CASE i # 1
      <4>1. i - 1 \in 1 .. n
        BY ONLY <3>2, i \in 1 .. n, n \in Nat
      <4>2. next[i - 1] = bs[i - 1]
        BY ONLY <4>1, <1>3
      <4> QED BY ONLY <4>2, <3>2 DEF Prefixed
    <3> QED BY ONLY <3>1, <3>2
  <2> QED BY ONLY <2>1, <2>2 DEF Sets
<1>5. Sets(next, e, z, m) <=> key.name = m
  <2>1. next[z].code = key.code
    BY ONLY <1>3
  <2>2. Keycode(key.code, key.ext) = m <=> key.name = m
    BY ONLY KeyNames, IsKeyboard(ks), key \in ks, m \in Modifiers
  <2> QED BY ONLY <2>1, <2>2, <1>3 DEF Sets
<1>6. \A i \in 1 .. z : i \in 1 .. n \/ i = z \/ ~Sets(next, e, i, m)
  <2>1. TAKE i \in 1 .. z
  <2>2. i \in 1 .. n \/ i = z \/ (i = n + 1 /\ next[n + 1] = Prefix)
    BY ONLY <1>3, i \in 1 .. z, n \in Nat
  <2> QED BY ONLY <2>2 DEF Sets
<1>7. z \in Nat /\ z > n /\ z \in 1 .. z /\ \A i \in 1 .. n : i \in 1 .. z
  BY ONLY <1>3, n \in Nat
<1>8. CASE key.name = m
  <2>1. Sets(next, e, z, m) /\ next[z].release = up /\ (Down(h2, m) <=> ~up)
    BY ONLY <1>3, <1>5, <1>8, Turned(h, h2, key, up, m) DEF Turned
  <2>2. \A j \in 1 .. z : j <= z
    BY ONLY <1>7
  <2>3. next[z].release <=> ~Down(h2, m)
    BY ONLY <2>1, up \in BOOLEAN
  <2> QED BY ONLY <2>1, <2>2, <2>3, <1>2, <1>7 DEF Told
<1>9. CASE key.name # m
  <2>1. ~Sets(next, e, z, m) /\ (Down(h2, m) <=> Down(h, m))
    BY ONLY <1>5, <1>9, Turned(h, h2, key, up, m) DEF Turned
  <2>2. CASE (\A i \in 1 .. n : ~Sets(bs, e, i, m)) /\ (m \in k <=> Down(h, m))
    <3>1. \A i \in 1 .. z : ~Sets(next, e, i, m)
      BY ONLY <2>1, <2>2, <1>4, <1>6
    <3> QED BY ONLY <3>1, <2>1, <2>2, <1>2 DEF Told
  <2>3. CASE \E i \in 1 .. n : /\ Sets(bs, e, i, m)
                               /\ \A j \in 1 .. n : Sets(bs, e, j, m) => j <= i
                               /\ bs[i].release <=> ~Down(h, m)
    <3>1. PICK i \in 1 .. n : /\ Sets(bs, e, i, m)
                              /\ \A j \in 1 .. n : Sets(bs, e, j, m) => j <= i
                              /\ bs[i].release <=> ~Down(h, m)
      BY ONLY <2>3
    <3>2. i \in 1 .. z /\ Sets(next, e, i, m) /\ next[i] = bs[i]
      BY ONLY <3>1, <1>3, <1>4, <1>7, i \in 1 .. n
    <3>3. \A j \in 1 .. z : Sets(next, e, j, m) => j <= i
      BY ONLY <3>1, <2>1, <1>4, <1>6
    <3>4. next[i].release <=> ~Down(h2, m)
      BY ONLY <3>1, <3>2, <2>1
    <3> QED BY ONLY <3>2, <3>3, <3>4, <1>2 DEF Told
  <2> QED BY ONLY <2>2, <2>3, <1>1, Told(bs, e, k, h, m) DEF Told
<1> QED BY ONLY <1>8, <1>9

\* The byte that was read has changed the state k to k2 as far as m goes.
Took(bs, e, later, k, k2, m) ==
  /\ later = (bs[1] = Prefix)
  /\ m \in k2 <=> IF Sets(bs, e, 1, m) THEN ~bs[1].release ELSE m \in k

\* The handler reads a byte of bs: what it tells about m goes to its keystate.
LEMMA ToldRead ==
  ASSUME NEW S, NEW bs \in Seq(S), NEW n \in Nat, n = Len(bs), n >= 1, NEW e \in BOOLEAN,
         NEW m, NEW k, NEW h, NEW k2, Told(bs, e, k, h, m),
         NEW rest \in Seq(S), Len(rest) = n - 1, \A i \in 1 .. n - 1 : rest[i] = bs[i + 1],
         NEW later \in BOOLEAN, Took(bs, e, later, k, k2, m)
  PROVE  Told(rest, later, k2, h, m)
<1>1. ASSUME NEW i \in 1 .. n - 1 PROVE Sets(rest, later, i, m) <=> Sets(bs, e, i + 1, m)
  <2>1. rest[i] = bs[i + 1] /\ i + 1 # 1 /\ (i + 1) - 1 = i
    BY ONLY i \in 1 .. n - 1, n \in Nat, \A j \in 1 .. n - 1 : rest[j] = bs[j + 1]
  <2>2. Prefixed(rest, later, i) = Prefixed(bs, e, i + 1)
    <3>1. Prefixed(bs, e, i + 1) = (bs[i] = Prefix)
      BY ONLY <2>1 DEF Prefixed
    <3>2. CASE i = 1
      BY ONLY <3>1, <3>2, Took(bs, e, later, k, k2, m) DEF Prefixed, Took
    <3>3. CASE i # 1
      <4>1. i - 1 \in 1 .. n - 1 /\ (i - 1) + 1 = i
        BY ONLY <3>3, i \in 1 .. n - 1, n \in Nat
      <4>2. rest[i - 1] = bs[i]
        BY ONLY <4>1, \A j \in 1 .. n - 1 : rest[j] = bs[j + 1]
      <4> QED BY ONLY <4>2, <3>1, <3>3 DEF Prefixed
    <3> QED BY ONLY <3>2, <3>3
  <2> QED BY ONLY <2>1, <2>2 DEF Sets
<1>2. \A i \in 1 .. n - 1 : i + 1 \in 1 .. n
  BY ONLY n \in Nat
<1>3. 1 \in 1 .. n
  BY ONLY n \in Nat, n >= 1
<1>4. CASE (\A i \in 1 .. n : ~Sets(bs, e, i, m)) /\ (m \in k <=> Down(h, m))
  <2>1. \A i \in 1 .. n - 1 : ~Sets(rest, later, i, m)
    BY ONLY <1>1, <1>2, <1>4
  <2>2. m \in k2 <=> m \in k
    BY ONLY <1>3, <1>4, Took(bs, e, later, k, k2, m) DEF Took
  <2> QED BY ONLY <2>1, <2>2, <1>4, Len(rest) = n - 1 DEF Told
<1>5. CASE \E i \in 1 .. n : /\ Sets(bs, e, i, m)
                             /\ \A j \in 1 .. n : Sets(bs, e, j, m) => j <= i
                             /\ bs[i].release <=> ~Down(h, m)
  <2>1. PICK i \in 1 .. n : /\ Sets(bs, e, i, m)
                            /\ \A j \in 1 .. n : Sets(bs, e, j, m) => j <= i
                            /\ bs[i].release <=> ~Down(h, m)
    BY ONLY <1>5
  <2>2. CASE i = 1
    <3>1. \A j \in 1 .. n - 1 : ~Sets(rest, later, j, m)
      <4>1. TAKE j \in 1 .. n - 1
      <4>2. j + 1 \in 1 .. n /\ ~(j + 1 <= i)
        BY ONLY <2>2, j \in 1 .. n - 1, n \in Nat
      <4> QED BY ONLY <4>2, <2>1, <1>1, j \in 1 .. n - 1
    <3>2. m \in k2 <=> Down(h, m)
      BY ONLY <2>1, <2>2, Took(bs, e, later, k, k2, m) DEF Took
    <3> QED BY ONLY <3>1, <3>2, Len(rest) = n - 1 DEF Told
  <2>3. CASE i # 1
    <3>1. PICK q \in 1 .. n - 1 : i = q + 1
      <4>1. i - 1 \in 1 .. n - 1 /\ i = (i - 1) + 1
        BY ONLY <2>3, i \in 1 .. n, n \in Nat
      <4> QED BY ONLY <4>1
    <3>2. Sets(rest, later, q, m) /\ rest[q] = bs[i]
      BY ONLY <3>1, <2>1, <1>1, q \in 1 .. n - 1, \A j \in 1 .. n - 1 : rest[j] = bs[j + 1]
    <3>3. ASSUME NEW j \in 1 .. n - 1, Sets(rest, later, j, m) PROVE j <= q
      <4>1. j + 1 \in 1 .. n /\ Sets(bs, e, j + 1, m)
        BY ONLY <3>3, <1>1, <1>2, j \in 1 .. n - 1
      <4>2. j + 1 <= q + 1
        BY ONLY <4>1, <3>1, <2>1
      <4> QED BY ONLY <4>2, j \in 1 .. n - 1, q \in 1 .. n - 1, n \in Nat
    <3> QED BY ONLY <3>2, <3>3, <2>1, Len(rest) = n - 1, q \in 1 .. n - 1 DEF Told
  <2> QED BY ONLY <2>2, <2>3
<1> QED BY ONLY <1>4, <1>5, n = Len(bs), Told(bs, e, k, h, m) DEF Told

LEMMA TailFacts ==
  ASSUME NEW S, NEW s \in Seq(S), NEW n \in Nat, n = Len(s), n >= 1
  PROVE  /\ Tail(s) \in Seq(S) /\ Len(Tail(s)) = n - 1 /\ s[1] \in S
         /\ \A i \in 1 .. n - 1 : Tail(s)[i] = s[i + 1]
OBVIOUS

LEMMA KeySame ==
  ASSUME KeyInv, UNCHANGED keyVars
  PROVE  KeyInv'
BY DEF KeyInv, keyVars, Told, Sets, Prefixed, Complete, Down, Byte

\* Steps that set the bytes, the keys held and the driver's state.
LEMMA KeySet ==
  ASSUME KeyInv, keys' = keys,
         NEW bs \in Seq(Byte(keys)), bytes' = bs, NEW e \in BOOLEAN, is_extended' = e,
         NEW h \in SUBSET keys, held' = h, NEW k \in SUBSET Modifiers, keystate' = k,
         Complete(bs, e), \A m \in Modifiers : Told(bs, e, k, h, m)
  PROVE  KeyInv'
BY DEF KeyInv, Told, Sets, Prefixed, Complete, Down, Byte

\* A key goes down or up, and with it the modifier it may be.
LEMMA KeyMoves ==
  ASSUME KeyInv, NEW key \in keys, NEW up \in BOOLEAN, bytes' = bytes \o BytesOf(key, up),
         held' = (IF up THEN held \ {key} ELSE held \union {key}),
         UNCHANGED <<keys, is_extended, keystate>>
  PROVE  KeyInv'
<1>1. PICK ks : ks = keys /\ IsKeyboard(ks)
  BY DEF KeyInv
<1>2. PICK bs \in Seq(Byte(ks)) : bs = bytes
  BY <1>1 DEF KeyInv
<1>3. PICK e \in BOOLEAN : e = is_extended /\ Complete(bs, e)
  BY <1>2 DEF KeyInv
<1>4. PICK next : next = bs \o BytesOf(key, up)
  OBVIOUS
<1>5. key \in ks
  BY <1>1
<1>6. PICK n \in Nat : n = Len(bs)
  OBVIOUS
<1>7. next \in Seq(Byte(ks)) /\ Sent(next, bs, n, Len(next), e, key, up)
  BY ONLY <1>1, <1>3, <1>4, <1>5, <1>6, up \in BOOLEAN, bs \in Seq(Byte(ks)), e \in BOOLEAN,
          n \in Nat, KeyBytes
<1>8. Complete(next, e)
  <2>1. next[Len(next)] # Prefix /\ (Len(next) = n + 1 \/ Len(next) = n + 2)
    BY ONLY <1>7 DEF Sent
  <2>2. next # <<>>
    BY ONLY <2>1, n \in Nat
  <2> QED BY ONLY <2>1, <2>2 DEF Complete
<1>9. PICK h \in SUBSET ks : h = held
  BY <1>1 DEF KeyInv
<1>10. PICK h2 : h2 = IF up THEN h \ {key} ELSE h \union {key}
  OBVIOUS
<1>11. h2 \in SUBSET ks
  BY ONLY <1>5, <1>10, h \in SUBSET ks
<1>12. PICK k \in SUBSET Modifiers : k = keystate
  BY DEF KeyInv
<1>13. ASSUME NEW m \in Modifiers
       PROVE  Told(next, e, k, h2, m)
  <2>1. Told(bs, e, k, h, m)
    BY <1>2, <1>3, <1>9, <1>12 DEF KeyInv
  <2>2. Turned(h, h2, key, up, m)
    <3>1. \A l \in h : l.name = key.name => l = key
      BY ONLY <1>1, <1>5, h \in SUBSET ks DEF IsKeyboard
    <3> QED BY ONLY <3>1, <1>10, up \in BOOLEAN DEF Down, Turned
  <2>3. IsKeyboard(ks) /\ Sent(next, bs, n, Len(next), e, key, up)
    BY ONLY <1>1, <1>7
  <2> QED BY ONLY <2>1, <2>2, <2>3, <1>5, <1>6, n \in Nat, up \in BOOLEAN, m \in Modifiers, ToldKey
<1>14. /\ next \in Seq(Byte(keys)) /\ h2 \in SUBSET keys
       /\ bytes' = next /\ is_extended' = e /\ held' = h2 /\ keystate' = k
  BY <1>1, <1>2, <1>3, <1>4, <1>7, <1>9, <1>10, <1>11, <1>12
<1> QED BY <1>8, <1>13, <1>14, KeySet

\* The handler reads a byte.
LEMMA KeyRead ==
  ASSUME KeyInv, bytes # <<>>, NEW code, code = Keycode(Head(bytes).code, is_extended),
         ReadByte(code)
  PROVE  KeyInv'
<1>1. PICK ks : ks = keys /\ IsKeyboard(ks)
  BY DEF KeyInv
<1>2. PICK bs \in Seq(Byte(ks)) : bs = bytes
  BY <1>1 DEF KeyInv
<1>3. PICK e \in BOOLEAN : e = is_extended /\ Complete(bs, e)
  BY <1>2 DEF KeyInv
<1>4. PICK n \in Nat : n = Len(bs) /\ n >= 1
  BY <1>2
<1>5. PICK rest \in Seq(Byte(ks)) : /\ rest = Tail(bs) /\ Len(rest) = n - 1
                                    /\ \A i \in 1 .. n - 1 : rest[i] = bs[i + 1]
  BY ONLY <1>4, n \in Nat, bs \in Seq(Byte(ks)), TailFacts
<1>6. PICK b : b = bs[1] /\ b = Head(bytes)
  BY <1>2, <1>4
<1>7. b \in Byte(ks)
  BY ONLY <1>4, <1>6, n \in Nat, bs \in Seq(Byte(ks)), TailFacts
<1>8. b.release \in BOOLEAN
  BY ONLY <1>7 DEF Byte
<1>9. PICK later \in BOOLEAN : later = (b = Prefix)
  OBVIOUS
<1>10. Complete(rest, later)
  <2>1. bs[n] # Prefix
    BY <1>3, <1>4 DEF Complete
  <2>2. CASE n = 1
    <3>1. rest = <<>>
      BY <2>2, <1>5
    <3> QED BY <3>1, <2>1, <2>2, <1>6, <1>9 DEF Complete
  <2>3. CASE n # 1
    <3>1. n - 1 \in 1 .. n - 1 /\ (n - 1) + 1 = n /\ n - 1 # 0
      BY ONLY <2>3, <1>4, n \in Nat
    <3>2. rest[n - 1] = bs[n]
      BY ONLY <3>1, <1>5
    <3>3. rest # <<>>
      BY ONLY <3>1, <1>5
    <3> QED BY ONLY <3>2, <3>3, <2>1, <1>5 DEF Complete
  <2> QED BY <2>2, <2>3
<1>11. PICK h \in SUBSET ks : h = held
  BY <1>1 DEF KeyInv
<1>12. PICK k \in SUBSET Modifiers : k = keystate
  BY DEF KeyInv
<1>13. PICK k2 : k2 = IF b # Prefix /\ code # Reserved /\ code \in Modifiers
                      THEN IF ~b.release THEN k \union {code} ELSE k \ {code} ELSE k
  OBVIOUS
<1>14. k2 \in SUBSET Modifiers
  BY ONLY <1>13, k \in SUBSET Modifiers
<1>15. code = Keycode(b.code, e)
  BY <1>3, <1>6
<1>16. ASSUME NEW m \in Modifiers
       PROVE  Told(rest, later, k2, h, m)
  <2>1. Told(bs, e, k, h, m)
    BY <1>2, <1>3, <1>11, <1>12 DEF KeyInv
  <2>2. Sets(bs, e, 1, m) <=> b # Prefix /\ code = m
    BY ONLY <1>6, <1>15 DEF Sets, Prefixed
  <2>3. m # Reserved
    BY ONLY m \in Modifiers DEF Modifiers, Reserved
  <2>4. m \in k2 <=> IF Sets(bs, e, 1, m) THEN ~bs[1].release ELSE m \in k
    BY ONLY <2>2, <2>3, <1>6, <1>13, m \in Modifiers
  <2>5. Took(bs, e, later, k, k2, m)
    BY ONLY <2>4, <1>6, <1>9 DEF Took
  <2> QED BY ONLY <2>1, <2>5, <1>4, <1>5, n \in Nat, bs \in Seq(Byte(ks)),
                  rest \in Seq(Byte(ks)), e \in BOOLEAN, later \in BOOLEAN, ToldRead
<1>17. /\ rest \in Seq(Byte(keys)) /\ h \in SUBSET keys /\ keys' = keys
       /\ bytes' = rest /\ is_extended' = later /\ held' = h /\ keystate' = k2
  <2>1. /\ keys' = keys /\ held' = held
        /\ bytes' = Tail(bytes) /\ is_extended' = (Head(bytes) = Prefix)
    BY DEF ReadByte, ExtendedAfter
  <2>2. keystate' = k2
    BY <1>6, <1>12, <1>13 DEF ReadByte, KeyStateAfter
  <2> QED BY <2>1, <2>2, <1>1, <1>2, <1>5, <1>6, <1>9, <1>11
<1> QED BY <1>10, <1>14, <1>16, <1>17, KeySet

LEMMA KeyStep ==
  ASSUME KeyInv, Next
  PROVE  KeyInv'
<1>1. CASE \E key \in keys : Press(key) \/ Release(key)
  <2>1. PICK key \in keys : Press(key) \/ Release(key)
    BY <1>1
  <2>2. CASE Press(key)
    <3>1. held' = IF FALSE THEN held \ {key} ELSE held \union {key}
      BY <2>2 DEF Press
    <3> QED BY <3>1, <2>2, KeyMoves DEF Press
  <2>3. CASE Release(key)
    <3>1. held' = IF TRUE THEN held \ {key} ELSE held \union {key}
      BY <2>3 DEF Release
    <3> QED BY <3>1, <2>3, KeyMoves DEF Release
  <2> QED BY <2>1, <2>2, <2>3
<1>2. CASE keyboard_callback
  <2>1. bytes # <<>> /\ ReadByte(Keycode(Head(bytes).code, is_extended))
    BY <1>2 DEF keyboard_callback
  <2> QED BY <2>1, KeyRead
<1>3. CASE UNCHANGED kbdVars
  BY <1>3, KeySame DEF kbdVars
<1>4. CASE \/ \E text \in texts : kprint_write(text) \/ \E err \in BOOLEAN : ttyfs_write(text, err)
           \/ kprint_push \/ kprint_pop \/ kprint_flush
           \/ \E n \in Lens : ttyfs_read(n)
           \/ subscribe \/ skip_key \/ read_line
           \/ \E ch \in {"a", "A", "b", "B", Tab, Backspace} : echo_char(ch)
  <2>1. UNCHANGED kbdVars
    BY <1>4 DEF kprint_write, ttyfs_write, kprint_push, kprint_pop, kprint_flush, ttyfs_read,
                subscribe, skip_key, read_line, echo_char
  <2> QED BY <2>1, <1>3
<1> QED BY <1>1, <1>2, <1>4 DEF Next

\* For any keyboard whose keys the driver can tell apart and any order of keys
\* going down and up: once the controller is empty, the driver's modifiers are
\* those that are held.
THEOREM TtyModifiersTracked == Spec => []ModifiersTracked
<1>1. Init => KeyInv
  <2>1. SUFFICES ASSUME Init PROVE KeyInv
    OBVIOUS
  <2>2. /\ \E env \in Environments : keys = env.keys
        /\ bytes = <<>> /\ held = {} /\ is_extended = FALSE /\ keystate = {}
    BY <2>1 DEF Init, KeyboardInit
  <2>3. IsKeyboard(keys)
    BY <2>2, TtyAssumption
  <2>4. \A m \in Modifiers : Told(<<>>, FALSE, {}, {}, m)
    BY DEF Told, Down
  <2>5. bytes \in Seq(Byte(keys)) /\ Complete(bytes, is_extended)
    BY <2>2 DEF Complete
  <2> QED BY <2>2, <2>3, <2>4, <2>5 DEF KeyInv
<1>2. KeyInv /\ [Next]_vars => KeyInv'
  <2>1. SUFFICES ASSUME KeyInv, [Next]_vars PROVE KeyInv'
    OBVIOUS
  <2>2. CASE Next
    BY <2>1, <2>2, KeyStep
  <2>3. CASE UNCHANGED vars
    BY <2>1, <2>3, KeySame DEF vars, kbdVars
  <2> QED BY <2>1, <2>2, <2>3
<1>3. KeyInv => ModifiersTracked
  <2>1. SUFFICES ASSUME KeyInv, bytes = <<>>
                 PROVE  keystate = {key.name : key \in held} \cap Modifiers
    BY DEF ModifiersTracked
  <2>2. \A m \in Modifiers : m \in keystate <=> Down(held, m)
    <3>1. TAKE m \in Modifiers
    <3>2. Told(<<>>, is_extended, keystate, held, m)
      BY <2>1 DEF KeyInv
    <3> QED BY <3>2 DEF Told
  <2>3. keystate \subseteq Modifiers
    BY <2>1 DEF KeyInv
  <2> QED BY ONLY <2>2, <2>3 DEF Down
<1> QED BY <1>1, <1>2, <1>3, PTL DEF Spec
=============================================================================
