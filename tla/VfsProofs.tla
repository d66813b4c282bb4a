----------------------------- MODULE VfsProofs ------------------------------
(***************************************************************************)
(* Proofs about the open files of VfsFiles, for any number of tasks,       *)
(* handles and forks, and any consoles, and about the path names of        *)
(* VfsPath, for any file systems, directory trees and mounts.              *)
(***************************************************************************)
EXTENDS VfsFiles, WellFoundedInduction, FiniteSetTheorems, TLAPS

EntryRec ==
  [fh : Nat, count : Nat \ {0}, file : Nat \union {NoFile}, write : BOOLEAN, console : BOOLEAN]

\* A list of which no handle is above n: handles differ, those below the first
\* one vfs_open gives out are the consoles', and a File has the name of the
\* handle it was opened with.
Listed(list, n) ==
  /\ \A i \in DOMAIN list : /\ list[i].fh <= n
                            /\ ~list[i].console => VFS_MIN_HANDLE < list[i].fh
                            /\ list[i].file \in {NoFile, list[i].fh}
  /\ \A i, j \in DOMAIN list : list[i].fh = list[j].fh => i = j

NoConsoles(list) == \A i \in DOMAIN list : ~list[i].console

FilesOf(list) == {list[i].file : i \in DOMAIN list} \ {NoFile}

\* The inductive invariant of VfsFiles.  A task that has ended has no files, and
\* one that has not yet opened the consoles has none of their handles.
FilesInv ==
  /\ open_files \in [Tasks -> Seq(EntryRec)]
  /\ state \in [Tasks -> {"none", "starts", "runs"}]
  /\ is_fork \in [Tasks -> BOOLEAN]
  /\ vfs_next_handle_count \in Nat /\ VFS_MIN_HANDLE <= vfs_next_handle_count
  /\ \A t \in Tasks : Listed(open_files[t], vfs_next_handle_count)
  /\ \A t \in Tasks : FilesOf(open_files[t]) \subseteq live
  /\ \A t, u \in Tasks : t # u => FilesOf(open_files[t]) \cap FilesOf(open_files[u]) = {}
  /\ \A t \in Tasks : state[t] = "none" => open_files[t] = <<>>
  /\ \A t \in Tasks : state[t] = "starts" => NoConsoles(open_files[t])

-----------------------------------------------------------------------------
(* Lists.                                                                  *)

\* A set of numbers that is not empty has a least one.
LEMMA LeastOf ==
  ASSUME NEW S \in SUBSET Nat, S # {}
  PROVE  \E k \in S : \A j \in S : k <= j
<1> DEFINE R == {p \in Nat \X Nat : p[1] < p[2]}
<1>1. IsWellFoundedOn(R, Nat)
  BY NatLessThanWellFounded DEF OpToRel
<1> HIDE DEF R
<1>2. PICK x \in S : \A y \in S : ~(<<y, x>> \in R)
  BY <1>1, WFMin
<1>3. \A y \in S : ~(y < x)
  BY <1>2 DEF R
<1> QED BY <1>2, <1>3

LEMMA EntryTypes ==
  ASSUME NEW list \in Seq(EntryRec)
  PROVE  /\ DOMAIN list = 1 .. Len(list) /\ Len(list) \in Nat
         /\ \A i \in DOMAIN list : /\ list[i] \in EntryRec /\ list[i].fh \in Nat
                                   /\ list[i].count \in Nat \ {0}
                                   /\ list[i].console \in BOOLEAN
<1>1. DOMAIN list = 1 .. Len(list) /\ Len(list) \in Nat
  OBVIOUS
<1>2. \A i \in DOMAIN list : list[i] \in EntryRec
  OBVIOUS
<1>3. \A e \in EntryRec : e.fh \in Nat /\ e.count \in Nat \ {0} /\ e.console \in BOOLEAN
  BY DEF EntryRec
<1> QED BY <1>1, <1>2, <1>3

\* Entry i of list a is entry j of list b, but for its count.
SameEntry(a, i, b, j) ==
  a[i].fh = b[j].fh /\ a[i].file = b[j].file /\ a[i].console = b[j].console

\* Two lists that differ in counts only.
LEMMA SameShape ==
  ASSUME NEW a \in Seq(EntryRec), NEW b \in Seq(EntryRec), DOMAIN a = DOMAIN b,
         \A i \in DOMAIN a : SameEntry(a, i, b, i), NEW n, Listed(a, n)
  PROVE  Listed(b, n) /\ FilesOf(b) = FilesOf(a) /\ (NoConsoles(a) => NoConsoles(b))
<1>1. \A i \in DOMAIN a : a[i].fh = b[i].fh /\ a[i].file = b[i].file /\ a[i].console = b[i].console
  BY DEF SameEntry
<1>2. Listed(b, n)
  BY <1>1 DEF Listed
<1>3. FilesOf(b) = FilesOf(a)
  BY <1>1 DEF FilesOf
<1>4. NoConsoles(a) => NoConsoles(b)
  BY <1>1 DEF NoConsoles
<1> QED BY <1>2, <1>3, <1>4

\* A list whose entries are among those of another, each once.
LEMMA PartOf ==
  ASSUME NEW a \in Seq(EntryRec), NEW b \in Seq(EntryRec), NEW n, Listed(a, n),
         NEW at \in [DOMAIN b -> DOMAIN a], \A i \in DOMAIN b : SameEntry(a, at[i], b, i),
         \A i, j \in DOMAIN b : at[i] = at[j] => i = j
  PROVE  Listed(b, n)
<1>1. \A i \in DOMAIN b : /\ at[i] \in DOMAIN a /\ a[at[i]].fh = b[i].fh
                          /\ a[at[i]].file = b[i].file /\ a[at[i]].console = b[i].console
  BY DEF SameEntry
<1>2. \A i \in DOMAIN b : /\ b[i].fh <= n
                          /\ ~b[i].console => VFS_MIN_HANDLE < b[i].fh
                          /\ b[i].file \in {NoFile, b[i].fh}
  BY <1>1 DEF Listed
<1>3. ASSUME NEW i \in DOMAIN b, NEW j \in DOMAIN b, b[i].fh = b[j].fh PROVE i = j
  <2>1. at[i] = at[j]
    BY <1>1, <1>3 DEF Listed
  <2> QED BY <2>1
<1> QED BY <1>2, <1>3 DEF Listed

\* More handles have been given out.
LEMMA MoreHandles ==
  ASSUME NEW list \in Seq(EntryRec), NEW m \in Nat, NEW n \in Nat, m <= n, Listed(list, m)
  PROVE  Listed(list, n)
<1>1. \A i \in DOMAIN list : list[i].fh \in Nat
  BY EntryTypes
<1>2. \A i \in DOMAIN list : list[i].fh <= m
  BY DEF Listed
<1>3. \A i \in DOMAIN list : list[i].fh <= n
  BY <1>1, <1>2
<1> QED BY <1>3 DEF Listed

\* List b has the files of a and one more.
OneMore(a, b, file) == \A x : x \in FilesOf(b) <=> x \in FilesOf(a) \/ x = file

\* An entry with a handle above all others at the tail (vfs_open).
LEMMA OpenedFile ==
  ASSUME NEW list \in Seq(EntryRec), NEW n \in Nat, VFS_MIN_HANDLE <= n, Listed(list, n),
         NEW w \in BOOLEAN, NEW e, e = Entry(n + 1, n + 1, w), NEW next, next = Append(list, e)
  PROVE  /\ next \in Seq(EntryRec) /\ Listed(next, n + 1)
         /\ OneMore(list, next, n + 1)
<1>1. /\ e.fh = n + 1 /\ e.file = n + 1 /\ e.count = 1 /\ e.console = FALSE /\ e \in EntryRec
      /\ n + 1 # NoFile
  <2>1. n + 1 # NoFile
    BY VfsFilesAssumption
  <2>2. e.fh = n + 1 /\ e.file = n + 1 /\ e.count = 1 /\ e.console = (n + 1 = NoFile)
    BY DEF Entry
  <2>3. e \in EntryRec
    BY <2>1 DEF Entry, EntryRec
  <2> QED BY <2>1, <2>2, <2>3
<1>2. PICK m \in Nat : m = Len(list) /\ DOMAIN list = 1 .. m
  BY EntryTypes
<1>3. next \in Seq(EntryRec)
  BY <1>1
<1>4. DOMAIN next = 1 .. m + 1 /\ next[m + 1] = e /\ \A i \in 1 .. m : next[i] = list[i]
  BY <1>1, <1>2
<1>5. \A i \in 1 .. m : list[i].fh \in Nat /\ list[i].fh <= n
  BY <1>2, EntryTypes DEF Listed
<1>6. \A i \in 1 .. m + 1 : i \in 1 .. m \/ i = m + 1
  OBVIOUS
<1>7. VFS_MIN_HANDLE \in Nat
  BY DEF VFS_MIN_HANDLE
<1>8. Listed(next, n + 1)
  <2>1. ASSUME NEW i \in 1 .. m + 1
        PROVE  /\ next[i].fh <= n + 1
               /\ ~next[i].console => VFS_MIN_HANDLE < next[i].fh
               /\ next[i].file \in {NoFile, next[i].fh}
    <3>1. CASE i \in 1 .. m
      <4>1. /\ list[i].fh <= n + 1 /\ next[i] = list[i]
            /\ ~list[i].console => VFS_MIN_HANDLE < list[i].fh
            /\ list[i].file \in {NoFile, list[i].fh}
        BY <3>1, <1>2, <1>4, <1>5 DEF Listed
      <4> QED BY <4>1
    <3>2. CASE i = m + 1
      <4>1. n + 1 <= n + 1 /\ VFS_MIN_HANDLE < n + 1
        BY <1>7
      <4> QED BY <4>1, <3>2, <1>1, <1>4
    <3> QED BY <3>1, <3>2, <1>6
  <2>2. ASSUME NEW i \in 1 .. m + 1, NEW j \in 1 .. m + 1, next[i].fh = next[j].fh PROVE i = j
    <3>1. CASE i \in 1 .. m /\ j \in 1 .. m
      BY <3>1, <2>2, <1>2, <1>4 DEF Listed
    <3>2. CASE i \in 1 .. m /\ j = m + 1
      <4>1. list[i].fh = n + 1
        BY <3>2, <2>2, <1>1, <1>4
      <4> QED BY <4>1, <3>2, <1>5
    <3>3. CASE i = m + 1 /\ j \in 1 .. m
      <4>1. list[j].fh = n + 1
        BY <3>3, <2>2, <1>1, <1>4
      <4> QED BY <4>1, <3>3, <1>5
    <3> QED BY <3>1, <3>2, <3>3, <1>6
  <2> QED BY <2>1, <2>2, <1>4 DEF Listed
<1>9. OneMore(list, next, n + 1)
  <2>1. \A x : x \in FilesOf(next) <=> x # NoFile /\ \E i \in 1 .. m + 1 : x = next[i].file
    BY <1>4 DEF FilesOf
  <2>2. \A x : x \in FilesOf(list) <=> x # NoFile /\ \E i \in 1 .. m : x = list[i].file
    BY <1>2 DEF FilesOf
  <2>3. \A i \in 1 .. m : i \in 1 .. m + 1 /\ next[i].file = list[i].file
    BY <1>4
  <2>4. m + 1 \in 1 .. m + 1 /\ next[m + 1].file = n + 1
    BY <1>1, <1>4
  <2>5. ASSUME NEW x \in FilesOf(next) PROVE x \in FilesOf(list) \/ x = n + 1
    <3>1. PICK i \in 1 .. m + 1 : x = next[i].file /\ x # NoFile
      BY <2>1
    <3> QED BY <3>1, <2>2, <2>3, <2>4, <1>6
  <2>6. ASSUME NEW x \in FilesOf(list) PROVE x \in FilesOf(next)
    <3>1. PICK i \in 1 .. m : x = list[i].file /\ x # NoFile
      BY <2>2
    <3> QED BY ONLY <3>1, <2>1, <2>3
  <2>7. n + 1 \in FilesOf(next)
    BY <2>1, <2>4, <1>1
  <2> QED BY <2>5, <2>6, <2>7 DEF OneMore
<1> QED BY <1>3, <1>8, <1>9

LEMMA Joined ==
  ASSUME NEW S, NEW u \in Seq(S), NEW v \in Seq(S)
  PROVE  u \o v \in Seq(S) /\ Len(u \o v) = Len(u) + Len(v)
OBVIOUS

\* The entry at position i is taken off.
LEMMA EntryRemoved ==
  ASSUME NEW S, NEW list \in Seq(S), NEW i \in 1 .. Len(list), NEW t, t = RemoveAt(list, i)
  PROVE  /\ t \in Seq(S) /\ Len(t) = Len(list) - 1 /\ DOMAIN t = 1 .. Len(list) - 1
         /\ \A j \in 1 .. Len(list) - 1 : t[j] = IF j < i THEN list[j] ELSE list[j + 1]
         /\ \A x : x \in ToSet(t) <=> \E j \in 1 .. Len(list) : j # i /\ x = list[j]
<1>1. PICK n \in Nat : n = Len(list)
  OBVIOUS
<1>2. PICK u, v : u = SubSeq(list, 1, i - 1) /\ v = SubSeq(list, i + 1, n)
  OBVIOUS
<1>3. t = u \o v
  BY <1>1, <1>2 DEF RemoveAt
<1>4. /\ u \in Seq(S) /\ Len(u) = i - 1 /\ \A j \in 1 .. i - 1 : u[j] = list[j]
  BY <1>1, <1>2
<1>5. /\ v \in Seq(S) /\ Len(v) = n - i /\ \A j \in 1 .. n - i : v[j] = list[i + j]
  BY <1>1, <1>2
<1>6. t \in Seq(S) /\ Len(t) = n - 1
  <2>1. t \in Seq(S) /\ Len(t) = Len(u) + Len(v)
    <3>1. u \in Seq(S) /\ v \in Seq(S)
      BY <1>4, <1>5
    <3> QED BY ONLY <3>1, <1>3, Joined
  <2> QED BY <2>1, <1>1, <1>4, <1>5
<1>7. \A j \in 1 .. n - 1 : t[j] = IF j < i THEN list[j] ELSE list[j + 1]
  <2>1. TAKE j \in 1 .. n - 1
  <2>2. CASE j < i
    BY <2>2, <1>3, <1>4, <1>5
  <2>3. CASE j >= i
    <3>1. PICK k \in 1 .. n - i : k = j - (i - 1)
      BY <2>3, <1>1
    <3>2. t[j] = v[k]
      BY <2>3, <3>1, <1>1, <1>3, <1>4, <1>5
    <3>3. v[k] = list[i + k] /\ i + k = j + 1
      BY <3>1, <1>5
    <3> QED BY <3>2, <3>3, <2>3
  <2> QED BY <2>2, <2>3
<1>8. DOMAIN t = 1 .. n - 1
  BY <1>1, <1>6
<1>9. ASSUME NEW x PROVE x \in ToSet(t) <=> \E j \in 1 .. n : j # i /\ x = list[j]
  <2>1. ASSUME x \in ToSet(t) PROVE \E j \in 1 .. n : j # i /\ x = list[j]
    <3>1. PICK j \in 1 .. n - 1 : x = t[j]
      BY <2>1, <1>8 DEF ToSet
    <3>2. CASE j < i
      <4>1. j \in 1 .. n /\ j # i /\ x = list[j]
        BY <3>1, <3>2, <1>7
      <4> QED BY <4>1
    <3>3. CASE j >= i
      <4>1. j + 1 \in 1 .. n /\ j + 1 # i /\ x = list[j + 1]
        BY <3>1, <3>3, <1>7
      <4> QED BY <4>1
    <3> QED BY <3>2, <3>3
  <2>2. ASSUME NEW j \in 1 .. n, j # i, x = list[j] PROVE x \in ToSet(t)
    <3>1. CASE j < i
      <4>1. j \in 1 .. n - 1 /\ x = t[j]
        BY <2>2, <3>1, <1>1, <1>7
      <4> QED BY <4>1, <1>8 DEF ToSet
    <3>2. CASE j > i
      <4>1. j - 1 \in 1 .. n - 1 /\ (j - 1) + 1 = j /\ ~(j - 1 < i)
        BY <3>2
      <4>2. x = t[j - 1]
        BY <4>1, <2>2, <1>7
      <4> QED BY <4>1, <4>2, <1>8 DEF ToSet
    <3> QED BY <3>1, <3>2, <2>2
  <2> QED BY <2>1, <2>2
<1> QED BY <1>1, <1>6, <1>7, <1>8, <1>9

\* The consoles have handles below all others.
LEMMA ConsoleFacts ==
  /\ ConsoleEntries \in Seq(EntryRec)
  /\ \A i \in DOMAIN ConsoleEntries :
       /\ ConsoleEntries[i].fh < VFS_MIN_HANDLE /\ ConsoleEntries[i].fh \in Nat
       /\ ConsoleEntries[i].file = NoFile /\ ConsoleEntries[i].console = TRUE
  /\ \A i, j \in DOMAIN ConsoleEntries : ConsoleEntries[i].fh = ConsoleEntries[j].fh => i = j
<1>1. Consoles \in Seq(0 .. 99) /\ IsInjective(Consoles)
  BY VfsFilesAssumption DEF VFS_MIN_HANDLE
<1>2. PICK k \in Nat : k = Len(Consoles) /\ DOMAIN Consoles = 1 .. k
  BY <1>1
<1>3. PICK c : c = ConsoleEntries
  OBVIOUS
<1>4. \A i \in 1 .. k : Consoles[i] \in 0 .. 99
  <2>1. PICK S : S = 0 .. 99
    OBVIOUS
  <2>2. Consoles \in Seq(S)
    BY <2>1, <1>1
  <2>3. \A i \in 1 .. k : Consoles[i] \in S
    BY ONLY <2>2, <1>2
  <2> QED BY <2>1, <2>3
<1>5. \A i, j \in 1 .. k : Consoles[i] = Consoles[j] => i = j
  BY ONLY <1>1, <1>2 DEF IsInjective
<1>6. ASSUME NEW i \in 1 .. k
      PROVE  c[i] \in EntryRec /\ c[i].fh = Consoles[i] /\ c[i].file = NoFile /\ c[i].console = TRUE
  <2>1. c[i] = Entry(Consoles[i], NoFile, TRUE)
    BY <1>3, <1>2 DEF ConsoleEntries
  <2>2. PICK h \in Nat : h = Consoles[i]
    BY ONLY <1>4, i \in 1 .. k
  <2>3. PICK e : e = Entry(h, NoFile, TRUE)
    OBVIOUS
  <2>4. e = [fh |-> h, count |-> 1, file |-> NoFile, write |-> TRUE, console |-> TRUE]
    BY <2>3 DEF Entry
  <2>5. e.fh = h /\ e.file = NoFile /\ e.console = TRUE
    BY ONLY <2>4
  <2>6. e \in EntryRec
    BY ONLY <2>4, h \in Nat DEF EntryRec
  <2> QED BY <2>1, <2>2, <2>3, <2>5, <2>6
<1>7. \A i \in 1 .. k : c[i].fh = Consoles[i]
  BY <1>6
<1>8. c = [i \in 1 .. k |-> c[i]]
  BY <1>3, <1>2 DEF ConsoleEntries
<1>9. c \in Seq(EntryRec) /\ DOMAIN c = 1 .. k
  <2>1. c \in [1 .. k -> EntryRec]
    BY <1>6, <1>8
  <2> QED BY <2>1, <1>2
<1>10. \A i \in 1 .. k : c[i].fh < 100 /\ c[i].fh \in Nat
  BY ONLY <1>4, <1>7, k \in Nat
<1>11. \A i, j \in 1 .. k : c[i].fh = c[j].fh => i = j
  BY ONLY <1>5, <1>7, k \in Nat
<1> QED BY <1>3, <1>6, <1>9, <1>10, <1>11 DEF VFS_MIN_HANDLE

\* The consoles behind the files of a task that is started (_sched_do_execve).
LEMMA OpenedConsoles ==
  ASSUME NEW list \in Seq(EntryRec), NEW n \in Nat, VFS_MIN_HANDLE <= n, Listed(list, n),
         NoConsoles(list), NEW next, next = list \o ConsoleEntries
  PROVE  next \in Seq(EntryRec) /\ Listed(next, n) /\ FilesOf(next) = FilesOf(list)
<1>1. PICK m \in Nat : m = Len(list) /\ DOMAIN list = 1 .. m
  BY EntryTypes
<1>2. PICK c \in Seq(EntryRec) : c = ConsoleEntries
  BY ConsoleFacts
<1>3. PICK k \in Nat : k = Len(c) /\ DOMAIN c = 1 .. k
  BY EntryTypes
<1>4. VFS_MIN_HANDLE \in Nat
  BY DEF VFS_MIN_HANDLE
<1>5. \A i \in 1 .. k : /\ c[i].fh < VFS_MIN_HANDLE /\ c[i].fh \in Nat
                        /\ c[i].file = NoFile /\ c[i].console = TRUE
  BY <1>2, <1>3, ConsoleFacts
<1>6. \A i, j \in 1 .. k : c[i].fh = c[j].fh => i = j
  BY <1>2, <1>3, ConsoleFacts
<1>7. next \in Seq(EntryRec) /\ Len(next) = m + k
  <2>1. next = list \o c
    BY <1>2
  <2> QED BY ONLY <2>1, <1>1, <1>3, c \in Seq(EntryRec), list \in Seq(EntryRec), Joined
<1>8. DOMAIN next = 1 .. m + k
  BY <1>7
<1>9. /\ \A i \in 1 .. m : next[i] = list[i]
      /\ \A i \in 1 .. k : next[m + i] = c[i]
  BY <1>1, <1>2, <1>3
<1>10. \A i \in 1 .. m + k : i \in 1 .. m \/ \E j \in 1 .. k : i = m + j
  <2>1. TAKE i \in 1 .. m + k
  <2>2. i \in 1 .. m \/ (i - m \in 1 .. k /\ i = m + (i - m))
    OBVIOUS
  <2> QED BY <2>2
<1>11. /\ \A i \in 1 .. m : i \in 1 .. m + k
       /\ \A i \in 1 .. k : m + i \in 1 .. m + k
  OBVIOUS
<1>12. \A i \in 1 .. m : /\ list[i].fh \in Nat /\ list[i].fh <= n /\ VFS_MIN_HANDLE < list[i].fh
                         /\ list[i].file \in {NoFile, list[i].fh}
  BY <1>1, EntryTypes DEF Listed, NoConsoles
<1>13. Listed(next, n)
  <2>1. ASSUME NEW i \in 1 .. m + k
        PROVE  /\ next[i].fh <= n
               /\ ~next[i].console => VFS_MIN_HANDLE < next[i].fh
               /\ next[i].file \in {NoFile, next[i].fh}
    <3>1. CASE i \in 1 .. m
      BY <3>1, <1>9, <1>12
    <3>2. CASE \E j \in 1 .. k : i = m + j
      <4>1. PICK j \in 1 .. k : i = m + j
        BY <3>2
      <4>2. next[i] = c[j] /\ c[j].fh <= n
        BY ONLY <4>1, <1>4, <1>5, <1>9, n \in Nat, VFS_MIN_HANDLE <= n
      <4> QED BY <4>2, <1>5
    <3> QED BY <3>1, <3>2, <1>10
  <2>2. ASSUME NEW i \in 1 .. m + k, NEW j \in 1 .. m + k, next[i].fh = next[j].fh PROVE i = j
    <3>1. CASE i \in 1 .. m /\ j \in 1 .. m
      BY <3>1, <2>2, <1>1, <1>9 DEF Listed
    <3>2. ASSUME NEW x \in 1 .. m, NEW y \in 1 .. k PROVE next[x].fh # next[m + y].fh
      <4>1. next[x].fh = list[x].fh /\ next[m + y].fh = c[y].fh
        BY <1>9
      <4>2. list[x].fh \in Nat /\ c[y].fh \in Nat /\ VFS_MIN_HANDLE < list[x].fh
            /\ c[y].fh < VFS_MIN_HANDLE
        BY <1>5, <1>12
      <4> QED BY ONLY <4>1, <4>2, <1>4
    <3>3. ASSUME NEW x \in 1 .. k, NEW y \in 1 .. k, i = m + x, j = m + y PROVE i = j
      BY ONLY <3>3, <2>2, <1>6, <1>9
    <3>4. CASE i \in 1 .. m /\ \E y \in 1 .. k : j = m + y
      BY <3>2, <3>4, <2>2
    <3>5. CASE j \in 1 .. m /\ \E y \in 1 .. k : i = m + y
      BY <3>2, <3>5, <2>2
    <3>6. CASE (\E x \in 1 .. k : i = m + x) /\ (\E y \in 1 .. k : j = m + y)
      BY <3>3, <3>6
    <3> QED BY <3>1, <3>4, <3>5, <3>6, <1>10
  <2> QED BY <2>1, <2>2, <1>8 DEF Listed
<1>14. FilesOf(next) = FilesOf(list)
  <2>1. \A x : x \in FilesOf(next) <=> x # NoFile /\ \E i \in 1 .. m + k : x = next[i].file
    BY <1>8 DEF FilesOf
  <2>2. \A x : x \in FilesOf(list) <=> x # NoFile /\ \E i \in 1 .. m : x = list[i].file
    BY <1>1 DEF FilesOf
  <2>3. ASSUME NEW x \in FilesOf(list) PROVE x \in FilesOf(next)
    <3>1. PICK i \in 1 .. m : x = list[i].file /\ x # NoFile
      BY <2>2
    <3> QED BY ONLY <3>1, <2>1, <1>9, <1>11
  <2>4. ASSUME NEW x \in FilesOf(next) PROVE x \in FilesOf(list)
    <3>1. PICK i \in 1 .. m + k : x = next[i].file /\ x # NoFile
      BY <2>1
    <3>2. ~\E j \in 1 .. k : i = m + j
      BY ONLY <3>1, <1>5, <1>9
    <3> QED BY ONLY <3>1, <3>2, <2>2, <1>9, <1>10
  <2> QED BY <2>3, <2>4
<1> QED BY <1>7, <1>13, <1>14

\* A close (vfs_close): the last one takes the entry off, and its File with it.
LEMMA ClosedFile ==
  ASSUME NEW list \in Seq(EntryRec), NEW n, Listed(list, n), NEW i \in DOMAIN list,
         NEW next, next = EntriesAfterClose(list, i)
  PROVE  /\ next \in Seq(EntryRec) /\ Listed(next, n)
         /\ list[i].count > 1 => FilesOf(next) = FilesOf(list)
         /\ list[i].count = 1 => FilesOf(next) = FilesOf(list) \ {list[i].file}
<1>1. PICK m \in Nat : m = Len(list) /\ DOMAIN list = 1 .. m
  BY EntryTypes
<1>2. list[i] \in EntryRec /\ list[i].count \in Nat \ {0}
  BY EntryTypes
<1>3. CASE list[i].count > 1
  <2>1. PICK e : e = [list[i] EXCEPT !.count = @ - 1]
    OBVIOUS
  <2>2. /\ e \in EntryRec /\ e.fh = list[i].fh /\ e.file = list[i].file /\ e.console = list[i].console
    <3>1. PICK x \in EntryRec : x = list[i]
      BY <1>2
    <3>2. PICK k \in Nat \ {0} : k = x.count - 1
      BY ONLY <3>1, <1>2, <1>3
    <3>3. e = [x EXCEPT !.count = k]
      BY ONLY <3>1, <3>2, <2>1
    <3>4. e \in EntryRec /\ e.fh = x.fh /\ e.file = x.file /\ e.console = x.console
      BY ONLY <3>3, x \in EntryRec, k \in Nat \ {0} DEF EntryRec
    <3> QED BY <3>1, <3>4
  <2>3. next = [list EXCEPT ![i] = e]
    BY <2>1, <1>3 DEF EntriesAfterClose
  <2>4. next \in Seq(EntryRec) /\ DOMAIN next = DOMAIN list
    BY <2>2, <2>3
  <2>5. \A j \in DOMAIN list : SameEntry(list, j, next, j)
    BY <2>2, <2>3 DEF SameEntry
  <2>6. Listed(next, n) /\ FilesOf(next) = FilesOf(list)
    BY <2>4, <2>5, SameShape
  <2> QED BY <2>4, <2>6, <1>3
<1>4. CASE list[i].count = 1
  <2>1. next = RemoveAt(list, i)
    BY <1>4 DEF EntriesAfterClose
  <2>2. i \in 1 .. Len(list)
    BY <1>1
  <2>3. next \in Seq(EntryRec) /\ DOMAIN next = 1 .. m - 1
    BY <2>1, <2>2, <1>1, EntryRemoved
  <2>4. \A j \in 1 .. m - 1 : next[j] = IF j < i THEN list[j] ELSE list[j + 1]
    BY <2>1, <2>2, <1>1, EntryRemoved
  <2>5. PICK at : at = [j \in 1 .. m - 1 |-> IF j < i THEN j ELSE j + 1]
    OBVIOUS
  <2>6. \A j \in 1 .. m - 1 : at[j] = IF j < i THEN j ELSE j + 1
    BY <2>5
  <2>7. at \in [1 .. m - 1 -> 1 .. m] /\ \A j \in 1 .. m - 1 : at[j] # i /\ next[j] = list[at[j]]
    BY <2>2, <2>4, <2>5, <1>1
  <2>8. \A j, k \in 1 .. m - 1 : at[j] = at[k] => j = k
    BY <2>2, <2>6
  <2>9. Listed(next, n)
    <3>1. \A j \in DOMAIN next : SameEntry(list, at[j], next, j)
      BY <2>3, <2>7 DEF SameEntry
    <3>2. at \in [DOMAIN next -> DOMAIN list] /\ \A j, k \in DOMAIN next : at[j] = at[k] => j = k
      BY <2>3, <2>7, <2>8, <1>1
    <3> QED BY ONLY <3>1, <3>2, <2>3, PartOf, Listed(list, n), list \in Seq(EntryRec)
  <2>10. \A x : x \in FilesOf(next) <=> x # NoFile /\ \E j \in 1 .. m - 1 : x = next[j].file
    BY <2>3 DEF FilesOf
  <2>11. \A x : x \in FilesOf(list) <=> x # NoFile /\ \E j \in 1 .. m : x = list[j].file
    BY <1>1 DEF FilesOf
  <2>12. \A j \in 1 .. m : j # i /\ list[j].file # NoFile => list[j].file # list[i].file
    <3>1. \A j \in 1 .. m : list[j].file \in {NoFile, list[j].fh}
      BY <1>1 DEF Listed
    <3>2. \A j \in 1 .. m : list[j].fh = list[i].fh => j = i
      BY <1>1 DEF Listed
    <3> QED BY <3>1, <3>2, <1>1
  <2>13. \A j \in 1 .. m : j # i => \E k \in 1 .. m - 1 : at[k] = j
    <3>1. TAKE j \in 1 .. m
    <3>2. CASE j < i
      <4>1. j \in 1 .. m - 1 /\ at[j] = j
        BY <3>2, <2>2, <2>6, <1>1
      <4> QED BY <4>1
    <3>3. CASE j > i
      <4>1. j - 1 \in 1 .. m - 1 /\ ~(j - 1 < i) /\ (j - 1) + 1 = j
        BY <3>3, <2>2, <1>1
      <4>2. at[j - 1] = j
        BY <4>1, <2>6
      <4> QED BY <4>1, <4>2
    <3> QED BY <3>2, <3>3, <2>2
  <2>14. ASSUME NEW x \in FilesOf(next) PROVE x \in FilesOf(list) \ {list[i].file}
    BY <2>7, <2>10, <2>11, <2>12
  <2>15. ASSUME NEW x \in FilesOf(list) \ {list[i].file} PROVE x \in FilesOf(next)
    <3>1. PICK j \in 1 .. m : x = list[j].file /\ x # NoFile
      BY <2>11
    <3>2. j # i
      BY <3>1
    <3>3. PICK k \in 1 .. m - 1 : at[k] = j
      BY <3>2, <2>13
    <3> QED BY <3>1, <3>3, <2>7, <2>10
  <2> QED BY <2>3, <2>9, <2>14, <2>15, <1>4
<1> QED BY <1>2, <1>3, <1>4

-----------------------------------------------------------------------------
(* Loops.                                                                  *)

\* The k-th turn of the loop of vfs_copy over a list, of vfs_resolve_path, of
\* vfs_get_full_path, of the way up from a place, or along the tokens list[2] of
\* a path over the places list[1].
Step(loop, list, k, x) ==
  CASE loop = "copy" -> CopyEntry(list[k], x)
    [] loop = "resolve" -> Turn(x)
    [] loop = "path" -> PathTurn(x)
    [] loop = "place" -> PlaceTurn(x)
    [] loop = "meant" -> MeantStep(list[1], x, list[2][k])

\* What a loop that starts with x makes in its first n turns, turn by turn.
IsLoop(h, loop, list, x, n) ==
  h = [k \in 0 .. n |-> IF k = 0 THEN x ELSE Step(loop, list, k, h[k - 1])]

LEMMA LoopRuns ==
  ASSUME NEW loop, NEW list, NEW x, NEW n \in Nat
  PROVE  \E h : IsLoop(h, loop, list, x, n)
<1> DEFINE D == {k \in 0 .. n : ~\E h : IsLoop(h, loop, list, x, k)}
<1>1. SUFFICES ASSUME D # {} PROVE FALSE
  <2>1. n \in 0 .. n
    OBVIOUS
  <2> QED BY <2>1
<1>2. PICK k \in D : \A j \in D : k <= j
  <2>1. D \in SUBSET Nat
    OBVIOUS
  <2> HIDE DEF D
  <2> QED BY <2>1, <1>1, LeastOf
<1>3. k \in Nat /\ ~\E h : IsLoop(h, loop, list, x, k)
  OBVIOUS
<1>4. CASE k = 0
  <2>1. PICK h : h = [j \in 0 .. 0 |-> x]
    OBVIOUS
  <2>2. h = [j \in 0 .. 0 |-> IF j = 0 THEN x ELSE Step(loop, list, j, h[j - 1])]
    BY ONLY <2>1
  <2> QED BY <2>2, <1>3, <1>4 DEF IsLoop
<1>5. CASE k # 0
  <2>1. PICK m \in Nat : k = m + 1
    BY <1>3, <1>5
  <2>2. m \notin D /\ m \in 0 .. n
    BY <2>1, <1>2
  <2>3. PICK h : IsLoop(h, loop, list, x, m)
    BY <2>2
  <2>4. PICK g : g = [j \in 0 .. k |-> IF j = k THEN Step(loop, list, k, h[m]) ELSE h[j]]
    OBVIOUS
  <2>5. \A j \in 0 .. m : h[j] = IF j = 0 THEN x ELSE Step(loop, list, j, h[j - 1])
    BY ONLY <2>3 DEF IsLoop
  <2>6. \A j \in 0 .. m : g[j] = h[j]
    BY ONLY <2>1, <2>4, m \in Nat
  <2>7. k \in 0 .. k /\ g[k] = Step(loop, list, k, h[m])
    BY ONLY <2>1, <2>4, m \in Nat
  <2>8. ASSUME NEW j \in 0 .. k
        PROVE  g[j] = IF j = 0 THEN x ELSE Step(loop, list, j, g[j - 1])
    <3>1. CASE j = k
      <4>1. j # 0 /\ j - 1 = m /\ g[m] = h[m]
        BY ONLY <3>1, <2>1, <2>6, m \in Nat
      <4> QED BY ONLY <4>1, <3>1, <2>7
    <3>2. CASE j \in 0 .. m
      <4>1. g[j] = h[j]
        BY <3>2, <2>6
      <4>2. CASE j = 0
        BY ONLY <4>1, <4>2, <3>2, <2>5
      <4>3. CASE j # 0
        <5>1. j - 1 \in 0 .. m
          BY ONLY <4>3, <3>2, m \in Nat
        <5>2. g[j - 1] = h[j - 1]
          BY <5>1, <2>6
        <5>3. h[j] = Step(loop, list, j, h[j - 1])
          BY ONLY <4>3, <3>2, <2>5
        <5> QED BY ONLY <5>2, <5>3, <4>1, <4>3
      <4> QED BY <4>2, <4>3
    <3>3. j = k \/ j \in 0 .. m
      BY ONLY <2>1, m \in Nat, j \in 0 .. k
    <3> QED BY <3>1, <3>2, <3>3
  <2>9. g = [j \in 0 .. k |-> g[j]]
    BY ONLY <2>4
  <2>10. IsLoop(g, loop, list, x, k)
    BY ONLY <2>8, <2>9 DEF IsLoop
  <2> QED BY <2>10, <1>3
<1> QED BY <1>4, <1>5

LEMMA LoopTurns ==
  ASSUME NEW h, NEW loop, NEW list, NEW x, NEW n \in Nat, IsLoop(h, loop, list, x, n)
  PROVE  /\ h[0] = x
         /\ \A k \in 0 .. n - 1 : h[k + 1] = Step(loop, list, k + 1, h[k])
<1>1. \A k \in 0 .. n : h[k] = IF k = 0 THEN x ELSE Step(loop, list, k, h[k - 1])
  BY DEF IsLoop
<1>2. ASSUME NEW k \in 0 .. n - 1 PROVE h[k + 1] = Step(loop, list, k + 1, h[k])
  <2>1. k + 1 \in 0 .. n /\ k + 1 # 0 /\ (k + 1) - 1 = k
    OBVIOUS
  <2> QED BY ONLY <1>1, <2>1
<1> QED BY <1>1, <1>2

\* Induction over the turns.
LEMMA Climb ==
  ASSUME NEW n \in Nat, NEW S, 0 \in S, \A k \in 0 .. n - 1 : k \in S => k + 1 \in S
  PROVE  \A k \in 0 .. n : k \in S
<1> DEFINE D == {k \in 0 .. n : k \notin S}
<1>1. SUFFICES ASSUME D # {} PROVE FALSE
  OBVIOUS
<1>2. PICK k \in D : \A j \in D : k <= j
  <2>1. D \in SUBSET Nat
    OBVIOUS
  <2> HIDE DEF D
  <2> QED BY <1>1, <2>1, LeastOf
<1>3. k - 1 \in 0 .. n - 1 /\ k - 1 \notin D /\ (k - 1) + 1 = k
  BY <1>2
<1>4. k - 1 \in S
  BY <1>3
<1> QED BY <1>2, <1>3, <1>4

-----------------------------------------------------------------------------
(* vfs_copy.                                                               *)

\* List c holds copies of some of the first k entries of list, each once.
ChildOf(c, list, k) ==
  /\ c \in Seq(EntryRec)
  /\ \A i \in DOMAIN c : /\ ~c[i].console /\ c[i].file = NoFile
                         /\ \E j \in 1 .. k : ~list[j].console /\ c[i].fh = list[j].fh
  /\ \A i, j \in DOMAIN c : c[i].fh = c[j].fh => i = j

LEMMA CopiedEntry ==
  ASSUME NEW f \in EntryRec
  PROVE  /\ Copied(f) \in EntryRec /\ Copied(f).fh = f.fh /\ Copied(f).file = NoFile
         /\ Copied(f).console = f.console
<1>1. PICK k \in Nat \ {0} : k = f.count + 1
  BY DEF EntryRec
<1>2. PICK e : e = [f EXCEPT !.count = k, !.file = NoFile]
  OBVIOUS
<1>3. Copied(f) = e
  BY <1>1, <1>2 DEF Copied, EntryRec
<1>4. e \in EntryRec /\ e.fh = f.fh /\ e.file = NoFile /\ e.console = f.console
  BY ONLY <1>2, f \in EntryRec, k \in Nat \ {0} DEF EntryRec
<1> QED BY <1>3, <1>4

LEMMA CopyTurn ==
  ASSUME NEW list \in Seq(EntryRec), NEW n, Listed(list, n), NEW m \in Nat, m + 1 \in DOMAIN list,
         NEW c, ChildOf(c, list, m)
  PROVE  ChildOf(CopyEntry(list[m + 1], c), list, m + 1)
<1>1. PICK f \in EntryRec : f = list[m + 1]
  BY EntryTypes
<1>2. /\ c \in Seq(EntryRec)
      /\ \A i \in DOMAIN c : /\ ~c[i].console /\ c[i].file = NoFile
                             /\ \E j \in 1 .. m : ~list[j].console /\ c[i].fh = list[j].fh
      /\ \A i, j \in DOMAIN c : c[i].fh = c[j].fh => i = j
  BY DEF ChildOf
<1>3. \A j \in 1 .. m : j \in 1 .. m + 1
  OBVIOUS
<1>4. CASE f.console
  <2>1. CopyEntry(list[m + 1], c) = c
    BY <1>1, <1>4 DEF CopyEntry, IsCopied
  <2>2. ChildOf(c, list, m + 1)
    BY ONLY <1>2, <1>3 DEF ChildOf
  <2> QED BY <2>1, <2>2
<1>5. CASE ~f.console
  <2>1. PICK e \in EntryRec : e = Copied(f) /\ e.fh = f.fh /\ e.file = NoFile /\ e.console = f.console
    BY CopiedEntry
  <2>2. PICK d : d = Append(c, e)
    OBVIOUS
  <2>3. CopyEntry(list[m + 1], c) = d
    BY <2>1, <2>2, <1>1, <1>5 DEF CopyEntry, IsCopied
  <2>4. PICK k \in Nat : k = Len(c) /\ DOMAIN c = 1 .. k
    BY <1>2, EntryTypes
  <2>5. d \in Seq(EntryRec) /\ DOMAIN d = 1 .. k + 1 /\ d[k + 1] = e /\ \A i \in 1 .. k : d[i] = c[i]
    BY ONLY <2>2, <2>4, <1>2, e \in EntryRec
  <2>6. \A i \in 1 .. k + 1 : i \in 1 .. k \/ i = k + 1
    OBVIOUS
  <2>7. ASSUME NEW i \in 1 .. k PROVE c[i].fh # e.fh
    <3>1. PICK j \in 1 .. m : c[i].fh = list[j].fh
      BY <2>4, <1>2
    <3>2. j \in DOMAIN list /\ j # m + 1
      BY EntryTypes
    <3>3. list[j].fh # list[m + 1].fh
      BY <3>2 DEF Listed
    <3> QED BY <3>1, <3>3, <2>1, <1>1
  <2>8. ASSUME NEW i \in 1 .. k + 1
        PROVE  /\ ~d[i].console /\ d[i].file = NoFile
               /\ \E j \in 1 .. m + 1 : ~list[j].console /\ d[i].fh = list[j].fh
    <3>1. CASE i \in 1 .. k
      BY ONLY <3>1, <2>4, <2>5, <1>2, <1>3
    <3>2. CASE i = k + 1
      <4>1. m + 1 \in 1 .. m + 1
        OBVIOUS
      <4> QED BY ONLY <4>1, <3>2, <2>1, <2>5, <1>1, <1>5
    <3> QED BY <3>1, <3>2, <2>6
  <2>9. ASSUME NEW i \in 1 .. k + 1, NEW j \in 1 .. k + 1, d[i].fh = d[j].fh PROVE i = j
    <3>1. CASE i \in 1 .. k /\ j \in 1 .. k
      BY ONLY <3>1, <2>4, <2>5, <2>9, <1>2
    <3>2. CASE i \in 1 .. k /\ j = k + 1
      BY ONLY <3>2, <2>5, <2>7, <2>9
    <3>3. CASE i = k + 1 /\ j \in 1 .. k
      BY ONLY <3>3, <2>5, <2>7, <2>9
    <3> QED BY <3>1, <3>2, <3>3, <2>6
  <2>10. ChildOf(d, list, m + 1)
    BY ONLY <2>5, <2>8, <2>9 DEF ChildOf
  <2> QED BY <2>3, <2>10
<1>6. f.console \in BOOLEAN
  BY DEF EntryRec
<1> QED BY <1>4, <1>5, <1>6

\* The child's list has handles of its parent, each once, and no File: by
\* induction over the parent's list.
LEMMA CopiedFiles ==
  ASSUME NEW list \in Seq(EntryRec), NEW n, Listed(list, n), NEW c, c = ChildEntries(list)
  PROVE  c \in Seq(EntryRec) /\ Listed(c, n) /\ FilesOf(c) = {} /\ NoConsoles(c)
<1>1. PICK m \in Nat : m = Len(list) /\ DOMAIN list = 1 .. m
  BY EntryTypes
<1>2. \E h : IsLoop(h, "copy", list, <<>>, m)
  BY LoopRuns
<1>3. PICK h : IsLoop(h, "copy", list, <<>>, m) /\ c = h[m]
  BY ONLY <1>1, <1>2, c = ChildEntries(list) DEF ChildEntries, IsLoop, Step
<1>4. h[0] = <<>> /\ \A k \in 0 .. m - 1 : h[k + 1] = CopyEntry(list[k + 1], h[k])
  BY <1>3, LoopTurns DEF Step
<1>5. \A k \in 0 .. m : ChildOf(h[k], list, k)
  <2> DEFINE S == {k \in 0 .. m : ChildOf(h[k], list, k)}
  <2>1. 0 \in S
    <3>1. <<>> \in Seq(EntryRec) /\ DOMAIN <<>> = {}
      OBVIOUS
    <3>2. ChildOf(<<>>, list, 0)
      BY ONLY <3>1 DEF ChildOf
    <3> QED BY <3>2, <1>4
  <2>2. ASSUME NEW k \in 0 .. m - 1, k \in S PROVE k + 1 \in S
    <3>1. k + 1 \in 1 .. m /\ k \in Nat
      OBVIOUS
    <3>2. ChildOf(CopyEntry(list[k + 1], h[k]), list, k + 1)
      BY <2>2, <3>1, <1>1, CopyTurn
    <3> QED BY <3>1, <3>2, <1>4
  <2> HIDE DEF S
  <2>3. \A k \in 0 .. m : k \in S
    BY <2>1, <2>2, Climb
  <2> QED BY <2>3 DEF S
<1>6. ChildOf(c, list, m)
  BY <1>3, <1>5
<1>7. c \in Seq(EntryRec) /\ FilesOf(c) = {} /\ NoConsoles(c)
  BY ONLY <1>6 DEF ChildOf, FilesOf, NoConsoles
<1>8. Listed(c, n)
  <2>1. \A j \in 1 .. m : list[j].fh <= n /\ (~list[j].console => VFS_MIN_HANDLE < list[j].fh)
    BY ONLY <1>1, Listed(list, n) DEF Listed
  <2>2. \A i \in DOMAIN c : \E j \in 1 .. m : ~list[j].console /\ c[i].fh = list[j].fh
    BY ONLY <1>6 DEF ChildOf
  <2>3. \A i \in DOMAIN c : c[i].fh <= n /\ VFS_MIN_HANDLE < c[i].fh
    BY ONLY <2>1, <2>2
  <2>4. \A i \in DOMAIN c : c[i].file \in {NoFile, c[i].fh}
    BY ONLY <1>6 DEF ChildOf
  <2>5. \A i, j \in DOMAIN c : c[i].fh = c[j].fh => i = j
    BY ONLY <1>6 DEF ChildOf
  <2> QED BY ONLY <2>3, <2>4, <2>5 DEF Listed
<1> QED BY <1>7, <1>8

\* The parent's list has the same files and handles.
LEMMA CopyingFiles ==
  ASSUME NEW list \in Seq(EntryRec), NEW n, Listed(list, n), NEW p, p = vfs_copy(list).parent
  PROVE  /\ p \in Seq(EntryRec) /\ Listed(p, n) /\ FilesOf(p) = FilesOf(list)
         /\ NoConsoles(list) => NoConsoles(p)
<1>1. PICK m \in Nat : m = Len(list) /\ DOMAIN list = 1 .. m
  BY EntryTypes
<1>2. p = [i \in 1 .. m |->
             IF IsCopied(list[i]) THEN [list[i] EXCEPT !.count = @ + 1] ELSE list[i]]
  BY <1>1 DEF vfs_copy
<1>3. ASSUME NEW i \in 1 .. m PROVE p[i] \in EntryRec /\ SameEntry(list, i, p, i)
  <2>1. PICK f \in EntryRec : f = list[i]
    BY <1>1, EntryTypes
  <2>2. PICK k \in Nat \ {0} : k = f.count + 1
    BY DEF EntryRec
  <2>3. p[i] = f \/ p[i] = [f EXCEPT !.count = k]
    BY ONLY <2>1, <2>2, <1>2, i \in 1 .. m
  <2>4. /\ p[i] \in EntryRec /\ p[i].fh = f.fh /\ p[i].file = f.file
        /\ p[i].console = f.console
    BY ONLY <2>3, f \in EntryRec, k \in Nat \ {0} DEF EntryRec
  <2> QED BY ONLY <2>1, <2>4 DEF SameEntry
<1>4. p \in Seq(EntryRec) /\ DOMAIN p = DOMAIN list
  <2>1. p = [i \in 1 .. m |-> p[i]]
    BY ONLY <1>2
  <2>2. p \in [1 .. m -> EntryRec]
    BY ONLY <2>1, <1>3
  <2>3. p \in Seq(EntryRec)
    BY ONLY <2>2, m \in Nat
  <2> QED BY <2>1, <2>3, <1>1
<1>5. \A i \in DOMAIN list : SameEntry(list, i, p, i)
  BY <1>1, <1>3
<1> QED BY ONLY <1>4, <1>5, SameShape, Listed(list, n), list \in Seq(EntryRec)

-----------------------------------------------------------------------------
(* The steps.                                                              *)

\* What a step must keep for ChangesHeld.
Kept == \A u \in Tasks : FilesOf(open_files[u]) \cap unsynced' \subseteq FilesOf(open_files'[u])

\* A step in which no task gets a File.
LEMMA NoNewFiles ==
  ASSUME FilesInv, open_files' \in [Tasks -> Seq(EntryRec)],
         state' \in [Tasks -> {"none", "starts", "runs"}], is_fork' \in [Tasks -> BOOLEAN],
         vfs_next_handle_count' = vfs_next_handle_count,
         \A u \in Tasks : Listed(open_files'[u], vfs_next_handle_count),
         \A u \in Tasks : FilesOf(open_files'[u]) \subseteq FilesOf(open_files[u]),
         \A u \in Tasks : FilesOf(open_files'[u]) \subseteq live',
         \A u \in Tasks : state'[u] = "none" => open_files'[u] = <<>>,
         \A u \in Tasks : state'[u] = "starts" => NoConsoles(open_files'[u])
  PROVE  FilesInv'
<1>1. \A t, u \in Tasks : t # u => FilesOf(open_files'[t]) \cap FilesOf(open_files'[u]) = {}
  BY DEF FilesInv
<1>2. vfs_next_handle_count' \in Nat /\ VFS_MIN_HANDLE <= vfs_next_handle_count'
  BY DEF FilesInv
<1>3. \A u \in Tasks : Listed(open_files'[u], vfs_next_handle_count')
  OBVIOUS
<1> QED BY <1>1, <1>2, <1>3 DEF FilesInv, Listed, FilesOf, NoConsoles, VFS_MIN_HANDLE

\* A step that leaves the lists alone.
LEMMA SameFiles ==
  ASSUME FilesInv, is_fork' \in [Tasks -> BOOLEAN],
         UNCHANGED <<open_files, state, vfs_next_handle_count, live>>
  PROVE  FilesInv'
<1>1. /\ open_files' \in [Tasks -> Seq(EntryRec)]
      /\ state' \in [Tasks -> {"none", "starts", "runs"}]
      /\ vfs_next_handle_count' = vfs_next_handle_count
  BY DEF FilesInv
<1>2. /\ \A u \in Tasks : Listed(open_files'[u], vfs_next_handle_count)
      /\ \A u \in Tasks : FilesOf(open_files'[u]) \subseteq FilesOf(open_files[u])
      /\ \A u \in Tasks : FilesOf(open_files'[u]) \subseteq live'
      /\ \A u \in Tasks : state'[u] = "none" => open_files'[u] = <<>>
      /\ \A u \in Tasks : state'[u] = "starts" => NoConsoles(open_files'[u])
  BY DEF FilesInv
<1> QED BY <1>1, <1>2, NoNewFiles

\* The files of a list have handles that were given out.
LEMMA FilesGivenOut ==
  ASSUME NEW list \in Seq(EntryRec), NEW n \in Nat, Listed(list, n)
  PROVE  n + 1 \notin FilesOf(list)
<1>1. \A i \in DOMAIN list : list[i].fh \in Nat /\ list[i].fh <= n
  BY EntryTypes DEF Listed
<1>2. \A i \in DOMAIN list : list[i].fh # n + 1
  BY <1>1
<1>3. \A i \in DOMAIN list : list[i].file \in {NoFile, list[i].fh}
  BY DEF Listed
<1> QED BY ONLY <1>2, <1>3 DEF FilesOf

\* A step in which task t gets a File, of the next handle.
LEMMA OneNewFile ==
  ASSUME FilesInv, NEW t \in Tasks, NEW list \in Seq(EntryRec),
         open_files' = [open_files EXCEPT ![t] = list],
         state' = [state EXCEPT ![t] = "runs"], is_fork' = is_fork,
         vfs_next_handle_count' = NewHandle, live' = live \union {NewHandle},
         Listed(list, NewHandle),
         \A x : x \in FilesOf(list) <=> x \in FilesOf(open_files[t]) \/ x = NewHandle
  PROVE  FilesInv'
<1>1. PICK n \in Nat : n = vfs_next_handle_count /\ VFS_MIN_HANDLE <= n /\ NewHandle = n + 1
  BY DEF FilesInv, NewHandle
<1>2. \A u \in Tasks : open_files'[u] = IF u = t THEN list ELSE open_files[u]
  BY DEF FilesInv
<1>3. \A u \in Tasks : open_files[u] \in Seq(EntryRec) /\ Listed(open_files[u], n)
  BY <1>1 DEF FilesInv
<1>4. \A u \in Tasks : Listed(open_files[u], n + 1)
  BY <1>3, MoreHandles
<1>5. \A u \in Tasks : n + 1 \notin FilesOf(open_files[u])
  BY <1>3, FilesGivenOut
<1>6. \A u \in Tasks : Listed(open_files'[u], vfs_next_handle_count')
  BY <1>1, <1>2, <1>4
<1>7. \A u \in Tasks : FilesOf(open_files'[u]) \subseteq live'
  BY <1>2 DEF FilesInv
<1>8. \A u, v \in Tasks : u # v => FilesOf(open_files'[u]) \cap FilesOf(open_files'[v]) = {}
  BY <1>1, <1>2, <1>5 DEF FilesInv
<1>9. /\ open_files' \in [Tasks -> Seq(EntryRec)]
      /\ state' \in [Tasks -> {"none", "starts", "runs"}]
      /\ is_fork' \in [Tasks -> BOOLEAN]
      /\ vfs_next_handle_count' \in Nat /\ VFS_MIN_HANDLE <= vfs_next_handle_count'
  BY <1>1 DEF FilesInv, VFS_MIN_HANDLE
<1>10. \A u \in Tasks : /\ state'[u] = "none" => open_files'[u] = <<>>
                        /\ state'[u] = "starts" => NoConsoles(open_files'[u])
  BY <1>2 DEF FilesInv
<1> QED BY <1>6, <1>7, <1>8, <1>9, <1>10
        DEF FilesInv, Listed, FilesOf, NoConsoles, VFS_MIN_HANDLE

\* vfs_open.
LEMMA StepOpen ==
  ASSUME FilesInv, NEW t \in Tasks, NEW w \in BOOLEAN, vfs_open(t, w)
  PROVE  FilesInv' /\ Kept
<1>1. PICK n \in Nat : n = vfs_next_handle_count /\ VFS_MIN_HANDLE <= n /\ NewHandle = n + 1
  BY DEF FilesInv, NewHandle
<1>2. PICK old \in Seq(EntryRec) : old = open_files[t] /\ Listed(old, n)
  BY <1>1 DEF FilesInv
<1>3. PICK e, list : e = Entry(n + 1, n + 1, w) /\ list = Append(old, e)
  OBVIOUS
<1>4. /\ list \in Seq(EntryRec) /\ Listed(list, n + 1)
      /\ OneMore(old, list, n + 1)
  BY ONLY <1>1, <1>2, <1>3, OpenedFile, w \in BOOLEAN, n \in Nat, old \in Seq(EntryRec)
<1>5. open_files' = [open_files EXCEPT ![t] = list]
  BY <1>1, <1>2, <1>3 DEF vfs_open, FilesInv
<1>6. state' = [state EXCEPT ![t] = "runs"]
  BY DEF vfs_open, Runs, FilesInv
<1>7. FilesInv'
  <2>1. /\ vfs_next_handle_count' = NewHandle /\ live' = live \union {NewHandle}
        /\ is_fork' = is_fork
    BY DEF vfs_open
  <2>2. /\ Listed(list, NewHandle)
        /\ \A x : x \in FilesOf(list) <=> x \in FilesOf(open_files[t]) \/ x = NewHandle
    BY <1>1, <1>2, <1>4 DEF OneMore
  <2> QED BY ONLY <2>1, <2>2, <1>4, <1>5, <1>6, OneNewFile, FilesInv, t \in Tasks
<1>8. \A u \in Tasks : open_files'[u] = IF u = t THEN list ELSE open_files[u]
  BY <1>5 DEF FilesInv
<1>9. Kept
  BY <1>2, <1>4, <1>8 DEF Kept, OneMore
<1> QED BY <1>7, <1>9

\* vfs_write.
LEMMA StepWrite ==
  ASSUME FilesInv, NEW t \in Tasks, NEW i \in Places(t), vfs_write(t, i)
  PROVE  FilesInv' /\ Kept
<1>1. UNCHANGED <<open_files, state, is_fork, vfs_next_handle_count, live>>
  BY DEF vfs_write
<1>2. FilesInv'
  <2>1. is_fork' \in [Tasks -> BOOLEAN]
    BY <1>1 DEF FilesInv
  <2> QED BY <2>1, <1>1, SameFiles
<1>3. Kept
  BY <1>1 DEF Kept
<1> QED BY <1>2, <1>3

\* vfs_close.
LEMMA StepClose ==
  ASSUME FilesInv, NEW t \in Tasks, NEW i \in Places(t), vfs_close(t, i)
  PROVE  FilesInv' /\ Kept
<1>1. PICK n \in Nat : n = vfs_next_handle_count
  BY DEF FilesInv
<1>2. PICK old \in Seq(EntryRec) : old = open_files[t] /\ Listed(old, n)
  BY <1>1 DEF FilesInv
<1>3. i \in DOMAIN old
  BY <1>2 DEF Places
<1>4. PICK list : list = EntriesAfterClose(old, i)
  OBVIOUS
<1>5. /\ list \in Seq(EntryRec) /\ Listed(list, n)
      /\ old[i].count > 1 => FilesOf(list) = FilesOf(old)
      /\ old[i].count = 1 => FilesOf(list) = FilesOf(old) \ {old[i].file}
  BY <1>2, <1>3, <1>4, ClosedFile
<1>6. open_files' = [open_files EXCEPT ![t] = list]
  BY <1>2, <1>4 DEF vfs_close, FilesInv
<1>7. \A u \in Tasks : open_files'[u] = IF u = t THEN list ELSE open_files[u]
  BY <1>6 DEF FilesInv
<1>8. \/ old[i].count > 1 /\ live' = live /\ unsynced' = unsynced
      \/ /\ old[i].count = 1
         /\ live' = live \ {old[i].file} /\ unsynced' = unsynced \ {old[i].file}
  BY <1>2 DEF vfs_close
<1>9. UNCHANGED <<state, is_fork, vfs_next_handle_count>> /\ state[t] = "runs"
  BY DEF vfs_close, Runs
<1>10. \A u \in Tasks : FilesOf(open_files[u]) \subseteq live
  BY DEF FilesInv
<1>11. \A u \in Tasks : u # t /\ old[i].file # NoFile => old[i].file \notin FilesOf(open_files[u])
  <2>1. old[i].file # NoFile => old[i].file \in FilesOf(open_files[t])
    BY <1>2, <1>3 DEF FilesOf
  <2> QED BY <2>1 DEF FilesInv
<1>12. \A u \in Tasks : NoFile \notin FilesOf(open_files[u])
  BY DEF FilesOf
<1>13. FilesOf(list) \subseteq FilesOf(old)
  BY <1>5, <1>8
<1>14. \A u \in Tasks : FilesOf(open_files'[u]) \subseteq FilesOf(open_files[u])
  BY <1>2, <1>7, <1>13
<1>15. \A u \in Tasks : FilesOf(open_files'[u]) \subseteq live'
  BY <1>2, <1>5, <1>7, <1>8, <1>10, <1>11, <1>12
<1>16. \A u \in Tasks : Listed(open_files'[u], vfs_next_handle_count)
  BY <1>1, <1>5, <1>7 DEF FilesInv
<1>17. /\ open_files' \in [Tasks -> Seq(EntryRec)]
       /\ state' \in [Tasks -> {"none", "starts", "runs"}] /\ is_fork' \in [Tasks -> BOOLEAN]
       /\ vfs_next_handle_count' = vfs_next_handle_count
  BY <1>5, <1>6, <1>9 DEF FilesInv
<1>18. /\ \A u \in Tasks : state'[u] = "none" => open_files'[u] = <<>>
       /\ \A u \in Tasks : state'[u] = "starts" => NoConsoles(open_files'[u])
  BY <1>7, <1>9 DEF FilesInv
<1>19. FilesInv'
  BY <1>14, <1>15, <1>16, <1>17, <1>18, NoNewFiles
<1>20. Kept
  BY <1>2, <1>5, <1>7, <1>8 DEF Kept
<1> QED BY <1>19, <1>20

\* sched_fork of a task that was itself forked.
LEMMA StepForkAgain ==
  ASSUME FilesInv, NEW t \in Tasks, fork_again(t)
  PROVE  FilesInv' /\ Kept
<1>1. /\ UNCHANGED <<open_files, state, vfs_next_handle_count, live, unsynced>>
      /\ is_fork' = [is_fork EXCEPT ![t] = FALSE]
  BY DEF fork_again
<1>2. is_fork' \in [Tasks -> BOOLEAN]
  BY <1>1 DEF FilesInv
<1>3. FilesInv'
  BY <1>1, <1>2, SameFiles
<1>4. Kept
  BY <1>1 DEF Kept
<1> QED BY <1>3, <1>4

\* sched_fork: the child was no task, so that its list was empty.
LEMMA StepFork ==
  ASSUME FilesInv, NEW t \in Tasks, NEW c \in Tasks, sched_fork(t, c)
  PROVE  FilesInv' /\ Kept
<1>1. PICK n \in Nat : n = vfs_next_handle_count
  BY DEF FilesInv
<1>2. PICK old \in Seq(EntryRec) : old = open_files[t] /\ Listed(old, n)
  BY <1>1 DEF FilesInv
<1>3. PICK p, d : p = vfs_copy(old).parent /\ d = ChildEntries(old)
  OBVIOUS
<1>4. p \in Seq(EntryRec) /\ Listed(p, n) /\ FilesOf(p) = FilesOf(old)
  BY ONLY <1>2, <1>3, CopyingFiles, old \in Seq(EntryRec)
<1>5. d \in Seq(EntryRec) /\ Listed(d, n) /\ FilesOf(d) = {} /\ NoConsoles(d)
  BY ONLY <1>2, <1>3, CopiedFiles, old \in Seq(EntryRec)
<1>6. vfs_copy(old).child = d
  BY <1>3 DEF vfs_copy
<1>7. state[t] = "runs" /\ state[c] = "none" /\ c # t
  BY DEF sched_fork, Runs
<1>8. open_files' = [open_files EXCEPT ![t] = p, ![c] = d]
  BY <1>2, <1>3, <1>6 DEF sched_fork
<1>9. \A u \in Tasks : open_files'[u] = IF u = c THEN d ELSE IF u = t THEN p ELSE open_files[u]
  BY <1>7, <1>8 DEF FilesInv
<1>10. /\ state' = [state EXCEPT ![c] = "starts"] /\ is_fork' = [is_fork EXCEPT ![c] = TRUE]
       /\ UNCHANGED <<vfs_next_handle_count, live, unsynced>>
  BY DEF sched_fork
<1>11. FilesOf(open_files[c]) = {}
  <2>1. open_files[c] = <<>>
    BY <1>7 DEF FilesInv
  <2> QED BY <2>1 DEF FilesOf
<1>12. \A u \in Tasks : FilesOf(open_files'[u]) = FilesOf(open_files[u])
  BY <1>2, <1>4, <1>5, <1>9, <1>11
<1>13. /\ open_files' \in [Tasks -> Seq(EntryRec)]
       /\ state' \in [Tasks -> {"none", "starts", "runs"}] /\ is_fork' \in [Tasks -> BOOLEAN]
       /\ vfs_next_handle_count' = vfs_next_handle_count
  BY <1>4, <1>5, <1>8, <1>10 DEF FilesInv
<1>14. \A u \in Tasks : Listed(open_files'[u], vfs_next_handle_count)
  BY <1>1, <1>4, <1>5, <1>9 DEF FilesInv
<1>15. /\ \A u \in Tasks : FilesOf(open_files'[u]) \subseteq FilesOf(open_files[u])
       /\ \A u \in Tasks : FilesOf(open_files'[u]) \subseteq live'
  BY <1>10, <1>12 DEF FilesInv
<1>16. \A u \in Tasks : state'[u] = IF u = c THEN "starts" ELSE state[u]
  BY <1>10 DEF FilesInv
<1>17. /\ \A u \in Tasks : state'[u] = "none" => open_files'[u] = <<>>
       /\ \A u \in Tasks : state'[u] = "starts" => NoConsoles(open_files'[u])
  BY <1>5, <1>7, <1>9, <1>16 DEF FilesInv
<1>18. FilesInv'
  BY <1>13, <1>14, <1>15, <1>17, NoNewFiles
<1>19. Kept
  BY <1>12 DEF Kept
<1> QED BY <1>18, <1>19

LEMMA NoEntries ==
  ASSUME NEW n
  PROVE  <<>> \in Seq(EntryRec) /\ Listed(<<>>, n) /\ FilesOf(<<>>) = {} /\ NoConsoles(<<>>)
BY DEF Listed, FilesOf, NoConsoles

\* A step that empties the list of task t, which is not a running task afterwards.
LEMMA ListEmptied ==
  ASSUME FilesInv, NEW t \in Tasks, open_files' = [open_files EXCEPT ![t] = <<>>],
         NEW s \in {"none", "starts"}, state' = [state EXCEPT ![t] = s],
         is_fork' \in [Tasks -> BOOLEAN], UNCHANGED <<vfs_next_handle_count, live>>
  PROVE  FilesInv'
<1>1. \A u \in Tasks : open_files'[u] = IF u = t THEN <<>> ELSE open_files[u]
  BY DEF FilesInv
<1>2. \A u \in Tasks : state'[u] = IF u = t THEN s ELSE state[u]
  BY DEF FilesInv
<1>3. /\ open_files' \in [Tasks -> Seq(EntryRec)]
      /\ state' \in [Tasks -> {"none", "starts", "runs"}]
  BY NoEntries DEF FilesInv
<1>4. \A u \in Tasks : Listed(open_files'[u], vfs_next_handle_count)
  BY <1>1, NoEntries DEF FilesInv
<1>5. /\ \A u \in Tasks : FilesOf(open_files'[u]) \subseteq FilesOf(open_files[u])
      /\ \A u \in Tasks : FilesOf(open_files'[u]) \subseteq live'
  BY <1>1, NoEntries DEF FilesInv
<1>6. /\ \A u \in Tasks : state'[u] = "none" => open_files'[u] = <<>>
      /\ \A u \in Tasks : state'[u] = "starts" => NoConsoles(open_files'[u])
  BY <1>1, <1>2, NoEntries DEF FilesInv
<1> QED BY <1>3, <1>4, <1>5, <1>6, NoNewFiles

\* sched_spawn.
LEMMA StepSpawn ==
  ASSUME FilesInv, NEW t \in Tasks, NEW c \in Tasks, sched_spawn(t, c)
  PROVE  FilesInv' /\ Kept
<1>1. /\ state[c] = "none" /\ open_files' = [open_files EXCEPT ![c] = <<>>]
      /\ state' = [state EXCEPT ![c] = "starts"] /\ is_fork' = [is_fork EXCEPT ![c] = FALSE]
      /\ UNCHANGED <<vfs_next_handle_count, live, unsynced>>
  BY DEF sched_spawn
<1>2. is_fork' \in [Tasks -> BOOLEAN]
  BY <1>1 DEF FilesInv
<1>3. FilesInv'
  BY <1>1, <1>2, ListEmptied
<1>4. \A u \in Tasks : open_files'[u] = open_files[u]
  BY <1>1 DEF FilesInv
<1>5. Kept
  BY <1>4 DEF Kept
<1> QED BY <1>3, <1>5

\* sched_execve.
LEMMA StepExecve ==
  ASSUME FilesInv, NEW t \in Tasks, sched_execve(t)
  PROVE  FilesInv' /\ Runs(t) /\ state'[t] # "runs"
<1>1. /\ Runs(t) /\ open_files' = [open_files EXCEPT ![t] = <<>>]
      /\ state' = [state EXCEPT ![t] = "starts"] /\ is_fork' = [is_fork EXCEPT ![t] = FALSE]
      /\ UNCHANGED <<vfs_next_handle_count, live, unsynced>>
  BY DEF sched_execve, AfterCloseAll
<1>2. is_fork' \in [Tasks -> BOOLEAN]
  BY <1>1 DEF FilesInv
<1>3. FilesInv'
  BY <1>1, <1>2, ListEmptied
<1> QED BY <1>1, <1>3 DEF FilesInv

\* sched_exit.
LEMMA StepExit ==
  ASSUME FilesInv, NEW t \in Tasks, sched_exit(t)
  PROVE  FilesInv' /\ Runs(t) /\ state'[t] # "runs"
<1>1. /\ Runs(t) /\ open_files' = [open_files EXCEPT ![t] = <<>>]
      /\ state' = [state EXCEPT ![t] = "none"]
      /\ UNCHANGED <<is_fork, vfs_next_handle_count, live, unsynced>>
  BY DEF sched_exit, AfterCloseAll
<1>2. is_fork' \in [Tasks -> BOOLEAN]
  BY <1>1 DEF FilesInv
<1>3. FilesInv'
  BY <1>1, <1>2, ListEmptied
<1> QED BY <1>1, <1>3 DEF FilesInv

\* _sched_do_execve.
LEMMA StepDoExecve ==
  ASSUME FilesInv, NEW t \in Tasks, sched_do_execve(t)
  PROVE  FilesInv' /\ Kept
<1>1. PICK n \in Nat : n = vfs_next_handle_count /\ VFS_MIN_HANDLE <= n /\ NewHandle = n + 1
  BY DEF FilesInv, NewHandle
<1>2. state[t] = "starts" /\ state' = [state EXCEPT ![t] = "runs"] /\ is_fork' = is_fork
  BY DEF sched_do_execve
<1>3. PICK old \in Seq(EntryRec) : old = open_files[t] /\ Listed(old, n) /\ NoConsoles(old)
  BY <1>1, <1>2 DEF FilesInv
<1>4. PICK list : list = old \o ConsoleEntries
  OBVIOUS
<1>5. list \in Seq(EntryRec) /\ Listed(list, n) /\ FilesOf(list) = FilesOf(old)
  BY ONLY <1>1, <1>3, <1>4, OpenedConsoles, n \in Nat, old \in Seq(EntryRec)
<1>6. \A u \in Tasks : state'[u] = IF u = t THEN "runs" ELSE state[u]
  BY <1>2 DEF FilesInv
<1>7. CASE /\ is_fork[t] /\ open_files' = [open_files EXCEPT ![t] = open_files[t] \o ConsoleEntries]
           /\ UNCHANGED <<vfs_next_handle_count, live>>
  <2>1. open_files' = [open_files EXCEPT ![t] = list]
    BY <1>3, <1>4, <1>7
  <2>2. \A u \in Tasks : open_files'[u] = IF u = t THEN list ELSE open_files[u]
    BY <2>1 DEF FilesInv
  <2>3. \A u \in Tasks : FilesOf(open_files'[u]) = FilesOf(open_files[u])
    BY <2>2, <1>3, <1>5
  <2>4. /\ open_files' \in [Tasks -> Seq(EntryRec)]
        /\ state' \in [Tasks -> {"none", "starts", "runs"}] /\ is_fork' \in [Tasks -> BOOLEAN]
        /\ vfs_next_handle_count' = vfs_next_handle_count
    BY <2>1, <1>2, <1>5, <1>7 DEF FilesInv
  <2>5. \A u \in Tasks : Listed(open_files'[u], vfs_next_handle_count)
    BY <2>2, <1>1, <1>5 DEF FilesInv
  <2>6. /\ \A u \in Tasks : FilesOf(open_files'[u]) \subseteq FilesOf(open_files[u])
        /\ \A u \in Tasks : FilesOf(open_files'[u]) \subseteq live'
    BY <2>3, <1>7 DEF FilesInv
  <2>7. /\ \A u \in Tasks : state'[u] = "none" => open_files'[u] = <<>>
        /\ \A u \in Tasks : state'[u] = "starts" => NoConsoles(open_files'[u])
    BY <2>2, <1>6 DEF FilesInv
  <2>8. FilesInv'
    BY <2>4, <2>5, <2>6, <2>7, NoNewFiles
  <2>9. Kept
    BY <2>3 DEF Kept
  <2> QED BY <2>8, <2>9
<1>8. CASE /\ vfs_next_handle_count' = NewHandle /\ live' = live \union {NewHandle}
           /\ open_files' = [open_files EXCEPT ![t] =
                (open_files[t] \o ConsoleEntries) \o <<Entry(NewHandle, NewHandle, FALSE)>>]
  <2>1. PICK w \in BOOLEAN : w = FALSE
    OBVIOUS
  <2>2. PICK e, l2 : e = Entry(n + 1, n + 1, w) /\ l2 = Append(list, e)
    OBVIOUS
  <2>3. /\ l2 \in Seq(EntryRec) /\ Listed(l2, n + 1)
        /\ OneMore(list, l2, n + 1)
    BY ONLY <2>2, <1>1, <1>5, OpenedFile, n \in Nat, w \in BOOLEAN
  <2>4. open_files' = [open_files EXCEPT ![t] = l2]
    <3>1. list \o <<e>> = Append(list, e)
      BY ONLY <1>5
    <3> QED BY <3>1, <2>1, <2>2, <1>1, <1>3, <1>4, <1>8
  <2>5. /\ Listed(l2, NewHandle)
        /\ \A x : x \in FilesOf(l2) <=> x \in FilesOf(open_files[t]) \/ x = NewHandle
    BY <2>3, <1>1, <1>3, <1>5 DEF OneMore
  <2>6. FilesInv'
    BY ONLY <2>3, <2>4, <2>5, <1>2, <1>8, OneNewFile, FilesInv, t \in Tasks
  <2>7. \A u \in Tasks : open_files'[u] = IF u = t THEN l2 ELSE open_files[u]
    BY <2>4 DEF FilesInv
  <2>8. Kept
    BY <2>3, <2>7, <1>3, <1>5 DEF Kept, OneMore
  <2> QED BY <2>6, <2>8
<1> QED BY <1>7, <1>8 DEF sched_do_execve

LEMMA FilesStep ==
  ASSUME FilesInv, FilesNext
  PROVE  FilesInv' /\ (Kept \/ \E t \in Tasks : Runs(t) /\ state'[t] # "runs")
<1>1. PICK t \in Tasks :
        \/ \E w \in BOOLEAN : vfs_open(t, w)
        \/ sched_do_execve(t) \/ sched_execve(t) \/ sched_exit(t) \/ fork_again(t)
        \/ \E i \in Places(t) : vfs_write(t, i) \/ vfs_close(t, i)
        \/ \E c \in Tasks : sched_fork(t, c) \/ sched_spawn(t, c)
  BY DEF FilesNext
<1>2. CASE \E w \in BOOLEAN : vfs_open(t, w)
  BY <1>2, StepOpen
<1>3. CASE sched_do_execve(t)
  BY <1>3, StepDoExecve
<1>4. CASE sched_execve(t)
  BY <1>4, StepExecve
<1>5. CASE sched_exit(t)
  BY <1>5, StepExit
<1>6. CASE fork_again(t)
  BY <1>6, StepForkAgain
<1>7. CASE \E i \in Places(t) : vfs_write(t, i) \/ vfs_close(t, i)
  BY <1>7, StepWrite, StepClose
<1>8. CASE \E c \in Tasks : sched_fork(t, c) \/ sched_spawn(t, c)
  BY <1>8, StepFork, StepSpawn
<1> QED BY <1>1, <1>2, <1>3, <1>4, <1>5, <1>6, <1>7, <1>8

\* The lists of open files stay well-formed through every open, close, fork,
\* spawn, execve and exit, for any number of tasks, handles and forks.
THEOREM FilesInvariant == FilesSpec => []FilesInv
<1>1. FilesInit => FilesInv
  <2>1. SUFFICES ASSUME FilesInit PROVE FilesInv
    OBVIOUS
  <2>2. /\ open_files = [t \in Tasks |-> <<>>] /\ is_fork = [t \in Tasks |-> FALSE]
        /\ state = [t \in Tasks |-> IF t = Init0 THEN "starts" ELSE "none"]
        /\ vfs_next_handle_count = VFS_MIN_HANDLE
    BY <2>1 DEF FilesInit
  <2>3. /\ open_files \in [Tasks -> Seq(EntryRec)] /\ is_fork \in [Tasks -> BOOLEAN]
        /\ state \in [Tasks -> {"none", "starts", "runs"}]
    BY <2>2, NoEntries
  <2>4. vfs_next_handle_count \in Nat /\ VFS_MIN_HANDLE <= vfs_next_handle_count
    BY <2>2 DEF VFS_MIN_HANDLE
  <2>5. \A t \in Tasks : /\ Listed(open_files[t], vfs_next_handle_count)
                         /\ FilesOf(open_files[t]) = {} /\ NoConsoles(open_files[t])
                         /\ open_files[t] = <<>>
    BY <2>2, NoEntries
  <2> QED BY <2>3, <2>4, <2>5 DEF FilesInv
<1>2. FilesInv /\ [FilesNext]_fileVars => FilesInv'
  <2>1. SUFFICES ASSUME FilesInv, [FilesNext]_fileVars PROVE FilesInv'
    OBVIOUS
  <2>2. CASE FilesNext
    BY <2>1, <2>2, FilesStep
  <2>3. CASE UNCHANGED fileVars
    <3>1. /\ is_fork' \in [Tasks -> BOOLEAN]
          /\ UNCHANGED <<open_files, state, vfs_next_handle_count, live>>
      BY <2>1, <2>3 DEF fileVars, FilesInv
    <3> QED BY <3>1, <2>1, SameFiles
  <2> QED BY <2>1, <2>2, <2>3
<1> QED BY <1>1, <1>2, PTL DEF FilesSpec

\* Held is what FilesOf says of the task's list.
LEMMA HeldIs ==
  ASSUME FilesInv, NEW t \in Tasks
  PROVE  Places(t) = DOMAIN open_files[t] /\ Held(t) = FilesOf(open_files[t])
<1>1. Places(t) = DOMAIN open_files[t]
  BY EntryTypes DEF FilesInv, Places
<1> QED BY <1>1 DEF Held, FilesOf

\* A File of the file system below has one owner: through forks (vfs_copy), new
\* programs and closes, no handle is twice on a list, and at most one entry of
\* one task leads to a File, which is allocated.
THEOREM VfsFilesOwned == FilesSpec => []FilesOwned
<1>1. FilesInv => FilesOwned
  <2>1. SUFFICES ASSUME FilesInv PROVE FilesOwned
    OBVIOUS
  <2>2. \A t \in Tasks : Places(t) = DOMAIN open_files[t] /\ Held(t) = FilesOf(open_files[t])
    BY <2>1, HeldIs
  <2>3. HandlesDistinct
    BY <2>1, <2>2 DEF FilesInv, Listed, HandlesDistinct
  <2>4. /\ \A t \in Tasks : Held(t) \subseteq live
        /\ \A t, u \in Tasks : t # u => Held(t) \cap Held(u) = {}
    BY <2>1, <2>2 DEF FilesInv
  <2>5. ASSUME NEW t \in Tasks, NEW i \in Places(t), NEW j \in Places(t),
               open_files[t][i].file = open_files[t][j].file, i # j
        PROVE  open_files[t][i].file = NoFile
    <3>1. open_files[t][i].fh # open_files[t][j].fh
      BY <2>3, <2>5 DEF HandlesDistinct
    <3>2. /\ open_files[t][i].file \in {NoFile, open_files[t][i].fh}
          /\ open_files[t][j].file \in {NoFile, open_files[t][j].fh}
      BY <2>1, <2>2 DEF FilesInv, Listed
    <3> QED BY <3>1, <3>2, <2>5
  <2> QED BY <2>3, <2>4, <2>5 DEF FilesOwned
<1> QED BY <1>1, FilesInvariant, PTL

\* Changes that have not reached the disk stay within reach of a later vfs_close,
\* unless a task ends or is replaced in this step.
THEOREM VfsChangesHeld == FilesSpec => ChangesHeld
<1>1. ASSUME FilesInv, FilesInv', [FilesNext]_fileVars
      PROVE  [\/ unsynced \cap Reach \cap unsynced' \subseteq Reach'
              \/ \E t \in Tasks : Runs(t) /\ state'[t] # "runs"]_fileVars
  <2>1. SUFFICES ASSUME FilesNext, Kept
                 PROVE  unsynced \cap Reach \cap unsynced' \subseteq Reach'
    BY <1>1, FilesStep
  <2>2. \A t \in Tasks : Held(t) = FilesOf(open_files[t])
    BY <1>1, HeldIs
  <2>3. \A t \in Tasks : Held(t)' = FilesOf(open_files'[t])
    <3>1. TAKE t \in Tasks
    <3>2. open_files'[t] \in Seq(EntryRec)
      BY <1>1 DEF FilesInv
    <3>3. Places(t)' = DOMAIN open_files'[t]
      BY <3>2, EntryTypes DEF Places
    <3> QED BY <3>3 DEF Held, FilesOf
  <2>4. ASSUME NEW x \in unsynced \cap Reach \cap unsynced' PROVE x \in Reach'
    <3>1. PICK t \in Tasks : x \in Held(t)
      BY <2>4 DEF Reach
    <3>2. x \in Held(t)'
      BY <3>1, <2>1, <2>2, <2>3, <2>4 DEF Kept
    <3> QED BY <3>2 DEF Reach
  <2> QED BY <2>4
<1> QED BY <1>1, FilesInvariant, PTL DEF FilesSpec, ChangesHeld

-----------------------------------------------------------------------------
(* Dentries.                                                               *)

\* A name: not one that the walk along a path treats by itself.
IsName(x) == x \notin {Slash, Dot, DotDot, None}

\* A node has a file system and names; the nodes above it exist.
LEMMA NodeFacts ==
  ASSUME NEW d \in Nodes
  PROVE  /\ d = <<d[1], d[2]>> /\ d[1] \in FileSystems
         /\ d[2] \in Seq(Range(d[2])) /\ Len(d[2]) \in Nat /\ DOMAIN d[2] = 1 .. Len(d[2])
         /\ d # None
<1>1. d = <<d[1], d[2]>> /\ d[1] \in FileSystems /\ IsSeq(d[2]) /\ d # None
  BY VfsPathAssumption
<1> QED BY <1>1 DEF IsSeq

LEMMA RootFacts ==
  ASSUME NEW fs \in FileSystems
  PROVE  RootOf(fs) \in Nodes /\ RootOf(fs)[1] = fs /\ IsRoot(RootOf(fs))
BY VfsPathAssumption DEF RootOf, IsRoot

\* Below the root, a node is its parent's child by its last name.
LEMMA Above ==
  ASSUME NEW d \in Nodes, ~IsRoot(d)
  PROVE  /\ <<d[1], Front(d[2])>> \in Nodes
         /\ Len(Front(d[2])) = Len(d[2]) - 1
         /\ IsName(Last(d[2]))
         /\ d[2] = Append(Front(d[2]), Last(d[2]))
<1>1. PICK fs, s, T, n : d = <<fs, s>> /\ fs = d[1] /\ s = d[2] /\ T = Range(s) /\ s \in Seq(T) /\ n = Len(s)
  BY NodeFacts
<1>2. n \in Nat /\ n # 0 /\ DOMAIN s = 1 .. n
  BY <1>1 DEF IsRoot
<1>3. Front(s) = SubSeq(s, 1, n - 1) /\ Last(s) = s[n]
  BY <1>1 DEF Front, Last
<1>4. <<fs, SubSeq(s, 1, n - 1)>> \in Nodes
  <2>1. \A i \in 1 .. Len(d[2]) : <<d[1], SubSeq(d[2], 1, i - 1)>> \in Dirs
    BY ONLY VfsPathAssumption, d \in Nodes
  <2>2. \A i \in 1 .. n : <<fs, SubSeq(s, 1, i - 1)>> \in Dirs
    BY ONLY <2>1, <1>1
  <2>3. Dirs \subseteq Nodes
    BY VfsPathAssumption
  <2>4. n \in 1 .. n
    BY <1>2
  <2> QED BY ONLY <2>2, <2>3, <2>4
<1>5. Len(Front(s)) = n - 1 /\ s = Append(Front(s), Last(s))
  BY ONLY <1>1, <1>2, <1>3
<1>6. s[n] \in T /\ T \cap {Slash, Dot, DotDot, None} = {}
  <2>1. Range(d[2]) \cap {Slash, Dot, DotDot, None} = {}
    BY ONLY VfsPathAssumption, d \in Nodes
  <2> QED BY ONLY <2>1, <1>1, <1>2
<1> QED BY <1>1, <1>3, <1>4, <1>5, <1>6 DEF IsName

-----------------------------------------------------------------------------
(* The walk of vfs_resolve_path.                                           *)

\* Mounts, once the root is there.
Mounts ==
  /\ i_mountpoint \in [Nodes -> FileSystems \union {None}]
  /\ s_parent \in [FileSystems -> Nodes]
  /\ vfs_root \in Nodes

\* File systems that are not left by crossing mounts, down or up.
Closed(F) ==
  /\ vfs_root[1] \in F
  /\ \A d \in Nodes : d[1] \in F /\ i_mountpoint[d] # None => i_mountpoint[d] \in F
  /\ \A fs \in F \cap FileSystems : s_parent[fs][1] \in F

WalkFields == {"rest", "current", "parent", "done", "halts"}

\* The loop has not left F.
Inside(w, F) ==
  /\ DOMAIN w = WalkFields
  /\ w.parent \in Nodes /\ w.parent[1] \in F
  /\ w.current \in {None, w.parent}

LEMMA Parents ==
  ASSUME Mounts, NEW F, Closed(F), NEW d \in Nodes, d[1] \in F
  PROVE  d_parent(d) \in Nodes /\ d_parent(d)[1] \in F
<1>1. d[1] \in FileSystems
  BY NodeFacts
<1>2. CASE IsRoot(d)
  BY <1>1, <1>2 DEF d_parent, Mounts, Closed
<1>3. CASE ~IsRoot(d)
  BY <1>3, Above DEF d_parent
<1> QED BY <1>2, <1>3

LEMMA Crossings ==
  ASSUME Mounts, NEW F, Closed(F), NEW d \in Nodes, d[1] \in F
  PROVE  Crossed(d) \in Nodes /\ Crossed(d)[1] \in F
<1>1. CASE i_mountpoint[d] = None
  BY <1>1 DEF Crossed
<1>2. CASE i_mountpoint[d] # None
  <2>1. i_mountpoint[d] \in FileSystems /\ i_mountpoint[d] \in F
    BY <1>2 DEF Mounts, Closed
  <2> QED BY <2>1, <1>2, RootFacts DEF Crossed
<1> QED BY <1>1, <1>2

LEMMA TurnInside ==
  ASSUME Mounts, NEW F, Closed(F), NEW w, Inside(w, F)
  PROVE  Inside(Turn(w), F)
<1>1. PICK n : n = vfs_next_path(w.rest)
  OBVIOUS
<1>2. PICK v : v = [w EXCEPT !.rest = n.rest]
  OBVIOUS
<1>3. Inside(v, F) /\ v.parent = w.parent
  BY <1>2 DEF Inside, WalkFields
<1>4. Turn(w) \in {w, [w EXCEPT !.done = TRUE], v, Up(v), Down(v, n.next)}
  BY <1>1, <1>2 DEF Turn
<1>5. Inside([w EXCEPT !.done = TRUE], F)
  BY DEF Inside, WalkFields
<1>6. Inside(Up(v), F)
  <2>1. PICK u : u = d_parent(v.parent)
    OBVIOUS
  <2>2. u \in Nodes /\ u[1] \in F
    BY <2>1, <1>3, Parents DEF Inside
  <2>3. Up(v) \in {v, [v EXCEPT !.current = u, !.parent = u]}
    BY <2>1, <1>3 DEF Up, Inside
  <2> QED BY <2>2, <2>3, <1>3 DEF Inside, WalkFields
<1>7. Inside(Down(v, n.next), F)
  <2>1. PICK d : d = <<v.parent[1], Append(v.parent[2], n.next)>>
    OBVIOUS
  <2>2. PICK c : c = Crossed(d)
    OBVIOUS
  <2>3. Down(v, n.next) = IF d \in Nodes THEN [v EXCEPT !.current = c, !.parent = c]
                          ELSE IF v.parent[1] \in NullOnMiss
                            THEN [v EXCEPT !.current = None, !.done = TRUE]
                          ELSE [v EXCEPT !.halts = TRUE, !.done = TRUE]
    BY <2>1, <2>2 DEF Down
  <2>4. CASE d \in Nodes
    <3>1. c \in Nodes /\ c[1] \in F
      BY <2>1, <2>2, <2>4, <1>3, Crossings DEF Inside
    <3> QED BY <3>1, <2>3, <2>4, <1>3 DEF Inside, WalkFields
  <2>5. CASE d \notin Nodes
    BY <2>3, <2>5, <1>3 DEF Inside, WalkFields
  <2> QED BY <2>4, <2>5
<1> QED BY <1>3, <1>4, <1>5, <1>6, <1>7

\* Where the loop starts.
Start(p) == [rest |-> p, current |-> None, parent |-> vfs_root, done |-> FALSE, halts |-> FALSE]

LEMMA TokensSeq ==
  /\ \A T : \A s \in Seq(T) : IsSeq(s)
  /\ IsSeq(<<Slash>>)
<1>1. ASSUME NEW T, NEW s \in Seq(T) PROVE IsSeq(s)
  <2>1. s \in [1 .. Len(s) -> Range(s)] /\ Len(s) \in Nat
    BY DEF Range
  <2> QED BY <2>1 DEF IsSeq
<1>2. <<Slash>> \in Seq({Slash})
  OBVIOUS
<1> QED BY <1>1, <1>2

LEMMA WholePathIsSeq ==
  ASSUME NEW dir, IsSeq(dir), NEW path, IsSeq(path)
  PROVE  Len(WholePath(dir, path)) \in Nat
<1>1. PICK T : T = Range(dir) \union Range(path) \union {Slash}
  OBVIOUS
<1>2. dir \in Seq(T) /\ path \in Seq(T) /\ Slash \in T
  <2>1. Range(dir) \subseteq T /\ Range(path) \subseteq T /\ Slash \in T
    BY <1>1
  <2>2. \A A, B, s : A \subseteq B /\ s \in Seq(A) => s \in Seq(B)
    OBVIOUS
  <2> QED BY <2>1, <2>2 DEF IsSeq
<1>3. WholePath(dir, path) \in Seq(T)
  BY <1>2 DEF WholePath
<1> QED BY <1>3

\* vfs_resolve_path is what the turns of its loop make of the start.
LEMMA ResolveIs ==
  ASSUME NEW dir, IsSeq(dir), NEW path, IsSeq(path), path # <<Slash>>
  PROVE  \E n \in Nat : \E h :
           /\ n = Len(WholePath(dir, path)) + 1
           /\ IsLoop(h, "resolve", <<>>, Start(WholePath(dir, path)), n)
           /\ vfs_resolve_path(dir, path) = h[n]
<1>1. PICK p : p = WholePath(dir, path)
  OBVIOUS
<1>2. PICK n \in Nat : n = Len(p) + 1
  BY <1>1, WholePathIsSeq
<1>3. PICK x : x = Start(p)
  OBVIOUS
<1>4. x.rest = p /\ \E h : IsLoop(h, "resolve", <<>>, x, n)
  BY <1>3, LoopRuns DEF Start
<1>5. PICK h : IsLoop(h, "resolve", <<>>, x, n) /\ vfs_resolve_path(dir, path) = h[n]
  BY ONLY <1>1, <1>2, <1>3, <1>4, path # <<Slash>> DEF vfs_resolve_path, IsLoop, Step, Start
<1> QED BY <1>1, <1>2, <1>3, <1>5

LEMMA ResolveInside ==
  ASSUME Mounts, NEW F, Closed(F), NEW dir, IsSeq(dir), NEW path, IsSeq(path)
  PROVE  Inside(vfs_resolve_path(dir, path), F)
<1>1. PICK x : x = Start(WholePath(dir, path))
  OBVIOUS
<1>2. Inside(x, F) /\ Inside([x EXCEPT !.current = vfs_root], F)
  BY <1>1 DEF Start, Inside, WalkFields, Mounts, Closed
<1>3. CASE path = <<Slash>>
  BY <1>1, <1>2, <1>3 DEF vfs_resolve_path, Start
<1>4. CASE path # <<Slash>>
  <2>1. PICK n \in Nat : \E h : /\ IsLoop(h, "resolve", <<>>, x, n)
                               /\ vfs_resolve_path(dir, path) = h[n]
    BY <1>1, <1>4, ResolveIs
  <2>6. PICK h : IsLoop(h, "resolve", <<>>, x, n) /\ vfs_resolve_path(dir, path) = h[n]
    BY <2>1
  <2>2. h[0] = x /\ \A k \in 0 .. n - 1 : h[k + 1] = Turn(h[k])
    BY <2>6, LoopTurns DEF Step
  <2> DEFINE S == {k \in 0 .. n : Inside(h[k], F)}
  <2>3. 0 \in S
    BY <1>2, <2>2
  <2>4. ASSUME NEW k \in 0 .. n - 1, k \in S PROVE k + 1 \in S
    <3>1. k + 1 \in 0 .. n
      OBVIOUS
    <3> QED BY <3>1, <2>2, <2>4, TurnInside
  <2> HIDE DEF S
  <2>5. n \in S
    <3>1. \A k \in 0 .. n : k \in S
      BY <2>3, <2>4, Climb
    <3> QED BY <3>1
  <2> QED BY <2>6, <2>5 DEF S
<1> QED BY <1>3, <1>4

-----------------------------------------------------------------------------
(* Mounts.                                                                 *)

\* A file system is mounted on a dentry of one that was mounted before, and that
\* is its root's parent.
MountInv ==
  /\ mounted \in 0 .. Len(Boot)
  /\ i_mountpoint \in [Nodes -> FileSystems \union {None}]
  /\ s_parent \in [FileSystems -> Nodes]
  /\ mounted = 0 => vfs_root = None
  /\ mounted # 0 => vfs_root = RootOf(Boot[1].fs)
  /\ s_parent[Boot[1].fs] = RootOf(Boot[1].fs)
  /\ \A i \in 2 .. mounted : \E j \in 1 .. i - 1 : s_parent[Boot[i].fs][1] = Boot[j].fs
  /\ \A d \in Nodes : i_mountpoint[d] # None =>
       \E i \in 2 .. mounted : i_mountpoint[d] = Boot[i].fs /\ s_parent[Boot[i].fs] = d

LEMMA BootFacts ==
  /\ Len(Boot) \in Nat /\ Len(Boot) # 0
  /\ \A i \in 1 .. Len(Boot) : /\ Boot[i].fs \in FileSystems
                               /\ IsSeq(Boot[i].path)
                               /\ Boot[i].path = <<Slash>> <=> i = 1
  /\ \A i, j \in 1 .. Len(Boot) : Boot[i].fs = Boot[j].fs => i = j
<1>1. Boot \in Seq(Range(Boot)) /\ Boot # <<>>
  BY BootAssumption DEF IsSeq
<1>2. Len(Boot) \in Nat /\ Len(Boot) # 0
  BY <1>1
<1> QED BY <1>2, BootAssumption

LEMMA MountsOf ==
  ASSUME MountInv, mounted # 0
  PROVE  Mounts /\ vfs_root[1] = Boot[1].fs /\ Boot[1].fs \in FileSystems /\ mounted \in 1 .. Len(Boot)
<1>1. Len(Boot) \in Nat /\ mounted \in 1 .. Len(Boot) /\ 1 \in 1 .. Len(Boot)
  BY BootFacts DEF MountInv
<1>2. Boot[1].fs \in FileSystems
  BY <1>1, BootFacts
<1> QED BY <1>1, <1>2, RootFacts DEF MountInv, Mounts

MountedFs == {Boot[i].fs : i \in 1 .. mounted}

LEMMA MountedClosed ==
  ASSUME MountInv, mounted # 0
  PROVE  Closed(MountedFs)
<1>1. mounted \in Nat /\ mounted # 0 /\ vfs_root[1] = Boot[1].fs
  BY MountsOf, BootFacts
<1>2. vfs_root[1] \in MountedFs
  BY <1>1 DEF MountedFs
<1>3. ASSUME NEW d \in Nodes, i_mountpoint[d] # None PROVE i_mountpoint[d] \in MountedFs
  <2>1. PICK i \in 2 .. mounted : i_mountpoint[d] = Boot[i].fs
    BY <1>3 DEF MountInv
  <2> QED BY <1>1, <2>1 DEF MountedFs
<1>4. ASSUME NEW i \in 1 .. mounted PROVE s_parent[Boot[i].fs][1] \in MountedFs
  <2>1. CASE i = 1
    BY <2>1, <1>1, <1>2 DEF MountInv
  <2>2. CASE i # 1
    <3>1. i \in 2 .. mounted
      BY <2>2
    <3>2. PICK j \in 1 .. i - 1 : s_parent[Boot[i].fs][1] = Boot[j].fs
      BY <3>1 DEF MountInv
    <3> QED BY <1>1, <3>2 DEF MountedFs
  <2> QED BY <2>1, <2>2
<1> QED BY <1>2, <1>3, <1>4 DEF Closed, MountedFs

\* Sets of file systems each of which is mounted in one of the set, and the
\* largest of them: a later mount on the same dentry hides an earlier one.
Linked(S) ==
  \A fs \in S : \/ fs = vfs_root[1]
                \/ i_mountpoint[s_parent[fs]] = fs /\ s_parent[fs][1] \in S
InTree == UNION {S \in SUBSET FileSystems : Linked(S)}

LEMMA InTreeClosed ==
  ASSUME MountInv, mounted # 0
  PROVE  InTree \subseteq FileSystems /\ Linked(InTree) /\ Closed(InTree)
<1>1. InTree \subseteq FileSystems
  BY DEF InTree
<1>2. Linked(InTree)
  <2>1. SUFFICES ASSUME NEW fs \in InTree, fs # vfs_root[1]
                 PROVE  i_mountpoint[s_parent[fs]] = fs /\ s_parent[fs][1] \in InTree
    BY DEF Linked
  <2>2. PICK S \in SUBSET FileSystems : Linked(S) /\ fs \in S
    BY DEF InTree
  <2>3. i_mountpoint[s_parent[fs]] = fs /\ s_parent[fs][1] \in S
    BY <2>1, <2>2 DEF Linked
  <2> QED BY <2>2, <2>3 DEF InTree
<1>3. vfs_root[1] \in InTree
  <2>1. {vfs_root[1]} \in SUBSET FileSystems /\ Linked({vfs_root[1]})
    BY MountsOf DEF Linked
  <2> QED BY <2>1 DEF InTree
<1>4. ASSUME NEW d \in Nodes, d[1] \in InTree, i_mountpoint[d] # None PROVE i_mountpoint[d] \in InTree
  <2>1. PICK i \in 2 .. mounted : i_mountpoint[d] = Boot[i].fs /\ s_parent[Boot[i].fs] = d
    BY <1>4 DEF MountInv
  <2>2. PICK fs \in FileSystems : fs = i_mountpoint[d]
    BY <1>4 DEF MountInv
  <2>3. s_parent[fs] = d
    BY <2>1, <2>2
  <2>4. PICK S : S = InTree \union {fs}
    OBVIOUS
  <2>5. Linked(S)
    BY <2>2, <2>3, <2>4, <1>2, <1>4 DEF Linked
  <2>6. S \in SUBSET FileSystems /\ fs \in S
    BY <2>2, <2>4, <1>1
  <2> QED BY <2>2, <2>5, <2>6 DEF InTree
<1>5. ASSUME NEW fs \in InTree PROVE s_parent[fs][1] \in InTree
  <2>1. CASE fs = vfs_root[1]
    BY <2>1, <1>3, MountsOf DEF MountInv
  <2>2. CASE fs # vfs_root[1]
    BY <2>2, <1>2 DEF Linked
  <2> QED BY <2>1, <2>2
<1> QED BY <1>1, <1>2, <1>3, <1>4, <1>5 DEF Closed

-----------------------------------------------------------------------------
(* The way up.                                                             *)

\* e is on an earlier file system than d, or nearer to the root of the same one.
Higher(e, d) ==
  \E i, j \in 1 .. Len(Boot) :
    /\ e[1] = Boot[i].fs /\ d[1] = Boot[j].fs
    /\ i < j \/ (i = j /\ Len(e[2]) < Len(d[2]))

LEMMA HigherOrder ==
  /\ \A d \in Nodes : ~Higher(d, d)
  /\ \A d, e, f \in Nodes : Higher(d, e) /\ Higher(e, f) => Higher(d, f)
<1>1. ASSUME NEW d \in Nodes, Higher(d, d) PROVE FALSE
  <2>1. PICK i, j \in 1 .. Len(Boot) : /\ d[1] = Boot[i].fs /\ d[1] = Boot[j].fs
                                       /\ i < j \/ (i = j /\ Len(d[2]) < Len(d[2]))
    BY <1>1 DEF Higher
  <2>2. Len(Boot) \in Nat /\ i = j /\ Len(d[2]) \in Nat
    BY <2>1, BootFacts, NodeFacts
  <2> QED BY <2>1, <2>2
<1>2. ASSUME NEW d \in Nodes, NEW e \in Nodes, NEW f \in Nodes, Higher(d, e), Higher(e, f)
      PROVE  Higher(d, f)
  <2>1. PICK i, j \in 1 .. Len(Boot) : /\ d[1] = Boot[i].fs /\ e[1] = Boot[j].fs
                                       /\ i < j \/ (i = j /\ Len(d[2]) < Len(e[2]))
    BY <1>2 DEF Higher
  <2>2. PICK k, l \in 1 .. Len(Boot) : /\ e[1] = Boot[k].fs /\ f[1] = Boot[l].fs
                                       /\ k < l \/ (k = l /\ Len(e[2]) < Len(f[2]))
    BY <1>2 DEF Higher
  <2>3. Len(Boot) \in Nat /\ j = k
    BY <2>1, <2>2, BootFacts
  <2>4. Len(d[2]) \in Nat /\ Len(e[2]) \in Nat /\ Len(f[2]) \in Nat
    BY NodeFacts
  <2>5. i < l \/ (i = l /\ Len(d[2]) < Len(f[2]))
    BY ONLY <2>1, <2>2, <2>3, <2>4
  <2> QED BY <2>1, <2>2, <2>5 DEF Higher
<1> QED BY <1>1, <1>2

\* The root of a file system in the tree is the root of all, or its parent is the
\* dentry it is mounted on.
LEMMA RootInTree ==
  ASSUME MountInv, mounted # 0, NEW d \in Nodes, d[1] \in InTree, IsRoot(d), d # vfs_root
  PROVE  /\ d_parent(d) \in Nodes /\ i_mountpoint[d_parent(d)] = d[1]
         /\ d = Crossed(d_parent(d))
         /\ \E i \in 2 .. mounted : d[1] = Boot[i].fs /\ s_parent[Boot[i].fs] = d_parent(d)
<1>1. PICK fs \in FileSystems : fs = d[1] /\ d = RootOf(fs)
  BY NodeFacts DEF IsRoot, RootOf
<1>2. vfs_root = RootOf(vfs_root[1])
  BY MountsOf DEF MountInv
<1>3. fs # vfs_root[1] /\ d_parent(d) = s_parent[fs]
  BY <1>1, <1>2 DEF d_parent
<1>4. i_mountpoint[s_parent[fs]] = fs
  BY <1>1, <1>3, InTreeClosed DEF Linked
<1>5. s_parent[fs] \in Nodes /\ fs # None
  BY VfsPathAssumption DEF MountInv
<1>6. PICK i \in 2 .. mounted : fs = Boot[i].fs
  BY <1>4, <1>5 DEF MountInv
<1> QED BY <1>1, <1>3, <1>4, <1>5, <1>6 DEF Crossed

LEMMA ParentHigher ==
  ASSUME MountInv, mounted # 0, NEW d \in Nodes, d[1] \in InTree, d # vfs_root
  PROVE  /\ d_parent(d) \in Nodes /\ d_parent(d)[1] \in InTree
         /\ Higher(d_parent(d), d) /\ d_parent(d) # d
<1>1. d_parent(d) \in Nodes /\ d_parent(d)[1] \in InTree
  BY MountsOf, InTreeClosed, Parents
<1>2. mounted \in 1 .. Len(Boot) /\ Len(Boot) \in Nat
  BY MountsOf, BootFacts
<1>3. CASE IsRoot(d)
  <2>1. PICK i \in 2 .. mounted : d[1] = Boot[i].fs /\ s_parent[Boot[i].fs] = d_parent(d)
    BY <1>3, RootInTree
  <2>2. PICK j \in 1 .. i - 1 : d_parent(d)[1] = Boot[j].fs
    BY <2>1 DEF MountInv
  <2>3. i \in 1 .. Len(Boot) /\ j \in 1 .. Len(Boot) /\ j < i
    BY <1>2, <2>1, <2>2
  <2>4. Higher(d_parent(d), d)
    BY <2>1, <2>2, <2>3 DEF Higher
  <2> QED BY <2>4, <1>1, HigherOrder
<1>4. CASE ~IsRoot(d)
  <2>1. PICK i \in 1 .. Len(Boot) : d[1] = Boot[i].fs
    <3>1. d[1] \in InTree /\ d[1] \in FileSystems /\ d[1] # None
      BY NodeFacts, VfsPathAssumption
    <3>2. CASE d[1] = vfs_root[1]
      BY <3>2, <1>2, MountsOf
    <3>3. CASE d[1] # vfs_root[1]
      <4>1. i_mountpoint[s_parent[d[1]]] = d[1]
        BY <3>1, <3>3, InTreeClosed DEF Linked
      <4>2. s_parent[d[1]] \in Nodes
        BY <3>1 DEF MountInv
      <4>3. PICK i \in 2 .. mounted : d[1] = Boot[i].fs
        BY <4>1, <4>2, <3>1 DEF MountInv
      <4> QED BY <4>3, <1>2
    <3> QED BY <3>2, <3>3
  <2>2. d_parent(d)[1] = d[1] /\ Len(d_parent(d)[2]) = Len(d[2]) - 1 /\ Len(d[2]) \in Nat
    BY <1>4, Above, NodeFacts DEF d_parent
  <2>3. Higher(d_parent(d), d)
    BY <2>1, <2>2 DEF Higher
  <2> QED BY <2>3, <1>1, HigherOrder
<1> QED BY <1>3, <1>4

\* Slashes and the names of nodes.
Tokens == {Slash} \union UNION {Range(d[2]) : d \in Nodes}

\* The loop of vfs_get_full_path on its way.
Ascending(w) ==
  /\ DOMAIN w = {"d", "path", "done"} /\ ~w.done
  /\ w.d \in Nodes /\ w.d[1] \in InTree
  /\ w.path \in Seq(Tokens)

\* The name that a dentry adds to the path.
NameOf(d) == IF IsRoot(d) THEN <<>> ELSE <<Last(d[2])>>

LEMMA NameIsToken ==
  ASSUME NEW d \in Nodes
  PROVE  NameOf(d) \in Seq(Tokens)
<1>1. CASE IsRoot(d)
  BY <1>1 DEF NameOf
<1>2. CASE ~IsRoot(d)
  <2>1. PICK s, T, n : s = d[2] /\ T = Range(s) /\ s \in Seq(T) /\ n = Len(s)
    BY NodeFacts
  <2>2. n \in Nat /\ n # 0 /\ Last(s) = s[n] /\ s[n] \in T
    BY <2>1, <1>2 DEF IsRoot, Last
  <2>3. Last(d[2]) \in Tokens
    BY <2>1, <2>2 DEF Tokens
  <2> QED BY <2>3, <1>2 DEF NameOf
<1> QED BY <1>1, <1>2

LEMMA AscendTurn ==
  ASSUME MountInv, mounted # 0, NEW w, Ascending(w), w.d # vfs_root
  PROVE  /\ Ascending(PathTurn(w))
         /\ PathTurn(w).d = d_parent(w.d)
         /\ PathTurn(w).path = <<Slash>> \o (NameOf(w.d) \o w.path)
<1>1. PICK d, p : d = w.d /\ p = w.path
  OBVIOUS
<1>2. PICK u, q : u = d_parent(d) /\ q = NameOf(d) \o p
  OBVIOUS
<1>3. u \in Nodes /\ u[1] \in InTree /\ u # d
  BY <1>1, <1>2, ParentHigher DEF Ascending
<1>4. q \in Seq(Tokens) /\ <<Slash>> \in Seq(Tokens) /\ <<Slash>> \o q \in Seq(Tokens)
  <2>1. NameOf(d) \in Seq(Tokens) /\ p \in Seq(Tokens) /\ Slash \in Tokens
    BY <1>1, NameIsToken DEF Ascending, Tokens
  <2> QED BY <2>1, <1>2
<1>5. PathTurn(w) = [w EXCEPT !.path = <<Slash>> \o q, !.d = u]
  BY <1>1, <1>2, <1>3 DEF PathTurn, NameOf, Ascending
<1>6. PICK t : t = <<Slash>> \o q
  OBVIOUS
<1>7. PICK v : v = PathTurn(w)
  OBVIOUS
<1>8. v = [w EXCEPT !.path = t, !.d = u]
  BY ONLY <1>5, <1>6, <1>7
<1>9. DOMAIN w = {"d", "path", "done"} /\ ~w.done
  BY DEF Ascending
<1>10. DOMAIN v = {"d", "path", "done"} /\ ~v.done /\ v.d = u /\ v.path = t
  BY ONLY <1>8, <1>9
<1>11. Ascending(v)
  BY ONLY <1>3, <1>4, <1>6, <1>10 DEF Ascending
<1> QED BY ONLY <1>1, <1>2, <1>6, <1>7, <1>10, <1>11

InTreeNode(d) == d \in Nodes /\ d[1] \in InTree

\* From parent to parent, the root is reached in fewer turns than there are
\* dentries: none of them is met twice.
LEMMA ComesUp ==
  ASSUME MountInv, mounted # 0, NEW N \in Nat, N = Cardinality(Nodes), NEW f, InTreeNode(f[0]),
         \A k \in 0 .. N - 1 : f[k + 1] = IF f[k] = vfs_root THEN vfs_root ELSE d_parent(f[k])
  PROVE  /\ \A k \in 0 .. N : InTreeNode(f[k])
         /\ \E n \in 0 .. N - 1 : \A k \in 0 .. N : f[k] = vfs_root <=> n <= k
<1>1. \A k \in 0 .. N : InTreeNode(f[k])
  <2> DEFINE S == {k \in 0 .. N : InTreeNode(f[k])}
  <2>1. 0 \in S
    OBVIOUS
  <2>2. ASSUME NEW k \in 0 .. N - 1, k \in S PROVE k + 1 \in S
    <3>1. k + 1 \in 0 .. N
      OBVIOUS
    <3>2. CASE f[k] = vfs_root
      BY <3>1, <3>2, <2>2
    <3>3. CASE f[k] # vfs_root
      BY <3>1, <3>3, <2>2, ParentHigher DEF InTreeNode
    <3> QED BY <3>2, <3>3
  <2> HIDE DEF S
  <2>3. \A k \in 0 .. N : k \in S
    BY <2>1, <2>2, Climb
  <2> QED BY <2>3 DEF S
<1>2. \E k \in 0 .. N - 1 : f[k] = vfs_root
  <2>1. SUFFICES ASSUME \A k \in 0 .. N - 1 : f[k] # vfs_root PROVE FALSE
    OBVIOUS
  <2> DEFINE S == {k \in 0 .. N : \A j \in 0 .. k - 1 : Higher(f[k], f[j])}
  <2>2. 0 \in S
    OBVIOUS
  <2>3. ASSUME NEW k \in 0 .. N - 1, k \in S PROVE k + 1 \in S
    <3>1. k \in 0 .. N /\ k + 1 \in 0 .. N
      OBVIOUS
    <3>2. Higher(f[k + 1], f[k])
      BY <3>1, <2>1, <1>1, ParentHigher DEF InTreeNode
    <3>3. ASSUME NEW j \in 0 .. k PROVE Higher(f[k + 1], f[j])
      <4>1. CASE j = k
        BY <4>1, <3>2
      <4>2. CASE j # k
        <5>1. j \in 0 .. k - 1 /\ j \in 0 .. N
          BY <4>2
        <5>2. Higher(f[k], f[j])
          BY <5>1, <2>3
        <5> QED BY <5>1, <5>2, <3>1, <3>2, <1>1, HigherOrder DEF InTreeNode
      <4> QED BY <4>1, <4>2
    <3>4. (k + 1) - 1 = k
      OBVIOUS
    <3> QED BY <3>1, <3>3, <3>4
  <2>4. \A k \in 0 .. N : k \in S
    <3> HIDE DEF S
    <3> QED BY <2>2, <2>3, Climb
  <2>5. ASSUME NEW j \in 0 .. N, NEW k \in 0 .. N, j < k PROVE f[j] # f[k]
    <3>1. j \in 0 .. k - 1
      BY <2>5
    <3>2. Higher(f[k], f[j])
      BY <3>1, <2>4
    <3> QED BY <3>2, <1>1, HigherOrder DEF InTreeNode
  <2>6. PICK g : g = [k \in 0 .. N |-> f[k]]
    OBVIOUS
  <2>7. g \in [0 .. N -> Nodes] /\ IsFiniteSet(Nodes)
    BY <1>1, <2>6, VfsPathAssumption DEF InTreeNode
  <2>8. IsFiniteSet(0 .. N) /\ Cardinality(0 .. N) = N + 1
    BY FS_Interval
  <2>9. \E j, k \in 0 .. N : j # k /\ g[j] = g[k]
    <3>1. Cardinality(Nodes) < Cardinality(0 .. N)
      BY <2>8
    <3> QED BY ONLY <3>1, <2>7, <2>8, FS_PigeonHole
  <2> QED BY <2>5, <2>6, <2>9
<1>3. PICK n \in 0 .. N - 1 : f[n] = vfs_root /\ \A k \in 0 .. n - 1 : f[k] # vfs_root
  <2> DEFINE D == {k \in 0 .. N - 1 : f[k] = vfs_root}
  <2>1. PICK n \in D : \A k \in D : n <= k
    <3>1. D \in SUBSET Nat /\ D # {}
      BY <1>2
    <3> HIDE DEF D
    <3> QED BY <3>1, LeastOf
  <2> QED BY <2>1
<1>4. \A k \in 0 .. N : n <= k => f[k] = vfs_root
  <2> DEFINE S == {k \in 0 .. N : n <= k => f[k] = vfs_root}
  <2>1. 0 \in S
    BY <1>3
  <2>2. ASSUME NEW k \in 0 .. N - 1, k \in S PROVE k + 1 \in S
    <3>1. k + 1 \in 0 .. N
      OBVIOUS
    <3>2. CASE n <= k
      BY <3>1, <3>2, <2>2
    <3>3. CASE n = k + 1
      BY <3>1, <3>3, <1>3
    <3>4. CASE ~(n <= k) /\ n # k + 1
      BY <3>1, <3>4
    <3> QED BY <3>2, <3>3, <3>4
  <2> HIDE DEF S
  <2>3. \A k \in 0 .. N : k \in S
    BY <2>1, <2>2, Climb
  <2> QED BY <2>3 DEF S
<1>5. \A k \in 0 .. N : f[k] = vfs_root => n <= k
  BY <1>3
<1> QED BY <1>1, <1>4, <1>5

\* So does the loop of vfs_get_full_path.
LEMMA Ascends ==
  ASSUME MountInv, mounted # 0, NEW N \in Nat, N = Cardinality(Nodes),
         NEW h, NEW x, Ascending(x), IsLoop(h, "path", <<>>, x, N)
  PROVE  \E n \in 0 .. N :
           /\ h[n].d = vfs_root /\ h[N] = h[n]
           /\ \A k \in 0 .. n : Ascending(h[k])
           /\ \A k \in 0 .. n - 1 :
                /\ h[k].d # vfs_root
                /\ h[k + 1].d = d_parent(h[k].d)
                /\ h[k + 1].path = <<Slash>> \o (NameOf(h[k].d) \o h[k].path)
<1>1. h[0] = x /\ \A k \in 0 .. N - 1 : h[k + 1] = PathTurn(h[k])
  BY LoopTurns DEF Step
<1>2. \A w : w.d = vfs_root => PathTurn(w) = w
  BY DEF PathTurn
<1>3. \A k \in 0 .. N : Ascending(h[k])
  <2> DEFINE S == {k \in 0 .. N : Ascending(h[k])}
  <2>1. 0 \in S
    BY <1>1
  <2>2. ASSUME NEW k \in 0 .. N - 1, k \in S PROVE k + 1 \in S
    <3>1. k + 1 \in 0 .. N /\ h[k + 1] = PathTurn(h[k])
      BY <1>1
    <3>2. Ascending(PathTurn(h[k]))
      BY <2>2, <1>2, AscendTurn
    <3> QED BY <3>1, <3>2
  <2> HIDE DEF S
  <2>3. \A k \in 0 .. N : k \in S
    BY <2>1, <2>2, Climb
  <2> QED BY <2>3 DEF S
<1>4. ASSUME NEW k \in 0 .. N - 1, h[k].d # vfs_root
      PROVE  /\ h[k + 1].d = d_parent(h[k].d)
             /\ h[k + 1].path = <<Slash>> \o (NameOf(h[k].d) \o h[k].path)
  <2>1. k \in 0 .. N /\ h[k + 1] = PathTurn(h[k])
    BY <1>1
  <2> QED BY <2>1, <1>3, <1>4, AscendTurn
<1>5. PICK f : f = [k \in 0 .. N |-> h[k].d]
  OBVIOUS
<1>6. ASSUME NEW k \in 0 .. N - 1
      PROVE  f[k + 1] = IF f[k] = vfs_root THEN vfs_root ELSE d_parent(f[k])
  <2>1. k \in 0 .. N /\ k + 1 \in 0 .. N
    OBVIOUS
  <2>2. f[k] = h[k].d /\ f[k + 1] = h[k + 1].d
    BY <2>1, <1>5
  <2> QED BY <2>2, <1>1, <1>2, <1>4
<1>7. InTreeNode(f[0])
  BY <1>1, <1>5 DEF Ascending, InTreeNode
<1>8. PICK n \in 0 .. N - 1 : \A k \in 0 .. N : f[k] = vfs_root <=> n <= k
  BY <1>6, <1>7, ComesUp
<1>9. h[n].d = vfs_root /\ n \in 0 .. N /\ \A k \in 0 .. N : n <= k => h[k].d = vfs_root
  BY <1>5, <1>8
<1>10. h[N] = h[n]
  <2> DEFINE S == {k \in 0 .. N : n <= k => h[k] = h[n]}
  <2>1. 0 \in S
    BY <1>9
  <2>2. ASSUME NEW k \in 0 .. N - 1, k \in S PROVE k + 1 \in S
    <3>1. k + 1 \in 0 .. N
      OBVIOUS
    <3>2. CASE n <= k
      <4>1. h[k] = h[n] /\ h[k].d = vfs_root
        BY <3>2, <2>2, <1>9
      <4> QED BY <4>1, <3>1, <1>1, <1>2
    <3>3. CASE ~(n <= k)
      BY <3>1, <3>3
    <3> QED BY <3>2, <3>3
  <2> HIDE DEF S
  <2>3. \A k \in 0 .. N : k \in S
    BY <2>1, <2>2, Climb
  <2> QED BY <2>3 DEF S
<1>11. \A k \in 0 .. n : Ascending(h[k])
  BY <1>3
<1>12. ASSUME NEW k \in 0 .. n - 1
       PROVE  /\ h[k].d # vfs_root
              /\ h[k + 1].d = d_parent(h[k].d)
              /\ h[k + 1].path = <<Slash>> \o (NameOf(h[k].d) \o h[k].path)
  <2>1. k \in 0 .. N - 1 /\ k \in 0 .. N /\ ~(n <= k)
    OBVIOUS
  <2> QED BY <2>1, <1>4, <1>5, <1>8
<1> QED BY ONLY <1>9, <1>10, <1>11, <1>12

-----------------------------------------------------------------------------
(* And down again.                                                         *)

\* A file system is mounted on a dentry with none below it, and not on a root.
MountsBare ==
  \A m \in Nodes : i_mountpoint[m] # None =>
    ~IsRoot(m) /\ \A d \in Nodes : ~IsRoot(d) => d_parent(d) # m

\* Without a slash at the end.
Trimmed(p) == IF p # <<>> /\ Last(p) = Slash THEN Front(p) ELSE p

LEMMA TrimmedSeq ==
  ASSUME NEW T, NEW p \in Seq(T)
  PROVE  Trimmed(p) \in Seq(T)
<1>1. PICK n \in Nat : n = Len(p)
  OBVIOUS
<1>2. p # <<>> => SubSeq(p, 1, n - 1) \in Seq(T)
  BY <1>1
<1> QED BY <1>1, <1>2 DEF Trimmed, Front

LEMMA TrimmedBehind ==
  ASSUME NEW T, NEW p \in Seq(T), NEW a \in T, p # <<>>
  PROVE  Trimmed(<<a>> \o p) = <<a>> \o Trimmed(p)
<1>1. PICK n \in Nat : n = Len(p) /\ n # 0 /\ p \in [1 .. n -> T]
  OBVIOUS
<1>2. PICK q : q = <<a>> \o p
  OBVIOUS
<1>3. q \in Seq(T) /\ Len(q) = n + 1 /\ q # <<>> /\ q[n + 1] = p[n]
  BY <1>1, <1>2
<1>4. Last(q) = Last(p)
  BY <1>1, <1>3 DEF Last
<1>5. SubSeq(q, 1, n) = <<a>> \o SubSeq(p, 1, n - 1)
  <2>1. PICK u, v : u = SubSeq(q, 1, n) /\ v = <<a>> \o SubSeq(p, 1, n - 1)
    OBVIOUS
  <2>2. u \in Seq(T) /\ v \in Seq(T) /\ Len(u) = n /\ Len(v) = n
    BY <2>1, <1>1, <1>3
  <2>3. \A i \in 1 .. n : u[i] = v[i]
    BY <2>1, <1>1, <1>2
  <2> QED BY <2>1, <2>2, <2>3
<1>6. Front(q) = <<a>> \o Front(p)
  BY <1>1, <1>3, <1>5 DEF Front
<1> QED BY <1>2, <1>3, <1>4, <1>6 DEF Trimmed

LEMMA TrimmedOne ==
  ASSUME NEW a
  PROVE  Trimmed(<<a>> \o <<>>) = IF a = Slash THEN <<>> ELSE <<a>>
<1>1. <<a>> \o <<>> = <<a>>
  BY <<a>> \in Seq({a})
<1>2. Last(<<a>>) = a /\ Front(<<a>>) = <<>> /\ <<a>> # <<>>
  BY DEF Last, Front
<1> QED BY <1>1, <1>2 DEF Trimmed

\* A name at the front stays, and so does the slash before it.
LEMMA TrimmedName ==
  ASSUME NEW T, NEW p \in Seq(T), NEW x \in T, x # Slash, Slash \in T
  PROVE  Trimmed(<<Slash>> \o (<<x>> \o p)) = <<Slash>> \o (<<x>> \o Trimmed(p))
<1>1. Trimmed(<<x>> \o p) = <<x>> \o Trimmed(p)
  <2>1. CASE p = <<>>
    <3>1. Trimmed(p) = <<>>
      BY <2>1 DEF Trimmed
    <3>2. <<x>> \o <<>> = <<x>>
      BY <<x>> \in Seq(T)
    <3> QED BY <3>1, <3>2, <2>1, TrimmedOne
  <2>2. CASE p # <<>>
    BY <2>2, TrimmedBehind
  <2> QED BY <2>1, <2>2
<1>2. <<x>> \o p \in Seq(T) /\ <<x>> \o p # <<>>
  OBVIOUS
<1> QED BY <1>1, <1>2, TrimmedBehind

\* One slash before p is eaten with the name before it, whatever follows.
LEMMA TrimmedSlash ==
  ASSUME NEW T, NEW p \in Seq(T), Slash \in T, NEW z \in Seq(T)
  PROVE  DropSlash(Trimmed(<<Slash>> \o (<<>> \o p)) \o z)
           \in {Trimmed(p) \o z, DropSlash(Trimmed(p) \o z)}
<1>1. <<>> \o p = p
  OBVIOUS
<1>2. CASE p = <<>>
  <2>1. Trimmed(<<Slash>> \o <<>>) = <<>> /\ Trimmed(p) = <<>>
    BY <1>2, TrimmedOne DEF Trimmed
  <2> QED BY <2>1, <1>1, <1>2
<1>3. CASE p # <<>>
  <2>1. PICK q \in Seq(T) : q = Trimmed(p)
    BY TrimmedSeq
  <2>2. Trimmed(<<Slash>> \o p) = <<Slash>> \o q
    BY <1>3, <2>1, TrimmedBehind
  <2>3. q \o z \in Seq(T)
    BY ONLY q \in Seq(T), z \in Seq(T)
  <2>6. PICK y \in Seq(T) : y = q \o z
    BY <2>3
  <2>4. (<<Slash>> \o q) \o z = <<Slash>> \o y
    BY <2>6
  <2>5. <<Slash>> \o y # <<>> /\ Head(<<Slash>> \o y) = Slash /\ Tail(<<Slash>> \o y) = y
    OBVIOUS
  <2> QED BY <2>1, <2>2, <2>6, <2>4, <2>5, <1>1 DEF DropSlash
<1> QED BY <1>2, <1>3

\* vfs_next_path finds a name at the front of r, with or without a slash before it.
LEMMA NextName ==
  ASSUME NEW T, NEW q \in Seq(T), NEW x \in T, IsName(x), Slash \in T,
         NEW r, r \in {<<Slash>> \o (<<x>> \o q), DropSlash(<<Slash>> \o (<<x>> \o q))}
  PROVE  /\ vfs_next_path(r) = [next |-> x, rest |-> DropSlash(q)]
         /\ Len(r) \in Nat /\ Len(DropSlash(q)) \in Nat /\ Len(DropSlash(q)) < Len(r)
<1>1. PICK s : s = <<x>> \o q
  OBVIOUS
<1>2. s \in Seq(T) /\ s # <<>> /\ Head(s) = x /\ Tail(s) = q /\ Len(s) = Len(q) + 1
  BY <1>1
<1>3. x # Slash
  BY DEF IsName
<1>4. PICK t : t = <<Slash>> \o s
  OBVIOUS
<1>5. t \in Seq(T) /\ t # <<>> /\ Head(t) = Slash /\ Tail(t) = s /\ Len(t) = Len(s) + 1
  BY <1>2, <1>4
<1>6. DropSlash(t) = s /\ DropSlash(s) = s
  BY <1>2, <1>3, <1>5 DEF DropSlash
<1>7. r \in {t, s}
  BY <1>1, <1>4, <1>6
<1>8. vfs_next_path(r) = [next |-> x, rest |-> DropSlash(q)]
  BY <1>2, <1>3, <1>6, <1>7 DEF vfs_next_path
<1>9. Len(DropSlash(q)) \in Nat /\ Len(DropSlash(q)) <= Len(q)
  <2>1. q # <<>> => Tail(q) \in Seq(T) /\ Len(Tail(q)) = Len(q) - 1
    OBVIOUS
  <2> QED BY <2>1 DEF DropSlash
<1> QED BY <1>2, <1>5, <1>7, <1>8, <1>9

\* The turns h of vfs_get_full_path from a dentry that nothing is mounted on, up to
\* the root in the n-th.
Trace(h, n) ==
  /\ \A k \in 0 .. n : Ascending(h[k])
  /\ \A k \in 0 .. n - 1 :
       /\ h[k].d # vfs_root
       /\ h[k + 1].d = d_parent(h[k].d)
       /\ h[k + 1].path = <<Slash>> \o (NameOf(h[k].d) \o h[k].path)
  /\ h[n].d = vfs_root
  /\ h[0].path = <<>> /\ i_mountpoint[h[0].d] = None

\* vfs_resolve_path has come to the k-th of those dentries, with the path from there
\* before it, and z behind that.
OnWay(w, h, k, n, z) ==
  /\ DOMAIN w = WalkFields /\ ~w.halts /\ ~w.done
  /\ w.parent = h[k].d /\ i_mountpoint[h[k].d] = None
  /\ w.rest \in {Trimmed(h[k].path) \o z, DropSlash(Trimmed(h[k].path) \o z)}
  /\ k # n => w.current = w.parent

\* A turn leads to the dentry before, or over a mount to the one before that.
LEMMA DescendTurn ==
  ASSUME MountInv, mounted # 0, MountsBare, NEW n \in Nat, NEW h, Trace(h, n),
         NEW T, Tokens \subseteq T, NEW z \in Seq(T),
         NEW k \in 1 .. n, NEW w, OnWay(w, h, k, n, z)
  PROVE  \E j \in 0 .. k - 1 :
           OnWay(Turn(w), h, j, n, z) /\ Len(w.rest) \in Nat /\ Len(Turn(w).rest) \in Nat
                                   /\ Len(Turn(w).rest) < Len(w.rest)
<1>1. PICK l \in 0 .. n - 1 : k = l + 1 /\ l \in 0 .. n /\ l # n
  <2>1. k - 1 \in 0 .. n - 1 /\ k = (k - 1) + 1 /\ k - 1 \in 0 .. n /\ k - 1 # n
    OBVIOUS
  <2> QED BY ONLY <2>1
<1>2. PICK c, p : c = h[l].d /\ p = h[l].path
  OBVIOUS
<1>3. /\ c \in Nodes /\ c[1] \in InTree /\ c # vfs_root /\ p \in Seq(Tokens)
      /\ h[k].d = d_parent(c) /\ h[k].path = <<Slash>> \o (NameOf(c) \o p)
  BY <1>1, <1>2 DEF Trace, Ascending
<1>4. ~IsRoot(c)
  <2>1. SUFFICES ASSUME IsRoot(c) PROVE FALSE
    OBVIOUS
  <2>2. i_mountpoint[d_parent(c)] = c[1] /\ c[1] # None
    BY <2>1, <1>3, RootInTree, NodeFacts, VfsPathAssumption
  <2> QED BY <2>2, <1>3 DEF OnWay
<1>5. PICK x : x = Last(c[2])
  OBVIOUS
<1>6. /\ IsName(x) /\ NameOf(c) = <<x>> /\ x \in Tokens
      /\ <<d_parent(c)[1], Append(d_parent(c)[2], x)>> = c
  <2>1. IsName(x) /\ c[2] = Append(Front(c[2]), x) /\ c = <<c[1], c[2]>>
    BY <1>3, <1>4, <1>5, Above, NodeFacts
  <2>2. d_parent(c) = <<c[1], Front(c[2])>> /\ NameOf(c) = <<x>>
    BY <1>4, <1>5 DEF d_parent, NameOf
  <2>3. <<x>> \in Seq(Tokens)
    BY <2>2, <1>3, NameIsToken
  <2>4. x \in Tokens
    BY <2>3
  <2> QED BY <2>1, <2>2, <2>4
<1>7. PICK q \in Seq(T) : q = Trimmed(p) \o z
  <2>1. \A A, B, s : A \subseteq B /\ s \in Seq(A) => s \in Seq(B)
    OBVIOUS
  <2>2. Trimmed(p) \in Seq(T)
    BY <1>3, <2>1, TrimmedSeq
  <2>3. Trimmed(p) \o z \in Seq(T)
    BY <2>2
  <2> QED BY <2>3
<1>8. Slash \in Tokens /\ Slash \in T /\ x \in T /\ x # Slash /\ x \notin {None, Dot, DotDot}
  BY <1>6 DEF Tokens, IsName
<1>9. Trimmed(h[k].path) \o z = <<Slash>> \o (<<x>> \o q)
  <2>1. PICK u : u = Trimmed(p)
    OBVIOUS
  <2>2. Trimmed(h[k].path) = <<Slash>> \o (<<x>> \o u)
    BY <2>1, <1>3, <1>6, <1>8, TrimmedName
  <2>3. u \in Seq(T)
    <3>1. u \in Seq(Tokens)
      BY <2>1, <1>3, TrimmedSeq
    <3> QED BY <3>1
  <2>4. (<<Slash>> \o (<<x>> \o u)) \o z = <<Slash>> \o (<<x>> \o (u \o z))
    BY ONLY <2>3, <1>8, z \in Seq(T)
  <2> QED BY <2>1, <2>2, <2>4, <1>7
<1>10. PICK r : r = w.rest
  OBVIOUS
<1>11. r \in {<<Slash>> \o (<<x>> \o q), DropSlash(<<Slash>> \o (<<x>> \o q))}
  BY <1>9, <1>10 DEF OnWay
<1>12. PICK s : s = DropSlash(q)
  OBVIOUS
<1>13. /\ vfs_next_path(r) = [next |-> x, rest |-> s]
       /\ Len(r) \in Nat /\ Len(s) \in Nat /\ Len(s) < Len(r)
  BY ONLY <1>6, <1>7, <1>8, <1>11, <1>12, NextName
<1>14. PICK e : e = Crossed(c)
  OBVIOUS
<1>15. PICK v : v = [w EXCEPT !.rest = s]
  OBVIOUS
<1>16. DOMAIN w = WalkFields /\ ~w.halts /\ ~w.done /\ w.parent = d_parent(c)
  BY <1>3 DEF OnWay
<1>17. DOMAIN v = WalkFields /\ ~v.halts /\ ~v.done /\ v.parent = d_parent(c) /\ v.rest = s
  BY ONLY <1>15, <1>16 DEF WalkFields
<1>18. Turn(w) = Down(v, x)
  BY <1>8, <1>10, <1>13, <1>15, <1>16 DEF Turn
<1>19. Down(v, x) = [v EXCEPT !.current = e, !.parent = e]
  BY <1>3, <1>6, <1>14, <1>17 DEF Down
<1>20. PICK y : y = Turn(w)
  OBVIOUS
<1>21. DOMAIN y = WalkFields /\ ~y.halts /\ ~y.done /\ y.parent = e /\ y.current = e /\ y.rest = s
  BY ONLY <1>17, <1>18, <1>19, <1>20 DEF WalkFields
<1>22. \E j \in 0 .. k - 1 : OnWay(y, h, j, n, z)
  <2>1. CASE i_mountpoint[c] = None
    <3>1. e = c /\ s = DropSlash(Trimmed(h[l].path) \o z)
      BY <2>1, <1>2, <1>7, <1>12, <1>14 DEF Crossed
    <3>2. OnWay(y, h, l, n, z)
      BY <3>1, <2>1, <1>2, <1>21 DEF OnWay
    <3> QED BY <3>2, <1>1
  <2>2. CASE i_mountpoint[c] # None
    <3>1. l # 0
      BY <2>2, <1>2 DEF Trace
    <3>2. PICK m \in 0 .. n - 1 : l = m + 1 /\ m \in 0 .. n /\ m # n
      <4>1. l - 1 \in 0 .. n - 1 /\ l = (l - 1) + 1 /\ l - 1 \in 0 .. n /\ l - 1 # n
        BY <3>1
      <4> QED BY ONLY <4>1
    <3>3. PICK b, p2 : b = h[m].d /\ p2 = h[m].path
      OBVIOUS
    <3>4. /\ b \in Nodes /\ b[1] \in InTree /\ b # vfs_root /\ p2 \in Seq(Tokens)
          /\ c = d_parent(b) /\ p = <<Slash>> \o (NameOf(b) \o p2)
      BY <3>2, <3>3, <1>2 DEF Trace, Ascending
    <3>5. IsRoot(b)
      BY <3>4, <2>2, <1>3 DEF MountsBare
    <3>6. b = e /\ NameOf(b) = <<>>
      BY <3>4, <3>5, <1>14, RootInTree DEF NameOf
    <3>7. i_mountpoint[b] = None
      BY <3>4, <3>5 DEF MountsBare
    <3>8. s \in {Trimmed(p2) \o z, DropSlash(Trimmed(p2) \o z)}
      <4>1. p2 \in Seq(T)
        BY <3>4
      <4> QED BY <4>1, <3>4, <3>6, <1>7, <1>8, <1>12, TrimmedSlash
    <3>9. OnWay(y, h, m, n, z)
      BY <3>2, <3>3, <3>6, <3>7, <3>8, <1>21 DEF OnWay
    <3>10. m \in 0 .. k - 1
      BY <3>2, <1>1
    <3> QED BY <3>9, <3>10
  <2> QED BY <2>1, <2>2
<1> QED BY <1>10, <1>13, <1>20, <1>21, <1>22

\* The path name that vfs_get_full_path makes.
LEMMA FullPathIs ==
  ASSUME MountInv, mounted # 0, MountsBare,
         NEW d \in Nodes, d[1] \in InTree, i_mountpoint[d] = None, d # vfs_root
  PROVE  \E n \in Nat : \E h :
           /\ Trace(h, n) /\ h[0].d = d /\ n # 0
           /\ vfs_get_full_path(d) = Trimmed(h[n].path)
           /\ vfs_get_full_path(d) \in Seq(Tokens)
           /\ Len(vfs_get_full_path(d)) > 1 /\ Head(vfs_get_full_path(d)) = Slash
<1>1. PICK N \in Nat : N = Cardinality(Nodes)
  BY VfsPathAssumption, FS_CardinalityType
<1>2. PICK x : x = [d |-> d, path |-> <<>>, done |-> FALSE]
  OBVIOUS
<1>3. Ascending(x) /\ x.d = d /\ x.path = <<>>
  <2>1. DOMAIN x = {"d", "path", "done"} /\ ~x.done /\ x.d = d /\ x.path = <<>>
    BY <1>2
  <2> QED BY <2>1 DEF Ascending
<1>4. \E h : IsLoop(h, "path", <<>>, x, N)
  BY LoopRuns
<1>5. PICK h : IsLoop(h, "path", <<>>, x, N) /\ PathLoop(d) = h[N]
  BY ONLY <1>1, <1>2, <1>4 DEF PathLoop, IsLoop, Step
<1>6. h[0] = x
  BY <1>5, LoopTurns
<1>7. PICK n \in 0 .. N :
        /\ h[n].d = vfs_root /\ h[N] = h[n]
        /\ \A k \in 0 .. n : Ascending(h[k])
        /\ \A k \in 0 .. n - 1 :
             /\ h[k].d # vfs_root
             /\ h[k + 1].d = d_parent(h[k].d)
             /\ h[k + 1].path = <<Slash>> \o (NameOf(h[k].d) \o h[k].path)
  BY ONLY <1>1, <1>3, <1>5, MountInv, mounted # 0, Ascends
<1>8. n \in Nat /\ n # 0 /\ h[0].d = d /\ Trace(h, n)
  <2>1. n \in Nat /\ n # 0
    BY <1>3, <1>6, <1>7
  <2> QED BY <2>1, <1>3, <1>6, <1>7 DEF Trace
<1>9. PICK k \in 0 .. n - 1 : n = k + 1 /\ k \in 0 .. n
  <2>1. n - 1 \in 0 .. n - 1 /\ n = (n - 1) + 1 /\ n - 1 \in 0 .. n
    BY <1>8
  <2> QED BY ONLY <2>1
<1>10. PICK c, p : c = h[k].d /\ p = h[k].path
  OBVIOUS
<1>11. /\ c \in Nodes /\ c[1] \in InTree /\ p \in Seq(Tokens) /\ c # vfs_root
       /\ vfs_root = d_parent(c) /\ h[n].path = <<Slash>> \o (NameOf(c) \o p)
  BY <1>7, <1>9, <1>10 DEF Ascending
<1>12. ~IsRoot(c)
  <2>1. SUFFICES ASSUME IsRoot(c) PROVE FALSE
    OBVIOUS
  <2>2. i_mountpoint[vfs_root] = c[1] /\ c[1] # None /\ vfs_root \in Nodes
    BY <2>1, <1>11, RootInTree, NodeFacts, VfsPathAssumption
  <2>3. IsRoot(vfs_root)
    BY RootFacts, MountsOf DEF MountInv
  <2> QED BY <2>2, <2>3 DEF MountsBare
<1>13. PICK y : y = Last(c[2]) /\ NameOf(c) = <<y>>
  BY <1>12 DEF NameOf
<1>14. IsName(y) /\ y \in Tokens /\ Slash \in Tokens /\ y # Slash
  <2>1. IsName(y)
    BY <1>11, <1>12, <1>13, Above
  <2>2. <<y>> \in Seq(Tokens)
    BY <1>11, <1>13, NameIsToken
  <2>3. y \in Tokens
    BY <2>2
  <2> QED BY <2>1, <2>3 DEF Tokens, IsName
<1>15. PICK q \in Seq(Tokens) : q = Trimmed(p)
  BY <1>11, TrimmedSeq
<1>16. PICK t : t = h[n].path
  OBVIOUS
<1>17. t \in Seq(Tokens) /\ Len(t) > 1 /\ Trimmed(t) = <<Slash>> \o (<<y>> \o q)
  <2>1. t = <<Slash>> \o (<<y>> \o p)
    BY <1>11, <1>13, <1>16
  <2>2. t \in Seq(Tokens) /\ Len(t) = 2 + Len(p)
    BY <2>1, <1>11, <1>14
  <2>3. Trimmed(t) = <<Slash>> \o (<<y>> \o q)
    BY ONLY <2>1, <1>11, <1>14, <1>15, TrimmedName
  <2>4. Len(p) \in Nat
    BY <1>11
  <2> QED BY <2>2, <2>3, <2>4
<1>18. vfs_get_full_path(d) = Trimmed(t)
  <2>1. t # <<>>
    BY <1>17
  <2>2. PathLoop(d).path = t
    BY <1>5, <1>7, <1>16
  <2> QED BY <2>1, <2>2, <1>17 DEF Trimmed, vfs_get_full_path
<1>19. PICK f : f = <<Slash>> \o (<<y>> \o q)
  OBVIOUS
<1>20. f \in Seq(Tokens) /\ Len(f) > 1 /\ Head(f) = Slash
  BY ONLY <1>14, <1>15, <1>19
<1> QED BY <1>8, <1>16, <1>17, <1>18, <1>19, <1>20

\* vfs_resolve_path comes down to the dentry at which the path name was made.
LEMMA Descends ==
  ASSUME MountInv, mounted # 0, MountsBare, NEW n \in Nat, n # 0, NEW h, Trace(h, n),
         NEW T, Tokens \subseteq T, NEW z \in Seq(T), NEW p \in Seq(T), p = Trimmed(h[n].path) \o z,
         NEW t, t = Len(p) + 1, NEW g, IsLoop(g, "resolve", <<>>, Start(p), t)
  PROVE  \E i \in 0 .. t - 1 : /\ OnWay(g[i], h, 0, n, z) /\ Len(g[i].rest) \in Nat
                               /\ Len(g[i].rest) + i <= Len(p)
<1>1. Len(p) \in Nat /\ t \in Nat
  OBVIOUS
<1>2. g[0] = Start(p) /\ \A i \in 0 .. t - 1 : g[i + 1] = Turn(g[i])
  BY <1>1, LoopTurns DEF Step
<1> DEFINE Passes(i, k) == /\ OnWay(g[i], h, k, n, z) /\ Len(g[i].rest) \in Nat
                       /\ Len(g[i].rest) + i <= Len(p)
           S == {i \in 0 .. t : (\E l \in 0 .. i : Passes(l, 0)) \/ (\E k \in 1 .. n : Passes(i, k))}
<1>3. 0 \in S
  <2>1. PICK x : x = Start(p)
    OBVIOUS
  <2>2. DOMAIN x = WalkFields /\ ~x.halts /\ ~x.done /\ x.parent = vfs_root /\ x.rest = p
    BY <2>1 DEF Start, WalkFields
  <2>3. i_mountpoint[vfs_root] = None
    BY MountsOf, RootFacts DEF MountInv, MountsBare, Mounts
  <2>4. OnWay(x, h, n, n, z)
    BY <2>2, <2>3 DEF OnWay, Trace
  <2>5. n \in 1 .. n /\ Len(x.rest) \in Nat /\ Len(x.rest) + 0 <= Len(p) /\ 0 \in 0 .. t
    BY <2>2, <1>1
  <2> QED BY <2>1, <2>4, <2>5, <1>2
<1>4. ASSUME NEW i \in 0 .. t - 1, i \in S PROVE i + 1 \in S
  <2>1. i + 1 \in 0 .. t /\ i \in Nat
    BY <1>1
  <2>2. ASSUME NEW l \in 0 .. i, Passes(l, 0) PROVE i + 1 \in S
    <3>1. l \in 0 .. i + 1
      BY <2>1
    <3> QED BY <3>1, <2>1, <2>2
  <2>3. ASSUME NEW k \in 1 .. n, Passes(i, k) PROVE i + 1 \in S
    <3>1. PICK w : w = g[i]
      OBVIOUS
    <3>2. OnWay(w, h, k, n, z) /\ Len(w.rest) + i <= Len(p)
      BY <2>3, <3>1
    <3>3. PICK j \in 0 .. k - 1 :
            OnWay(Turn(w), h, j, n, z) /\ Len(w.rest) \in Nat /\ Len(Turn(w).rest) \in Nat
                                       /\ Len(Turn(w).rest) < Len(w.rest)
      BY <3>2, DescendTurn
    <3>4. Len(Turn(w).rest) + (i + 1) <= Len(p)
      <4>1. PICK a, b, l : a = Len(Turn(w).rest) /\ b = Len(w.rest) /\ l = Len(p)
        OBVIOUS
      <4>2. a \in Nat /\ b \in Nat /\ l \in Nat /\ a < b /\ b + i <= l
        BY ONLY <3>2, <3>3, <4>1, <1>1
      <4>3. a + (i + 1) <= l
        BY ONLY <4>2, <2>1
      <4> QED BY <4>1, <4>3
    <3>5. Passes(i + 1, j)
      BY <3>1, <3>3, <3>4, <1>2
    <3>6. i + 1 \in 0 .. i + 1 /\ (j = 0 \/ j \in 1 .. n)
      BY <2>1
    <3> QED BY <3>5, <3>6, <2>1
  <2> QED BY <2>2, <2>3, <1>4
<1>5. t \in S
  <2> HIDE DEF S
  <2>1. \A i \in 0 .. t : i \in S
    BY <1>1, <1>3, <1>4, Climb
  <2> QED BY <2>1, <1>1
<1>6. ~\E k \in 1 .. n : Passes(t, k)
  <2>1. \A a \in Nat : ~(a + t <= Len(p))
    BY <1>1
  <2> QED BY <2>1
<1>7. PICK l \in 0 .. t : Passes(l, 0)
  BY <1>1, <1>5, <1>6
<1>8. l \in 0 .. t - 1
  <2>1. PICK a \in Nat : a = Len(g[l].rest) /\ a + l <= Len(p)
    BY <1>7
  <2> QED BY ONLY <2>1, <1>1, <1>7, t = Len(p) + 1
<1> QED BY <1>7, <1>8

\* Once done, it stays where it is.
LEMMA StaysDone ==
  ASSUME NEW t \in Nat, NEW g, NEW x, IsLoop(g, "resolve", <<>>, x, t),
         NEW i \in 0 .. t, g[i].done
  PROVE  g[t] = g[i]
<1>1. \A l \in 0 .. t - 1 : g[l + 1] = Turn(g[l])
  BY LoopTurns DEF Step
<1>2. \A w : w.done => Turn(w) = w
  BY DEF Turn
<1> DEFINE S == {l \in 0 .. t : i <= l => g[l] = g[i]}
<1>3. 0 \in S
  OBVIOUS
<1>4. ASSUME NEW l \in 0 .. t - 1, l \in S PROVE l + 1 \in S
  <2>1. l + 1 \in 0 .. t
    OBVIOUS
  <2>2. CASE i <= l
    BY <2>1, <2>2, <1>1, <1>2, <1>4
  <2>3. CASE ~(i <= l)
    BY <2>1, <2>3
  <2> QED BY <2>2, <2>3
<1> HIDE DEF S
<1>5. \A l \in 0 .. t : l \in S
  BY <1>3, <1>4, Climb
<1> QED BY <1>5 DEF S

\* It leads back to the dentry.
LEMMA LeadsBack ==
  ASSUME MountInv, mounted # 0, MountsBare,
         NEW d \in Nodes, d[1] \in InTree, i_mountpoint[d] = None
  PROVE  OpenedDentry(vfs_resolve_path(<<Slash>>, vfs_get_full_path(d))) = d
<1>1. d # None
  BY NodeFacts
<1>2. CASE d = vfs_root
  <2>1. vfs_get_full_path(d) = <<Slash>>
    BY <1>2 DEF vfs_get_full_path
  <2>2. vfs_resolve_path(<<Slash>>, <<Slash>>).current = d
    BY <1>2 DEF vfs_resolve_path
  <2> QED BY <2>1, <2>2, <1>1 DEF OpenedDentry, Crossed
<1>3. CASE d # vfs_root
  <2>1. PICK p : p = vfs_get_full_path(d)
    OBVIOUS
  <2>2. PICK n \in Nat : \E h :
          /\ Trace(h, n) /\ h[0].d = d /\ n # 0 /\ p = Trimmed(h[n].path)
          /\ p \in Seq(Tokens) /\ Len(p) > 1 /\ Head(p) = Slash
    BY <2>1, <1>3, FullPathIs
  <2>3. PICK h : /\ Trace(h, n) /\ h[0].d = d /\ n # 0 /\ p = Trimmed(h[n].path)
                 /\ p \in Seq(Tokens) /\ Len(p) > 1 /\ Head(p) = Slash
    BY <2>2
  <2>4. IsSeq(p) /\ IsSeq(<<Slash>>)
    BY <2>3, TokensSeq DEF Tokens
  <2>5. p # <<Slash>> /\ p # <<>> /\ WholePath(<<Slash>>, p) = p
    <3>1. Len(<<Slash>>) = 1 /\ Len(<<>>) = 0
      OBVIOUS
    <3>2. PICK l : l = Len(p) /\ l > 1
      BY <2>3
    <3>3. p # <<Slash>> /\ p # <<>>
      BY ONLY <3>1, <3>2
    <3> QED BY <3>3, <2>3 DEF WholePath
  <2>6. PICK t \in Nat : \E g : /\ t = Len(p) + 1
                               /\ IsLoop(g, "resolve", <<>>, Start(p), t)
                               /\ vfs_resolve_path(<<Slash>>, p) = g[t]
    BY <2>4, <2>5, ResolveIs
  <2>7. PICK g : /\ t = Len(p) + 1 /\ IsLoop(g, "resolve", <<>>, Start(p), t)
                 /\ vfs_resolve_path(<<Slash>>, p) = g[t]
    BY <2>6
  <2>8. \A i \in 0 .. t - 1 : g[i + 1] = Turn(g[i])
    BY <2>7, LoopTurns DEF Step
  <2>9. p = Trimmed(h[n].path) \o <<>> /\ <<>> \in Seq(Tokens)
    BY <2>3
  <2>10. PICK i \in 0 .. t - 1 : OnWay(g[i], h, 0, n, <<>>)
    BY <2>3, <2>7, <2>9, Descends
  <2>11. PICK w : w = g[i]
    OBVIOUS
  <2>12. w.current = d /\ w.rest = <<>> /\ DOMAIN w = WalkFields /\ ~w.done
    <3>1. h[0].path = <<>> /\ h[0].d = d /\ 0 # n
      BY <2>3 DEF Trace
    <3>2. Trimmed(<<>>) = <<>> /\ <<>> \o <<>> = <<>> /\ DropSlash(<<>>) = <<>>
      BY DEF Trimmed, DropSlash
    <3> QED BY <3>1, <3>2, <2>10, <2>11 DEF OnWay
  <2>13. vfs_next_path(<<>>).next = None
    BY DEF vfs_next_path, DropSlash
  <2>14. Turn(w) = [w EXCEPT !.done = TRUE]
    BY <2>12, <2>13 DEF Turn
  <2>15. Turn(w).done /\ Turn(w).current = d
    BY <2>12, <2>14 DEF WalkFields
  <2>16. g[t].current = d
    <3>1. i + 1 \in 0 .. t /\ g[i + 1] = Turn(w)
      BY <2>8, <2>11
    <3>2. g[t] = g[i + 1]
      BY <3>1, <2>7, <2>15, StaysDone
    <3> QED BY <3>1, <3>2, <2>15
  <2> QED BY <2>1, <2>7, <2>16, <1>1 DEF OpenedDentry, Crossed
<1> QED BY <1>2, <1>3

-----------------------------------------------------------------------------
(* Working directories.                                                    *)

\* While the mounts stay as they are, a dentry has the same path name.
LEMMA SameFullPath ==
  ASSUME UNCHANGED <<vfs_root, i_mountpoint, s_parent>>, NEW CONSTANT d
  PROVE  vfs_get_full_path(d)' = vfs_get_full_path(d)
BY DEF vfs_get_full_path, PathLoop, PathTurn, d_parent

\* A task's working directory: a dentry in the tree that nothing is mounted on.
At(d) == InTreeNode(d) /\ i_mountpoint[d] = None

\* Every task is at a dentry and has its path name.
TasksAt == \A t \in Tasks : cwd[t] # None => At(opened[t]) /\ cwd[t] = vfs_get_full_path(opened[t])

\* The inductive invariant of VfsPath.
PathInv ==
  /\ MountInv
  /\ DOMAIN cwd = Tasks /\ DOMAIN opened = Tasks
  /\ ~Booted => \A t \in Tasks : cwd[t] = None
  /\ MountsBare => TasksAt

LEMMA PathStarts ==
  ASSUME Init
  PROVE  PathInv
<1>1. MountInv
  <2>1. \A fs \in FileSystems : RootOf(fs) \in Nodes
    BY VfsPathAssumption
  <2>2. mounted = 0 /\ 0 \in 0 .. Len(Boot) /\ 2 .. mounted = {} /\ Boot[1].fs \in FileSystems
    BY BootFacts DEF Init
  <2> QED BY <2>1, <2>2 DEF Init, MountInv
<1> QED BY <1>1 DEF Init, PathInv, TasksAt

\* vfs_mount_fs.
LEMMA StepMount ==
  ASSUME PathInv, vfs_mount_fs
  PROVE  PathInv'
<1>1. PICK m : m = mounted + 1
  OBVIOUS
<1>2. PICK call : call = Boot[m]
  OBVIOUS
<1>3. PICK d : d = vfs_resolve_path(<<Slash>>, call.path).current
  OBVIOUS
<1>4. /\ mounted' = m
      /\ \/ call.path = <<Slash>> /\ vfs_root' = RootOf(call.fs)
            /\ UNCHANGED <<i_mountpoint, s_parent>>
         \/ call.path # <<Slash>> /\ d # None
            /\ i_mountpoint' = [i_mountpoint EXCEPT ![d] = call.fs]
            /\ s_parent' = [s_parent EXCEPT ![call.fs] = d]
            /\ UNCHANGED vfs_root
      /\ cwd' = cwd /\ opened' = opened
  BY <1>1, <1>2, <1>3 DEF vfs_mount_fs, ParentOfMount
<1>5. /\ Len(Boot) \in Nat /\ mounted \in 0 .. Len(Boot) /\ m \in 1 .. Len(Boot)
      /\ m - 1 = mounted
  <2>1. mounted # Len(Boot) /\ mounted \in 0 .. Len(Boot) /\ Len(Boot) \in Nat
    BY BootFacts DEF vfs_mount_fs, Booted, PathInv, MountInv
  <2> QED BY <2>1, <1>1
<1>6. \A t \in Tasks : cwd[t] = None
  BY DEF PathInv, vfs_mount_fs
<1>7. /\ call.fs \in FileSystems /\ IsSeq(call.path) /\ (call.path = <<Slash>> <=> m = 1)
      /\ \A i \in 1 .. mounted : i \in 1 .. Len(Boot) /\ i # m /\ Boot[i].fs # call.fs
                                 /\ Boot[i].fs \in FileSystems
  <2>1. \A i \in 1 .. mounted : i \in 1 .. Len(Boot) /\ i # m
    BY <1>1, <1>5
  <2> QED BY <2>1, <1>2, <1>5, BootFacts
<1>8. MountInv'
  <2>1. CASE m = 1
    <3>1. /\ vfs_root' = RootOf(call.fs) /\ i_mountpoint' = i_mountpoint
          /\ s_parent' = s_parent /\ mounted' = 1 /\ mounted = 0
      BY <2>1, <1>4, <1>5, <1>7
    <3>2. \A e \in Nodes : i_mountpoint[e] = None
      <4>1. 2 .. 0 = {}
        OBVIOUS
      <4> QED BY <4>1, <3>1 DEF PathInv, MountInv
    <3>3. 2 .. 1 = {} /\ 1 \in 0 .. Len(Boot) /\ call.fs = Boot[1].fs
      BY <2>1, <1>2, <1>5
    <3> QED BY <3>1, <3>2, <3>3 DEF PathInv, MountInv
  <2>2. CASE m # 1
    <3>1. /\ d # None /\ vfs_root' = vfs_root /\ mounted # 0
          /\ i_mountpoint' = [i_mountpoint EXCEPT ![d] = call.fs]
          /\ s_parent' = [s_parent EXCEPT ![call.fs] = d]
      BY <2>2, <1>1, <1>4, <1>7
    <3>2. d \in Nodes /\ d[1] \in MountedFs
      <4>1. IsSeq(<<Slash>>)
        <5>1. <<Slash>> \in Seq(Range(<<Slash>>))
          BY DEF Range
        <5> QED BY <5>1 DEF IsSeq
      <4>2. Inside(vfs_resolve_path(<<Slash>>, call.path), MountedFs)
        BY <4>1, <3>1, <1>7, MountsOf, MountedClosed, ResolveInside DEF PathInv
      <4> QED BY <4>2, <3>1, <1>3 DEF Inside
    <3>3. /\ i_mountpoint' \in [Nodes -> FileSystems \union {None}]
          /\ s_parent' \in [FileSystems -> Nodes]
      BY <3>1, <3>2, <1>7 DEF PathInv, MountInv
    <3>4. 1 \in 1 .. mounted
      BY <3>1, <1>5
    <3>5. s_parent'[call.fs] = d /\ \A fs \in FileSystems : fs # call.fs => s_parent'[fs] = s_parent[fs]
      BY <3>1, <1>7 DEF PathInv, MountInv
    <3>6. ASSUME NEW i \in 2 .. m PROVE \E j \in 1 .. i - 1 : s_parent'[Boot[i].fs][1] = Boot[j].fs
      <4>1. CASE i = m
        <5>1. PICK j \in 1 .. mounted : d[1] = Boot[j].fs
          BY <3>2 DEF MountedFs
        <5>2. j \in 1 .. i - 1 /\ s_parent'[Boot[i].fs] = d
          BY <4>1, <3>5, <1>2, <1>5
        <5> QED BY <5>1, <5>2
      <4>2. CASE i # m
        <5>1. i \in 2 .. mounted /\ i \in 1 .. mounted
          BY <4>2, <1>5
        <5>2. s_parent'[Boot[i].fs] = s_parent[Boot[i].fs]
          BY <5>1, <3>5, <1>7
        <5> QED BY <5>1, <5>2 DEF PathInv, MountInv
      <4> QED BY <4>1, <4>2
    <3>7. ASSUME NEW e \in Nodes, i_mountpoint'[e] # None
          PROVE  \E i \in 2 .. m : i_mountpoint'[e] = Boot[i].fs /\ s_parent'[Boot[i].fs] = e
      <4>1. CASE e = d
        <5>1. i_mountpoint'[e] = call.fs
          BY <4>1, <3>1, <3>2 DEF PathInv, MountInv
        <5>2. m \in 2 .. m
          BY <2>2, <1>5
        <5> QED BY <5>1, <5>2, <4>1, <3>5, <1>2
      <4>2. CASE e # d
        <5>1. i_mountpoint'[e] = i_mountpoint[e]
          BY <4>2, <3>1 DEF PathInv, MountInv
        <5>2. PICK i \in 2 .. mounted : i_mountpoint[e] = Boot[i].fs /\ s_parent[Boot[i].fs] = e
          BY <5>1, <3>7 DEF PathInv, MountInv
        <5>3. i \in 1 .. mounted /\ i \in 2 .. m
          BY <1>5
        <5>4. s_parent'[Boot[i].fs] = s_parent[Boot[i].fs]
          BY <5>3, <3>5, <1>7
        <5> QED BY <5>1, <5>2, <5>3, <5>4
      <4> QED BY <4>1, <4>2
    <3>8. s_parent'[Boot[1].fs] = s_parent[Boot[1].fs]
      BY <3>4, <3>5, <1>7
    <3>9. mounted' \in 0 .. Len(Boot) /\ mounted' # 0
      BY <1>4, <1>5
    <3>10. vfs_root' = RootOf(Boot[1].fs) /\ s_parent'[Boot[1].fs] = RootOf(Boot[1].fs)
      BY <3>1, <3>8 DEF PathInv, MountInv
    <3> QED BY <3>3, <3>6, <3>7, <3>9, <3>10, <1>4 DEF MountInv
  <2> QED BY <2>1, <2>2
<1>9. TasksAt'
  BY <1>4, <1>6 DEF TasksAt
<1> QED BY <1>4, <1>6, <1>8, <1>9 DEF PathInv

LEMMA RootAt ==
  ASSUME MountInv, mounted # 0, MountsBare
  PROVE  At(vfs_root)
<1>1. vfs_root \in Nodes /\ IsRoot(vfs_root)
  BY MountsOf, RootFacts DEF MountInv
<1> QED BY <1>1, InTreeClosed DEF At, InTreeNode, Closed, MountsBare

\* A step after the mounts: a task keeps its path name and dentry, or takes those
\* of another, or ends, or has new ones.
LEMMA SameMounts ==
  ASSUME PathInv, Booted, UNCHANGED <<mounted, vfs_root, i_mountpoint, s_parent>>,
         DOMAIN cwd' = Tasks, DOMAIN opened' = Tasks,
         MountsBare => \A t \in Tasks : cwd'[t] # None =>
           \/ \E u \in Tasks : cwd'[t] = cwd[u] /\ opened'[t] = opened[u]
           \/ At(opened'[t]) /\ cwd'[t] = vfs_get_full_path(opened'[t])
  PROVE  PathInv'
<1>1. MountInv' /\ Booted' /\ (MountsBare' <=> MountsBare) /\ InTree' = InTree
  BY DEF PathInv, MountInv, Booted, MountsBare, d_parent, InTree, Linked
<1>2. ASSUME MountsBare, NEW t \in Tasks, cwd'[t] # None
      PROVE  /\ InTreeNode(opened'[t]) /\ i_mountpoint'[opened'[t]] = None
             /\ cwd'[t] = vfs_get_full_path(opened[t])'
  <2>1. PICK c, o : c = cwd'[t] /\ o = opened'[t]
    OBVIOUS
  <2>2. At(o) /\ c = vfs_get_full_path(o)
    BY <1>2, <2>1 DEF PathInv, TasksAt
  <2>3. c = vfs_get_full_path(o)'
    BY <2>2, SameFullPath
  <2> QED BY <2>1, <2>2, <2>3 DEF At
<1> QED BY <1>1, <1>2 DEF PathInv, TasksAt, At, InTreeNode

LEMMA StepStart ==
  ASSUME PathInv, start_init
  PROVE  PathInv'
<1>1. Booted /\ mounted # 0
  BY BootFacts DEF start_init, Booted
<1>2. /\ cwd' = [cwd EXCEPT ![Init0] = <<Slash>>] /\ opened' = [opened EXCEPT ![Init0] = vfs_root]
      /\ UNCHANGED <<mounted, vfs_root, i_mountpoint, s_parent>>
      /\ \A t \in Tasks : cwd[t] = None
  BY DEF start_init
<1>3. DOMAIN cwd' = Tasks /\ DOMAIN opened' = Tasks /\ DOMAIN cwd = Tasks /\ DOMAIN opened = Tasks
  BY <1>2 DEF PathInv
<1>4. ASSUME MountsBare, NEW t \in Tasks, cwd'[t] # None
      PROVE  At(opened'[t]) /\ cwd'[t] = vfs_get_full_path(opened'[t])
  <2>1. cwd'[t] = <<Slash>> /\ opened'[t] = vfs_root
    BY <1>2, <1>3, <1>4
  <2>2. At(vfs_root)
    BY <1>1, <1>4, RootAt DEF PathInv
  <2> QED BY <2>1, <2>2 DEF vfs_get_full_path
<1> QED BY <1>1, <1>2, <1>3, <1>4, SameMounts

LEMMA StepSetupCwd ==
  ASSUME PathInv, NEW t \in Tasks, NEW c \in Tasks, task_setup_cwd(t, c)
  PROVE  PathInv'
<1>1. Booted
  BY DEF task_setup_cwd, PathInv
<1>2. /\ cwd' = [cwd EXCEPT ![c] = cwd[t]] /\ opened' = [opened EXCEPT ![c] = opened[t]]
      /\ UNCHANGED <<mounted, vfs_root, i_mountpoint, s_parent>>
  BY DEF task_setup_cwd
<1>3. DOMAIN cwd = Tasks /\ DOMAIN opened = Tasks
  BY DEF PathInv
<1>4. DOMAIN cwd' = Tasks /\ DOMAIN opened' = Tasks
  BY <1>2, <1>3
<1>5. ASSUME NEW v \in Tasks PROVE \E u \in Tasks : cwd'[v] = cwd[u] /\ opened'[v] = opened[u]
  <2>1. CASE v = c
    BY <2>1, <1>2, <1>3
  <2>2. CASE v # c
    BY <2>2, <1>2, <1>3
  <2> QED BY <2>1, <2>2
<1> QED BY <1>1, <1>2, <1>4, <1>5, SameMounts

LEMMA StepEnd ==
  ASSUME PathInv, NEW t \in Tasks, exit(t)
  PROVE  PathInv'
<1>1. Booted
  BY DEF exit, PathInv
<1>2. /\ cwd' = [cwd EXCEPT ![t] = None] /\ opened' = [opened EXCEPT ![t] = None]
      /\ UNCHANGED <<mounted, vfs_root, i_mountpoint, s_parent>>
  BY DEF exit
<1>3. DOMAIN cwd = Tasks /\ DOMAIN opened = Tasks
  BY DEF PathInv
<1>4. DOMAIN cwd' = Tasks /\ DOMAIN opened' = Tasks
  BY <1>2, <1>3
<1>5. ASSUME NEW v \in Tasks, cwd'[v] # None
      PROVE  \E u \in Tasks : cwd'[v] = cwd[u] /\ opened'[v] = opened[u]
  BY <1>2, <1>3, <1>5
<1> QED BY <1>1, <1>2, <1>4, <1>5, SameMounts

\* Where vfs_open may lead.
LEMMA OpenedAt ==
  ASSUME MountInv, mounted # 0, MountsBare, NEW w, Inside(w, InTree), OpenedDentry(w) # None
  PROVE  At(OpenedDentry(w))
<1>1. PICK c : c = w.current
  OBVIOUS
<1>2. c \in Nodes /\ c[1] \in InTree /\ OpenedDentry(w) = Crossed(c)
  BY <1>1 DEF Inside, OpenedDentry
<1>3. Crossed(c) \in Nodes /\ Crossed(c)[1] \in InTree
  BY <1>2, MountsOf, InTreeClosed, Crossings
<1>4. i_mountpoint[Crossed(c)] = None
  <2>1. CASE i_mountpoint[c] = None
    BY <2>1 DEF Crossed
  <2>2. CASE i_mountpoint[c] # None
    <3>1. i_mountpoint[c] \in FileSystems
      BY <2>2, <1>2 DEF MountInv
    <3>2. IsRoot(Crossed(c))
      BY <2>2, <3>1, RootFacts DEF Crossed
    <3> QED BY <3>2, <1>3 DEF MountsBare
  <2> QED BY <2>1, <2>2
<1> QED BY <1>2, <1>3, <1>4 DEF At, InTreeNode

\* The path name of a dentry is one.
LEMMA FullPathIsSeq ==
  ASSUME MountInv, mounted # 0, MountsBare, NEW d, At(d)
  PROVE  IsSeq(vfs_get_full_path(d))
<1>1. CASE d = vfs_root
  BY <1>1, TokensSeq DEF vfs_get_full_path
<1>2. CASE d # vfs_root
  <2>1. vfs_get_full_path(d) \in Seq(Tokens)
    BY <1>2, FullPathIs DEF At, InTreeNode
  <2> QED BY <2>1, TokensSeq
<1> QED BY <1>1, <1>2

LEMMA StepChdir ==
  ASSUME PathInv, NEW t \in Tasks, NEW path \in Paths, sys_chdir(t, path)
  PROVE  PathInv'
<1>1. Booted /\ mounted # 0 /\ cwd[t] # None
  BY BootFacts DEF sys_chdir, PathInv, Booted
<1>2. PICK w, d : w = vfs_resolve_path(cwd[t], path) /\ d = OpenedDentry(w)
  OBVIOUS
<1>3. /\ UNCHANGED <<mounted, vfs_root, i_mountpoint, s_parent>>
      /\ \/ UNCHANGED <<cwd, opened>>
         \/ d \in Dirs /\ cwd' = [cwd EXCEPT ![t] = vfs_get_full_path(d)]
            /\ opened' = [opened EXCEPT ![t] = d]
  BY <1>2 DEF sys_chdir
<1>4. DOMAIN cwd = Tasks /\ DOMAIN opened = Tasks
  BY DEF PathInv
<1>5. DOMAIN cwd' = Tasks /\ DOMAIN opened' = Tasks
  BY <1>3, <1>4
<1>6. ASSUME MountsBare, d \in Dirs PROVE At(d)
  <2>1. At(opened[t]) /\ cwd[t] = vfs_get_full_path(opened[t])
    BY <1>1, <1>6 DEF PathInv, TasksAt
  <2>2. IsSeq(cwd[t]) /\ IsSeq(path)
    BY <2>1, <1>1, <1>6, FullPathIsSeq, VfsPathAssumption DEF PathInv
  <2>3. Inside(w, InTree)
    BY <2>2, <1>1, <1>2, MountsOf, InTreeClosed, ResolveInside DEF PathInv
  <2>4. d # None
    BY <1>6, VfsPathAssumption
  <2> QED BY <2>3, <2>4, <1>1, <1>2, <1>6, OpenedAt DEF PathInv
<1>7. ASSUME MountsBare, NEW v \in Tasks, cwd'[v] # None
      PROVE  \/ \E u \in Tasks : cwd'[v] = cwd[u] /\ opened'[v] = opened[u]
             \/ At(opened'[v]) /\ cwd'[v] = vfs_get_full_path(opened'[v])
  <2>1. CASE UNCHANGED <<cwd, opened>> \/ v # t
    <3>1. cwd'[v] = cwd[v] /\ opened'[v] = opened[v]
      BY <2>1, <1>3, <1>4
    <3> QED BY <3>1
  <2>2. CASE ~(UNCHANGED <<cwd, opened>>) /\ v = t
    <3>1. d \in Dirs /\ cwd'[v] = vfs_get_full_path(d) /\ opened'[v] = d
      BY <2>2, <1>3, <1>4
    <3> QED BY <3>1, <1>6, <1>7
  <2> QED BY <2>1, <2>2
<1> QED BY <1>1, <1>3, <1>5, <1>7, SameMounts

\* Every file system is mounted on a dentry of one that was mounted before it, and
\* every task has the path name of a dentry in the tree that is not mounted over.
THEOREM PathInvariant == Spec => []PathInv
<1>1. Init => PathInv
  BY PathStarts
<1>2. PathInv /\ [Next]_vars => PathInv'
  <2>1. SUFFICES ASSUME PathInv, [Next]_vars PROVE PathInv'
    OBVIOUS
  <2>2. CASE vfs_mount_fs
    BY <2>1, <2>2, StepMount
  <2>3. CASE start_init
    BY <2>1, <2>3, StepStart
  <2>4. ASSUME NEW t \in Tasks, NEW c \in Tasks, task_setup_cwd(t, c) PROVE PathInv'
    BY <2>1, <2>4, StepSetupCwd
  <2>5. ASSUME NEW t \in Tasks, NEW p \in Paths, sys_chdir(t, p) PROVE PathInv'
    BY <2>1, <2>5, StepChdir
  <2>6. ASSUME NEW t \in Tasks, exit(t) PROVE PathInv'
    BY <2>1, <2>6, StepEnd
  <2>7. CASE UNCHANGED vars
    <3>1. CASE Booted
      BY <2>1, <2>7, <3>1, SameMounts DEF vars, PathInv
    <3>2. CASE ~Booted
      BY <2>1, <2>7, <3>2 DEF vars, PathInv, MountInv, Booted, TasksAt
    <3> QED BY <3>1, <3>2
  <2> QED BY <2>1, <2>2, <2>3, <2>4, <2>5, <2>6, <2>7 DEF Next
<1> QED BY <1>1, <1>2, PTL DEF Spec

\* As long as file systems are mounted on dentries that have none below them, the
\* path name that sys_chdir stores leads back to the dentry it was made from: for
\* any trees, mounts and path names, across any number of mounts, with ".." out of
\* them too, and for every child that inherits it.
THEOREM VfsCwdLeadsBack == Spec => [](MountsBare => CwdLeadsBack)
<1>1. ASSUME PathInv, MountsBare PROVE CwdLeadsBack
  <2>1. SUFFICES ASSUME NEW t \in Tasks, cwd[t] # None
                 PROVE  OpenedDentry(vfs_resolve_path(<<Slash>>, cwd[t])) = opened[t]
    BY DEF CwdLeadsBack
  <2>2. mounted # 0
    BY <1>1, <2>1, BootFacts DEF PathInv, Booted
  <2>3. At(opened[t]) /\ cwd[t] = vfs_get_full_path(opened[t])
    BY <1>1, <2>1 DEF PathInv, TasksAt
  <2> QED BY <2>2, <2>3, <1>1, LeadsBack DEF PathInv, At, InTreeNode
<1> QED BY <1>1, PathInvariant, PTL

-----------------------------------------------------------------------------
(* Places in the one tree.                                                 *)

\* The loop of Place on its way.
Rising(w) == DOMAIN w = {"d", "names"} /\ InTreeNode(w.d) /\ w.names \in Seq(Tokens)

LEMMA RiseTurn ==
  ASSUME MountInv, mounted # 0, NEW w, Rising(w)
  PROVE  /\ Rising(PlaceTurn(w))
         /\ w.d = vfs_root => PlaceTurn(w) = w
         /\ w.d # vfs_root => /\ PlaceTurn(w).d = d_parent(w.d)
                              /\ PlaceTurn(w).names = NameOf(w.d) \o w.names
<1>1. CASE w.d = vfs_root
  <2>1. IsRoot(vfs_root)
    BY MountsOf, RootFacts DEF MountInv
  <2>2. PlaceTurn(w) = w
    BY <1>1, <2>1 DEF PlaceTurn
  <2> QED BY <2>2, <1>1
<1>2. CASE w.d # vfs_root
  <2>1. PICK d, s : d = w.d /\ s = w.names
    OBVIOUS
  <2>2. PICK u, q : u = d_parent(d) /\ q = NameOf(d) \o s
    OBVIOUS
  <2>3. InTreeNode(d) /\ s \in Seq(Tokens) /\ DOMAIN w = {"d", "names"}
    BY <2>1 DEF Rising
  <2>4. InTreeNode(u) /\ u # d
    BY <2>1, <2>2, <2>3, <1>2, ParentHigher DEF InTreeNode
  <2>5. q \in Seq(Tokens)
    <3>1. NameOf(d) \in Seq(Tokens)
      BY <2>3, NameIsToken DEF InTreeNode
    <3> QED BY <3>1, <2>2, <2>3
  <2>6. PICK v : v = PlaceTurn(w)
    OBVIOUS
  <2>7. DOMAIN v = {"d", "names"} /\ v.d = u /\ v.names = q
    <3>1. CASE IsRoot(d)
      <4>1. v = [w EXCEPT !.d = u]
        BY <3>1, <2>1, <2>2, <2>4, <2>6, <1>2 DEF PlaceTurn, d_parent
      <4>2. q = s
        BY <3>1, <2>2, <2>3 DEF NameOf
      <4> QED BY ONLY <4>1, <4>2, <2>1, <2>3
    <3>2. CASE ~IsRoot(d)
      <4>1. v = [d |-> u, names |-> q]
        BY <3>2, <2>1, <2>2, <2>6 DEF PlaceTurn, NameOf
      <4> QED BY ONLY <4>1
    <3> QED BY <3>1, <3>2
  <2> QED BY ONLY <2>1, <2>2, <2>4, <2>5, <2>6, <2>7, <1>2 DEF Rising
<1> QED BY <1>1, <1>2

\* The turns from a dentry in the tree; the last one is not needed.
LEMMA PlaceIs ==
  ASSUME MountInv, mounted # 0, NEW d, InTreeNode(d), NEW N \in Nat, N = Cardinality(Nodes)
  PROVE  /\ N # 0
         /\ \E h : /\ h[0] = [d |-> d, names |-> <<>>]
                   /\ \A k \in 0 .. N - 1 : h[k + 1] = PlaceTurn(h[k])
                   /\ \A k \in 0 .. N : Rising(h[k])
                   /\ h[N] = h[N - 1] /\ Place(d) = h[N].names
<1>1. PICK x : x = [d |-> d, names |-> <<>>]
  OBVIOUS
<1>2. \E h : IsLoop(h, "place", <<>>, x, N)
  BY LoopRuns
<1>3. PICK h : IsLoop(h, "place", <<>>, x, N) /\ Place(d) = h[N].names
  BY ONLY <1>1, <1>2, N = Cardinality(Nodes) DEF Place, IsLoop, Step
<1>4. h[0] = x /\ \A k \in 0 .. N - 1 : h[k + 1] = PlaceTurn(h[k])
  BY <1>3, LoopTurns DEF Step
<1>5. \A k \in 0 .. N : Rising(h[k])
  <2> DEFINE S == {k \in 0 .. N : Rising(h[k])}
  <2>1. 0 \in S
    <3>1. DOMAIN x = {"d", "names"} /\ x.d = d /\ x.names = <<>> /\ <<>> \in Seq(Tokens)
      BY <1>1
    <3>2. Rising(x)
      BY ONLY <3>1, InTreeNode(d) DEF Rising
    <3> QED BY <3>2, <1>4
  <2>2. ASSUME NEW k \in 0 .. N - 1, k \in S PROVE k + 1 \in S
    <3>1. k + 1 \in 0 .. N
      OBVIOUS
    <3> QED BY <3>1, <2>2, <1>4, RiseTurn
  <2> HIDE DEF S
  <2>3. \A k \in 0 .. N : k \in S
    BY <2>1, <2>2, Climb
  <2> QED BY <2>3 DEF S
<1>6. PICK f : f = [k \in 0 .. N |-> h[k].d]
  OBVIOUS
<1>7. ASSUME NEW k \in 0 .. N - 1
      PROVE  f[k + 1] = IF f[k] = vfs_root THEN vfs_root ELSE d_parent(f[k])
  <2>1. k \in 0 .. N /\ k + 1 \in 0 .. N
    OBVIOUS
  <2>2. f[k] = h[k].d /\ f[k + 1] = h[k + 1].d
    BY <2>1, <1>6
  <2>3. h[k + 1] = PlaceTurn(h[k]) /\ Rising(h[k])
    BY <2>1, <1>4, <1>5
  <2> QED BY <2>2, <2>3, RiseTurn
<1>8. InTreeNode(f[0])
  BY <1>1, <1>4, <1>6
<1>9. PICK n \in 0 .. N - 1 : \A k \in 0 .. N : f[k] = vfs_root <=> n <= k
  BY <1>7, <1>8, ComesUp
<1>10. N # 0 /\ N - 1 \in 0 .. N /\ N - 1 \in 0 .. N - 1 /\ (N - 1) + 1 = N /\ n <= N - 1
  BY <1>9
<1>11. h[N - 1].d = vfs_root
  BY <1>6, <1>9, <1>10
<1>12. h[N] = h[N - 1]
  <2>1. h[N] = PlaceTurn(h[N - 1])
    BY <1>4, <1>10
  <2> QED BY <2>1, <1>5, <1>10, <1>11, RiseTurn
<1> QED BY <1>1, <1>3, <1>4, <1>5, <1>10, <1>12

LEMMA PlaceOfRoot ==
  ASSUME MountInv, mounted # 0
  PROVE  Place(vfs_root) = <<>>
<1>1. PICK N \in Nat : N = Cardinality(Nodes)
  BY VfsPathAssumption, FS_CardinalityType
<1>2. InTreeNode(vfs_root)
  BY MountsOf, InTreeClosed DEF InTreeNode, Mounts, Closed
<1>3. PICK h : /\ h[0] = [d |-> vfs_root, names |-> <<>>]
               /\ \A k \in 0 .. N - 1 : h[k + 1] = PlaceTurn(h[k])
               /\ \A k \in 0 .. N : Rising(h[k])
               /\ Place(vfs_root) = h[N].names
  BY <1>1, <1>2, PlaceIs
<1> DEFINE S == {k \in 0 .. N : h[k].d = vfs_root /\ h[k].names = <<>>}
<1>4. 0 \in S
  BY <1>3
<1>5. ASSUME NEW k \in 0 .. N - 1, k \in S PROVE k + 1 \in S
  <2>1. k \in 0 .. N /\ k + 1 \in 0 .. N
    OBVIOUS
  <2>2. h[k + 1] = h[k]
    BY <2>1, <1>3, <1>5, RiseTurn
  <2> QED BY <2>1, <2>2, <1>5
<1> HIDE DEF S
<1>6. \A k \in 0 .. N : k \in S
  BY <1>4, <1>5, Climb
<1> QED BY <1>3, <1>6 DEF S

\* The place of a dentry is its parent's and its name.
LEMMA PlaceUp ==
  ASSUME MountInv, mounted # 0, NEW d, InTreeNode(d), d # vfs_root
  PROVE  /\ Place(d) = Place(d_parent(d)) \o NameOf(d)
         /\ Place(d) \in Seq(Tokens) /\ Place(d_parent(d)) \in Seq(Tokens)
<1>1. PICK N \in Nat : N = Cardinality(Nodes)
  BY VfsPathAssumption, FS_CardinalityType
<1>2. PICK u, z : u = d_parent(d) /\ z = NameOf(d)
  OBVIOUS
<1>3. InTreeNode(u) /\ z \in Seq(Tokens)
  BY <1>2, ParentHigher, NameIsToken DEF InTreeNode
<1>4. N # 0
  BY <1>1, PlaceIs
<1>5. PICK h : /\ h[0] = [d |-> d, names |-> <<>>]
               /\ \A k \in 0 .. N - 1 : h[k + 1] = PlaceTurn(h[k])
               /\ \A k \in 0 .. N : Rising(h[k])
               /\ Place(d) = h[N].names
  BY <1>1, PlaceIs
<1>6. PICK g : /\ g[0] = [d |-> u, names |-> <<>>]
               /\ \A k \in 0 .. N - 1 : g[k + 1] = PlaceTurn(g[k])
               /\ \A k \in 0 .. N : Rising(g[k])
               /\ g[N] = g[N - 1] /\ Place(u) = g[N].names
  BY <1>1, <1>3, PlaceIs
<1>7. PICK M \in Nat : M = N - 1
  BY <1>4
<1> DEFINE S == {k \in 0 .. M : h[k + 1].d = g[k].d /\ h[k + 1].names = g[k].names \o z}
<1>8. 0 \in S
  <2>1. 0 \in 0 .. N /\ 0 \in 0 .. N - 1 /\ 0 + 1 = 1 /\ 0 \in 0 .. M
    BY <1>4, <1>7
  <2>2. h[1] = PlaceTurn(h[0]) /\ Rising(h[0]) /\ h[0].d = d /\ h[0].names = <<>>
    BY <2>1, <1>5
  <2>3. h[1].d = u /\ h[1].names = z \o <<>>
    BY <2>2, <1>2, RiseTurn
  <2>4. z \o <<>> = z /\ <<>> \o z = z
    BY <1>3
  <2>5. g[0].d = u /\ g[0].names = <<>>
    BY ONLY <1>6
  <2>6. h[0 + 1].d = g[0].d /\ h[0 + 1].names = g[0].names \o z
    BY ONLY <2>1, <2>3, <2>4, <2>5
  <2> QED BY <2>1, <2>6
<1>9. ASSUME NEW k \in 0 .. M - 1, k \in S PROVE k + 1 \in S
  <2>1. /\ k + 1 \in 0 .. M /\ k \in 0 .. N - 1 /\ k + 1 \in 0 .. N - 1
        /\ k \in 0 .. N /\ k + 1 \in 0 .. N /\ (k + 1) + 1 \in 0 .. N
    BY <1>7
  <2>2. PICK v, w : v = h[k + 1] /\ w = g[k]
    OBVIOUS
  <2>3. /\ h[(k + 1) + 1] = PlaceTurn(v) /\ g[k + 1] = PlaceTurn(w)
        /\ Rising(v) /\ Rising(w) /\ v.d = w.d /\ v.names = w.names \o z
    BY <2>1, <2>2, <1>5, <1>6, <1>9
  <2>4. CASE w.d = vfs_root
    BY <2>1, <2>2, <2>3, <2>4, RiseTurn
  <2>5. CASE w.d # vfs_root
    <3>1. /\ PlaceTurn(v).d = PlaceTurn(w).d
          /\ PlaceTurn(v).names = NameOf(w.d) \o (w.names \o z)
          /\ PlaceTurn(w).names = NameOf(w.d) \o w.names
      BY <2>3, <2>5, RiseTurn
    <3>2. PICK a, b : a = NameOf(w.d) /\ b = w.names
      OBVIOUS
    <3>3. a \in Seq(Tokens) /\ b \in Seq(Tokens)
      BY <3>2, <2>3, NameIsToken DEF Rising, InTreeNode
    <3>4. a \o (b \o z) = (a \o b) \o z
      BY ONLY <3>3, <1>3
    <3> QED BY <3>1, <3>2, <3>4, <2>1, <2>3
  <2> QED BY <2>4, <2>5
<1> HIDE DEF S
<1>10. M \in S
  <2>1. \A k \in 0 .. M : k \in S
    BY <1>8, <1>9, Climb
  <2> QED BY <2>1
<1>11. h[N].names = g[N].names \o z
  <2>1. M + 1 = N /\ M = N - 1
    BY <1>7
  <2> QED BY <2>1, <1>6, <1>10 DEF S
<1>12. N \in 0 .. N
  OBVIOUS
<1> QED BY <1>2, <1>5, <1>6, <1>11, <1>12 DEF Rising

LEMMA PlaceSeq ==
  ASSUME MountInv, mounted # 0, NEW d, InTreeNode(d)
  PROVE  Place(d) \in Seq(Tokens)
<1>1. CASE d = vfs_root
  BY <1>1, PlaceOfRoot
<1>2. CASE d # vfs_root
  BY <1>2, PlaceUp
<1> QED BY <1>1, <1>2

\* The dentry d is the entry c, named x, of q, or the root of what is mounted there.
EntryOf(d, c, q, x) ==
  /\ c \in Nodes /\ At(q) /\ IsName(x) /\ c = <<q[1], Append(q[2], x)>> /\ ~IsRoot(c)
  /\ d = Crossed(c) /\ Place(d) = Append(Place(q), x)
  /\ x \in Tokens /\ Place(q) \in Seq(Tokens)
  /\ IsRoot(d) => c = d_parent(d)
  /\ ~IsRoot(d) => q = d_parent(d)

\* So is every dentry but the root that a walk can come to.
LEMMA Entered ==
  ASSUME MountInv, mounted # 0, MountsBare, NEW d, At(d), d # vfs_root
  PROVE  \E c, q, x : EntryOf(d, c, q, x)
<1>1. d \in Nodes /\ InTreeNode(d) /\ i_mountpoint[d] = None
  BY DEF At, InTreeNode
<1>2. PICK c : c = IF IsRoot(d) THEN d_parent(d) ELSE d
  OBVIOUS
<1>3. InTreeNode(c) /\ ~IsRoot(c) /\ d = Crossed(c) /\ Place(d) = Place(c)
  <2>1. CASE IsRoot(d)
    <3>1. d[1] # None
      BY <1>1, NodeFacts, VfsPathAssumption
    <3>2. /\ c \in Nodes /\ i_mountpoint[c] = d[1] /\ d = Crossed(c)
      BY <2>1, <1>1, <1>2, RootInTree DEF InTreeNode
    <3>3. InTreeNode(c)
      BY <2>1, <1>1, <1>2, ParentHigher DEF InTreeNode
    <3>4. ~IsRoot(c)
      BY <3>1, <3>2 DEF MountsBare
    <3>5. Place(d) = Place(c) \o <<>> /\ Place(c) \in Seq(Tokens)
      BY <2>1, <1>1, <1>2, PlaceUp DEF NameOf
    <3>6. Place(c) \o <<>> = Place(c)
      BY ONLY <3>5
    <3> QED BY <3>2, <3>3, <3>4, <3>5, <3>6
  <2>2. CASE ~IsRoot(d)
    BY <2>2, <1>1, <1>2 DEF Crossed
  <2> QED BY <2>1, <2>2
<1>4. c \in Nodes /\ c # vfs_root
  <2>1. IsRoot(vfs_root)
    BY MountsOf, RootFacts DEF MountInv
  <2> QED BY <2>1, <1>3 DEF InTreeNode
<1>5. PICK q, x : q = d_parent(c) /\ x = Last(c[2])
  OBVIOUS
<1>6. At(q)
  <2>1. InTreeNode(q)
    BY <1>3, <1>4, <1>5, ParentHigher DEF InTreeNode
  <2>2. i_mountpoint[q] = None
    BY <2>1, <1>3, <1>4, <1>5 DEF MountsBare, InTreeNode
  <2> QED BY <2>1, <2>2 DEF At
<1>7. IsName(x) /\ c = <<q[1], Append(q[2], x)>> /\ NameOf(c) = <<x>>
  <2>1. IsName(x) /\ c[2] = Append(Front(c[2]), x) /\ c = <<c[1], c[2]>>
    BY <1>3, <1>4, <1>5, Above, NodeFacts
  <2>2. q = <<c[1], Front(c[2])>> /\ NameOf(c) = <<x>>
    BY <1>3, <1>5 DEF d_parent, NameOf
  <2> QED BY <2>1, <2>2
<1>8. Place(c) = Append(Place(q), x) /\ x \in Tokens /\ Place(q) \in Seq(Tokens)
  <2>1. Place(c) = Place(q) \o <<x>> /\ Place(q) \in Seq(Tokens)
    BY <1>3, <1>4, <1>5, <1>7, PlaceUp
  <2>2. <<x>> \in Seq(Tokens)
    BY <1>4, <1>7, NameIsToken
  <2>3. x \in Tokens
    BY <2>2
  <2>4. Place(q) \o <<x>> = Append(Place(q), x)
    BY ONLY <2>1, <2>3
  <2> QED BY <2>1, <2>3, <2>4
<1>9. (IsRoot(d) => c = d_parent(d)) /\ (~IsRoot(d) => q = d_parent(d))
  BY <1>2, <1>5
<1> QED BY <1>3, <1>4, <1>6, <1>7, <1>8, <1>9 DEF EntryOf

\* Two dentries that a walk can come to are not at one place.
LEMMA OnePlace ==
  ASSUME MountInv, mounted # 0, MountsBare, NEW d, At(d), NEW e, At(e), Place(d) = Place(e)
  PROVE  d = e
<1> DEFINE D == {n \in Nat : \E u, v : At(u) /\ At(v) /\ Place(u) = Place(v) /\ Len(Place(u)) = n /\ u # v}
<1>1. SUFFICES ASSUME d # e PROVE FALSE
  OBVIOUS
<1>2. \A u : At(u) => Place(u) \in Seq(Tokens) /\ Len(Place(u)) \in Nat
  BY PlaceSeq DEF At
<1>3. D # {}
  BY <1>1, <1>2
<1>4. PICK n \in D : \A m \in D : n <= m
  <2>1. D \in SUBSET Nat
    OBVIOUS
  <2> HIDE DEF D
  <2> QED BY <2>1, <1>3, LeastOf
<1>5. PICK u, v : At(u) /\ At(v) /\ Place(u) = Place(v) /\ Len(Place(u)) = n /\ u # v
  BY <1>4
<1>6. ASSUME NEW s \in Seq(Tokens), NEW a \in Tokens PROVE Append(s, a) # <<>>
  OBVIOUS
<1>7. u # vfs_root /\ v # vfs_root
  <2>1. ASSUME NEW a, At(a), a # vfs_root PROVE Place(a) # <<>>
    <3>1. PICK c, q, x : EntryOf(a, c, q, x)
      BY <2>1, Entered
    <3> QED BY <3>1, <1>6 DEF EntryOf
  <2>2. Place(vfs_root) = <<>>
    BY PlaceOfRoot
  <2> QED BY <2>1, <2>2, <1>5
<1>8. PICK c, q, x : EntryOf(u, c, q, x)
  BY <1>5, <1>7, Entered
<1>9. PICK b, r, y : EntryOf(v, b, r, y)
  BY <1>5, <1>7, Entered
<1>10. Place(q) = Place(r) /\ x = y /\ Len(Place(q)) \in Nat /\ Len(Place(q)) < n
  <2>1. PICK k, l : k = Place(q) /\ l = Place(r)
    OBVIOUS
  <2>2. /\ Append(k, x) = Append(l, y) /\ k \in Seq(Tokens) /\ l \in Seq(Tokens)
        /\ x \in Tokens /\ y \in Tokens /\ Len(Append(k, x)) = n
    BY ONLY <2>1, <1>5, <1>8, <1>9 DEF EntryOf
  <2>3. Len(k) \in Nat /\ n = Len(k) + 1
    BY ONLY <2>2
  <2>4. k = l /\ x = y
    BY ONLY <2>2
  <2> QED BY ONLY <2>1, <2>3, <2>4
<1>11. q = r
  <2>1. SUFFICES ASSUME q # r PROVE FALSE
    OBVIOUS
  <2>2. Len(Place(q)) \in D
    BY <2>1, <1>8, <1>9, <1>10 DEF EntryOf
  <2>3. \A k \in Nat : ~(n <= k /\ k < n)
    BY <1>4
  <2> QED BY <2>2, <2>3, <1>4, <1>10
<1> QED BY <1>5, <1>8, <1>9, <1>10, <1>11 DEF EntryOf

\* No mount hides an earlier one: each file system mounted is still found where it
\* was mounted.
NoneHidden ==
  \A fs \in FileSystems : s_parent[fs] # RootOf(fs) => i_mountpoint[s_parent[fs]] = fs

\* A walk can come to every dentry one can see.
LEMMA VisibleAt ==
  ASSUME MountInv, mounted # 0, NoneHidden, NEW d \in Visible
  PROVE  At(d)
<1> DEFINE V == {fs \in FileSystems : fs = vfs_root[1] \/ s_parent[fs] # RootOf(fs)}
<1>1. d \in Nodes /\ i_mountpoint[d] = None /\ d[1] \in V
  BY NodeFacts DEF Visible
<1>2. ASSUME NEW i \in 1 .. mounted PROVE Boot[i].fs \in V
  <2>1. i \in 1 .. Len(Boot) /\ mounted \in Nat /\ Len(Boot) \in Nat
    BY MountsOf, BootFacts
  <2>2. Boot[i].fs \in FileSystems
    BY <2>1, BootFacts
  <2>3. CASE i = 1
    BY <2>2, <2>3, MountsOf
  <2>4. CASE i # 1
    <3>1. i \in 2 .. mounted
      BY <2>1, <2>4
    <3>2. PICK j \in 1 .. i - 1 : s_parent[Boot[i].fs][1] = Boot[j].fs
      BY <3>1 DEF MountInv
    <3>3. j # i /\ j \in 1 .. Len(Boot)
      BY <2>1
    <3>4. Boot[j].fs # Boot[i].fs
      BY <2>1, <3>3, BootFacts
    <3>5. RootOf(Boot[i].fs)[1] = Boot[i].fs
      BY <2>2, RootFacts
    <3> QED BY <2>2, <3>2, <3>4, <3>5
  <2> QED BY <2>3, <2>4
<1>3. Linked(V)
  <2>1. SUFFICES ASSUME NEW fs \in V, fs # vfs_root[1]
                 PROVE  i_mountpoint[s_parent[fs]] = fs /\ s_parent[fs][1] \in V
    BY DEF Linked
  <2>2. fs \in FileSystems /\ i_mountpoint[s_parent[fs]] = fs /\ s_parent[fs] \in Nodes /\ fs # None
    BY <2>1, VfsPathAssumption DEF NoneHidden, MountInv
  <2>3. PICK i \in 2 .. mounted : fs = Boot[i].fs
    BY <2>2 DEF MountInv
  <2>4. PICK j \in 1 .. i - 1 : s_parent[fs][1] = Boot[j].fs
    BY <2>3 DEF MountInv
  <2>5. j \in 1 .. mounted
    BY MountsOf, BootFacts
  <2> HIDE DEF V
  <2> QED BY <2>2, <2>4, <2>5, <1>2
<1>4. V \in SUBSET FileSystems
  OBVIOUS
<1> HIDE DEF V
<1>5. d[1] \in InTree
  BY <1>1, <1>3, <1>4 DEF InTree
<1> QED BY <1>1, <1>5 DEF At, InTreeNode

\* The root of a file system has the place of what it is mounted on.
LEMMA Crossing ==
  ASSUME MountInv, mounted # 0, MountsBare, NEW c, InTreeNode(c), ~IsRoot(c)
  PROVE  At(Crossed(c)) /\ Place(Crossed(c)) = Place(c)
<1>1. CASE i_mountpoint[c] = None
  BY <1>1 DEF Crossed, At
<1>2. CASE i_mountpoint[c] # None
  <2>1. c \in Nodes /\ c[1] \in InTree
    BY DEF InTreeNode
  <2>2. PICK i \in 2 .. mounted : i_mountpoint[c] = Boot[i].fs /\ s_parent[Boot[i].fs] = c
    BY <2>1, <1>2 DEF MountInv
  <2>3. i \in 1 .. Len(Boot) /\ 1 \in 1 .. Len(Boot) /\ i # 1
    BY MountsOf, BootFacts
  <2>4. PICK fs \in FileSystems : fs = Boot[i].fs
    BY <2>3, BootFacts
  <2>5. fs # vfs_root[1]
    BY <2>3, <2>4, MountsOf, BootFacts
  <2>6. PICK r : r = Crossed(c)
    OBVIOUS
  <2>7. r = RootOf(fs) /\ r \in Nodes /\ r[1] = fs /\ IsRoot(r) /\ r # vfs_root
    BY <2>2, <2>4, <2>5, <2>6, <1>2, RootFacts DEF Crossed
  <2>8. r[1] \in InTree
    BY <2>1, <2>6, MountsOf, InTreeClosed, Crossings
  <2>9. InTreeNode(r) /\ At(r)
    BY <2>7, <2>8 DEF InTreeNode, At, MountsBare
  <2>10. d_parent(r) = c /\ NameOf(r) = <<>>
    BY <2>2, <2>4, <2>7 DEF d_parent, NameOf
  <2>11. Place(r) = Place(c) \o <<>> /\ Place(c) \in Seq(Tokens)
    BY <2>7, <2>9, <2>10, PlaceUp
  <2>12. Place(c) \o <<>> = Place(c)
    BY ONLY <2>11
  <2> QED BY <2>6, <2>9, <2>11, <2>12
<1> QED BY <1>1, <1>2

\* An entry that is there leads to its place.
LEMMA EntryThere ==
  ASSUME MountInv, mounted # 0, MountsBare, NEW q, At(q), NEW x, IsName(x),
         NEW c \in Nodes, c = <<q[1], Append(q[2], x)>>
  PROVE  /\ At(Crossed(c)) /\ Place(Crossed(c)) = Append(Place(q), x)
         /\ Crossed(c) \in Visible
<1>1. PICK s : s = q[2] /\ s \in Seq(Range(s)) /\ q = <<q[1], s>>
  BY NodeFacts DEF At, InTreeNode
<1>2. PICK T : T = Range(s) \union {x}
  OBVIOUS
<1>3. s \in Seq(T) /\ x \in T
  BY <1>1, <1>2
<1>4. c[1] = q[1] /\ c[2] = Append(s, x)
  BY <1>1
<1>5. Append(s, x) # <<>> /\ Front(Append(s, x)) = s /\ Last(Append(s, x)) = x
  BY <1>3 DEF Front, Last
<1>6. ~IsRoot(c) /\ d_parent(c) = q /\ NameOf(c) = <<x>>
  BY <1>1, <1>4, <1>5 DEF IsRoot, d_parent, NameOf
<1>7. InTreeNode(c) /\ c # vfs_root
  <2>1. IsRoot(vfs_root)
    BY MountsOf, RootFacts DEF MountInv
  <2> QED BY <2>1, <1>4, <1>6 DEF At, InTreeNode
<1>8. Place(c) = Place(q) \o <<x>> /\ Place(q) \in Seq(Tokens)
  BY <1>6, <1>7, PlaceUp
<1>9. x \in Tokens
  <2>1. <<x>> \in Seq(Tokens)
    BY <1>6, NameIsToken
  <2> QED BY <2>1
<1>10. Place(q) \o <<x>> = Append(Place(q), x)
  BY ONLY <1>8, <1>9
<1>11. PICK e : e = Crossed(c)
  OBVIOUS
<1>12. At(e) /\ Place(e) = Append(Place(q), x)
  BY <1>6, <1>7, <1>8, <1>10, <1>11, Crossing
<1>13. e \in Visible
  <2>1. e \in Nodes /\ e[1] \in InTree /\ i_mountpoint[e] = None
    BY <1>12 DEF At, InTreeNode
  <2>2. SUFFICES ASSUME e[1] # vfs_root[1] PROVE s_parent[e[1]] # RootOf(e[1])
    BY <2>1 DEF Visible
  <2>3. PICK fs \in FileSystems : fs = e[1]
    BY <2>1, NodeFacts
  <2>4. i_mountpoint[s_parent[fs]] = fs /\ fs # None /\ s_parent[fs] \in Nodes
    BY <2>1, <2>2, <2>3, InTreeClosed, VfsPathAssumption DEF Linked, MountInv
  <2>5. i_mountpoint[RootOf(fs)] = None
    BY RootFacts DEF MountsBare
  <2> QED BY <2>3, <2>4, <2>5
<1> QED BY <1>11, <1>12, <1>13

\* And one that is not there has no place.
LEMMA EntryMissing ==
  ASSUME MountInv, mounted # 0, MountsBare, NoneHidden, NEW q, At(q), NEW x,
         NEW v \in Visible, Place(v) = Append(Place(q), x)
  PROVE  <<q[1], Append(q[2], x)>> \in Nodes
<1>1. At(v)
  BY VisibleAt
<1>2. Place(q) \in Seq(Tokens)
  BY PlaceSeq DEF At
<1>3. Append(Place(q), x) # <<>>
  <2>1. PICK s, T : s = Place(q) /\ T = Tokens \union {x}
    OBVIOUS
  <2>2. s \in Seq(T) /\ x \in T
    BY ONLY <2>1, <1>2
  <2>3. Len(Append(s, x)) = Len(s) + 1 /\ Len(s) \in Nat /\ Len(<<>>) = 0
    BY ONLY <2>2
  <2>4. Append(s, x) # <<>>
    BY ONLY <2>3
  <2> QED BY <2>1, <2>4
<1>4. v # vfs_root
  BY <1>3, PlaceOfRoot
<1>5. PICK c, r, y : EntryOf(v, c, r, y)
  BY <1>1, <1>4, Entered
<1>6. Place(r) = Place(q) /\ y = x
  <2>1. PICK k, l : k = Place(q) /\ l = Place(r)
    OBVIOUS
  <2>2. Append(k, x) = Append(l, y) /\ k \in Seq(Tokens) /\ l \in Seq(Tokens) /\ y \in Tokens
    BY <2>1, <1>2, <1>5 DEF EntryOf
  <2>3. PICK T : T = Tokens \union {x}
    OBVIOUS
  <2>4. k \in Seq(T) /\ l \in Seq(T) /\ x \in T /\ y \in T
    BY ONLY <2>2, <2>3
  <2>5. k = l /\ x = y
    BY ONLY <2>2, <2>4
  <2> QED BY ONLY <2>1, <2>5
<1>7. r = q
  BY <1>5, <1>6, OnePlace DEF EntryOf
<1> QED BY <1>5, <1>6, <1>7 DEF EntryOf

\* Up, other than out of the root of a mounted file system.
LEMMA ParentPlace ==
  ASSUME MountInv, mounted # 0, MountsBare, NEW q, At(q), Place(q) \notin MountPlaces
  PROVE  /\ At(d_parent(q))
         /\ Place(d_parent(q)) = IF Place(q) = <<>> THEN Place(q) ELSE Front(Place(q))
<1>1. CASE q = vfs_root
  <2>1. PICK fs \in FileSystems : fs = Boot[1].fs /\ q = RootOf(fs) /\ s_parent[fs] = RootOf(fs)
    BY <1>1, MountsOf DEF MountInv
  <2>2. d_parent(q) = q
    BY <2>1, RootFacts DEF d_parent
  <2> QED BY <2>2, <1>1, PlaceOfRoot
<1>2. CASE q # vfs_root
  <2>1. PICK c, r, x : EntryOf(q, c, r, x)
    BY <1>2, Entered
  <2>2. ~IsRoot(q)
    <3>1. SUFFICES ASSUME IsRoot(q) PROVE FALSE
      OBVIOUS
    <3>2. c = d_parent(q) /\ c \in Nodes /\ q[1] # None
      BY <2>1, <3>1, NodeFacts, VfsPathAssumption DEF EntryOf, At, InTreeNode
    <3>3. i_mountpoint[c] # None
      BY <3>1, <3>2, <1>2, RootInTree DEF At, InTreeNode
    <3>4. Place(q) = Place(c) \o <<>>
      BY <3>1, <3>2, <1>2, PlaceUp DEF At, NameOf
    <3>5. Place(c) \in Seq(Tokens)
      BY <3>2, <1>2, PlaceUp DEF At
    <3>6. Place(c) \o <<>> = Place(c)
      BY ONLY <3>5
    <3> QED BY <3>2, <3>3, <3>4, <3>6 DEF MountPlaces
  <2>3. r = d_parent(q) /\ At(r) /\ Place(q) = Append(Place(r), x) /\ Place(r) \in Seq(Tokens) /\ x \in Tokens
    BY <2>1, <2>2 DEF EntryOf
  <2>4. ASSUME NEW s \in Seq(Tokens), NEW a \in Tokens
        PROVE  Append(s, a) # <<>> /\ Front(Append(s, a)) = s
    BY DEF Front
  <2> QED BY <2>3, <2>4
<1> QED BY <1>1, <1>2

-----------------------------------------------------------------------------
(* What a path name means.                                                 *)

\* The place that a path starts from.
FromPlace(dir, path) == IF path # <<>> /\ Head(path) = Slash THEN <<>> ELSE dir

LEMMA MeantIs ==
  ASSUME NEW places, NEW dir, NEW path, NEW n \in Nat
  PROVE  \E h : /\ IsLoop(h, "meant", <<places, path>>, FromPlace(dir, path), n)
                /\ MeantAfter(places, dir, path, n) = h[n]
<1>1. PICK x : x = FromPlace(dir, path)
  OBVIOUS
<1>2. PICK list : list = <<places, path>>
  OBVIOUS
<1>3. \E h : IsLoop(h, "meant", list, x, n)
  BY LoopRuns
<1>4. list[1] = places /\ list[2] = path
  BY <1>2
<1>5. \E h : IsLoop(h, "meant", list, x, n) /\ MeantAfter(places, dir, path, n) = h[n]
  BY ONLY <1>1, <1>3, <1>4 DEF MeantAfter, IsLoop, Step, FromPlace
<1> QED BY <1>1, <1>2, <1>5

\* Token by token.
LEMMA MeantNext ==
  ASSUME NEW places, NEW dir, NEW path
  PROVE  /\ MeantAfter(places, dir, path, 0) = FromPlace(dir, path)
         /\ \A n \in Nat : MeantAfter(places, dir, path, n + 1)
                             = MeantStep(places, MeantAfter(places, dir, path, n), path[n + 1])
<1>1. PICK x, list : x = FromPlace(dir, path) /\ list = <<places, path>>
  OBVIOUS
<1>2. MeantAfter(places, dir, path, 0) = x
  <2>1. PICK h : IsLoop(h, "meant", list, x, 0) /\ MeantAfter(places, dir, path, 0) = h[0]
    BY <1>1, MeantIs
  <2> QED BY <2>1, LoopTurns
<1>3. ASSUME NEW n \in Nat
      PROVE  MeantAfter(places, dir, path, n + 1)
               = MeantStep(places, MeantAfter(places, dir, path, n), path[n + 1])
  <2>1. PICK m \in Nat : m = n + 1
    OBVIOUS
  <2>2. PICK h : IsLoop(h, "meant", list, x, n) /\ MeantAfter(places, dir, path, n) = h[n]
    BY <1>1, MeantIs
  <2>3. PICK g : IsLoop(g, "meant", list, x, m) /\ MeantAfter(places, dir, path, m) = g[m]
    BY <1>1, MeantIs
  <2>4. h[0] = x /\ \A k \in 0 .. n - 1 : h[k + 1] = Step("meant", list, k + 1, h[k])
    BY <2>2, LoopTurns
  <2>5. g[0] = x /\ \A k \in 0 .. m - 1 : g[k + 1] = Step("meant", list, k + 1, g[k])
    BY <2>3, LoopTurns
  <2> DEFINE S == {k \in 0 .. n : h[k] = g[k]}
  <2>6. 0 \in S
    BY <2>4, <2>5
  <2>7. ASSUME NEW k \in 0 .. n - 1, k \in S PROVE k + 1 \in S
    <3>1. k \in 0 .. m - 1 /\ k + 1 \in 0 .. n
      BY <2>1
    <3> QED BY <3>1, <2>4, <2>5, <2>7
  <2> HIDE DEF S
  <2>8. \A k \in 0 .. n : k \in S
    BY <2>6, <2>7, Climb
  <2>9. h[n] = g[n]
    <3>1. n \in S
      BY <2>8
    <3> QED BY <3>1 DEF S
  <2>10. n \in 0 .. m - 1
    BY <2>1
  <2>11. g[m] = Step("meant", list, n + 1, h[n])
    BY <2>1, <2>5, <2>9, <2>10
  <2>12. list[1] = places /\ list[2] = path
    BY <1>1
  <2>13. Step("meant", list, n + 1, h[n]) = MeantStep(places, h[n], path[n + 1])
    BY <2>12 DEF Step
  <2> QED BY <2>1, <2>2, <2>3, <2>11, <2>13
<1> QED BY <1>1, <1>2, <1>3

\* Behind a name that is missing there is nothing.
LEMMA MeantNone ==
  ASSUME NEW places, NEW dir, NEW path, NEW n \in Nat, NEW i \in 0 .. n,
         MeantAfter(places, dir, path, i) = None
  PROVE  MeantAfter(places, dir, path, n) = None
<1> DEFINE S == {k \in 0 .. n : i <= k => MeantAfter(places, dir, path, k) = None}
<1>1. 0 \in S
  OBVIOUS
<1>2. ASSUME NEW k \in 0 .. n - 1, k \in S PROVE k + 1 \in S
  <2>1. k \in Nat /\ k + 1 \in 0 .. n
    OBVIOUS
  <2>2. CASE i <= k
    <3>1. MeantAfter(places, dir, path, k) = None
      BY <2>2, <1>2
    <3>2. MeantAfter(places, dir, path, k + 1)
            = MeantStep(places, MeantAfter(places, dir, path, k), path[k + 1])
      BY <2>1, MeantNext
    <3>3. \A a : MeantStep(places, None, a) = None
      BY DEF MeantStep
    <3>4. MeantAfter(places, dir, path, k + 1) = None
      BY <3>1, <3>2, <3>3
    <3> QED BY <2>1, <3>4
  <2>3. CASE ~(i <= k)
    <3>1. i <= k + 1 => i = k + 1
      BY <2>3
    <3> QED BY <2>1, <3>1
  <2> QED BY <2>2, <2>3
<1> HIDE DEF S
<1>3. \A k \in 0 .. n : k \in S
  BY <1>1, <1>2, Climb
<1>4. n \in S /\ i <= n
  BY <1>3
<1> QED BY <1>4 DEF S

-----------------------------------------------------------------------------
(* A walk goes where the path name means.                                  *)

\* A path name without two slashes in a row.
PlainPath(p) ==
  None \notin Range(p) /\ \A i \in 1 .. Len(p) - 1 : ~(p[i] = Slash /\ p[i + 1] = Slash)

\* The tokens of a path behind the first i.
Rest(p, i) == SubSeq(p, i + 1, Len(p))

LEMMA RestSeq ==
  ASSUME NEW T, NEW p \in Seq(T), NEW i \in 0 .. Len(p)
  PROVE  Rest(p, i) \in Seq(T) /\ Len(Rest(p, i)) = Len(p) - i
<1>1. PICK n \in Nat : n = Len(p) /\ i \in 0 .. n
  OBVIOUS
<1> QED BY ONLY <1>1, p \in Seq(T) DEF Rest

LEMMA RestAll ==
  ASSUME NEW T, NEW p \in Seq(T)
  PROVE  Rest(p, 0) = p /\ Rest(p, Len(p)) = <<>>
<1>1. PICK n \in Nat : n = Len(p)
  OBVIOUS
<1>2. Rest(p, 0) = p
  BY ONLY <1>1, p \in Seq(T) DEF Rest
<1>3. Rest(p, n) \in Seq(T) /\ Len(Rest(p, n)) = 0
  BY ONLY <1>1, p \in Seq(T) DEF Rest
<1>4. Rest(p, n) = <<>>
  BY ONLY <1>3
<1> QED BY <1>1, <1>2, <1>4

LEMMA RestNext ==
  ASSUME NEW T, NEW p \in Seq(T), NEW i, NEW k, i \in 0 .. Len(p), i # Len(p), k = i + 1
  PROVE  Rest(p, i) = <<p[k]>> \o Rest(p, k) /\ k \in 0 .. Len(p)
<1>1. PICK n \in Nat : n = Len(p) /\ i \in 0 .. n /\ i # n
  OBVIOUS
<1>2. PICK s, u : s = Rest(p, i) /\ u = Rest(p, k)
  OBVIOUS
<1>3. k \in 0 .. n
  BY ONLY <1>1, k = i + 1
<1>4. s \in Seq(T) /\ Len(s) = n - i /\ u \in Seq(T) /\ Len(u) = n - k
  BY <1>1, <1>2, <1>3, RestSeq
<1>5. \A l \in 1 .. n - i : s[l] = p[l + i]
  BY ONLY <1>1, <1>2, p \in Seq(T) DEF Rest
<1>6. \A l \in 1 .. n - k : u[l] = p[l + k]
  BY ONLY <1>1, <1>2, <1>3, p \in Seq(T) DEF Rest
<1>7. PICK t : t = <<p[k]>> \o u
  OBVIOUS
<1>8. p[k] \in T
  BY <1>1, <1>3
<1>9. t \in Seq(T) /\ Len(t) = n - i /\ \A l \in 1 .. n - i : t[l] = IF l = 1 THEN p[k] ELSE u[l - 1]
  <2>1. PICK a \in T : a = p[k]
    BY <1>8
  <2>2. PICK m \in Nat : m = Len(u) /\ n - i = m + 1
    <3>1. PICK m : m = Len(u)
      OBVIOUS
    <3>2. m = n - k /\ m \in Nat /\ n - i = m + 1
      BY ONLY <3>1, <1>1, <1>3, <1>4, k = i + 1, n \in Nat
    <3> QED BY ONLY <3>1, <3>2
  <2>3. t \in Seq(T) /\ Len(t) = m + 1
    BY ONLY <1>4, <1>7, <2>1, <2>2
  <2>4. \A l \in 1 .. m + 1 : t[l] = IF l = 1 THEN a ELSE u[l - 1]
    BY ONLY <1>4, <1>7, <2>1, <2>2
  <2> QED BY ONLY <2>1, <2>2, <2>3, <2>4
<1>10. ASSUME NEW l \in 1 .. n - i PROVE t[l] = s[l]
  <2>1. CASE l = 1
    <3>1. l + i = k
      BY ONLY <2>1, <1>1, k = i + 1
    <3> QED BY ONLY <2>1, <3>1, <1>5, <1>9, l \in 1 .. n - i
  <2>2. CASE l # 1
    <3>1. l - 1 \in 1 .. n - k /\ (l - 1) + k = l + i
      BY ONLY <2>2, <1>1, <1>3, l \in 1 .. n - i, k = i + 1
    <3> QED BY ONLY <2>2, <3>1, <1>5, <1>6, <1>9, l \in 1 .. n - i
  <2> QED BY <2>1, <2>2
<1>11. t = s
  BY ONLY <1>4, <1>9, <1>10
<1> QED BY <1>1, <1>2, <1>3, <1>7, <1>11

LEMMA HeadTail ==
  ASSUME NEW T, NEW u \in Seq(T), NEW a
  PROVE  <<a>> \o u # <<>> /\ Head(<<a>> \o u) = a /\ Tail(<<a>> \o u) = u
<1>1. PICK U : U = T \union {a}
  OBVIOUS
<1>2. u \in Seq(U) /\ a \in U
  BY ONLY <1>1, u \in Seq(T)
<1> QED BY ONLY <1>2

\* What the walk has before it, behind the first i tokens: a slash may be left.
Ahead(r, p, i) ==
  /\ i \in 0 .. Len(p)
  /\ i # Len(p) => p[i + 1] # Slash
  /\ r \in {Rest(p, i), <<Slash>> \o Rest(p, i)}

\* A name, and the slash behind it if there is one.
LEMMA NextAhead ==
  ASSUME NEW T, NEW p \in Seq(T), PlainPath(p), NEW r, NEW i, Ahead(r, p, i), i # Len(p)
  PROVE  \E s, j : /\ vfs_next_path(r) = [next |-> p[i + 1], rest |-> s]
                   /\ i + 1 \in 1 .. Len(p) /\ j \in i + 1 .. Len(p) /\ Ahead(s, p, j)
                   /\ j = i + 1 \/ (j = (i + 1) + 1 /\ p[(i + 1) + 1] = Slash)
                   /\ Len(s) \in Nat /\ Len(r) \in Nat /\ Len(s) < Len(r)
<1>1. PICK n \in Nat : n = Len(p)
  OBVIOUS
<1>2. i \in 0 .. n /\ i # n /\ p[i + 1] # Slash
  BY <1>1 DEF Ahead
<1>3. PICK k \in 0 .. n : k = i + 1 /\ k \in 1 .. n
  BY <1>2
<1>4. PICK q, u : q = Rest(p, i) /\ u = Rest(p, k)
  OBVIOUS
<1>5. /\ q \in Seq(T) /\ Len(q) = n - i /\ q # <<>> /\ Head(q) = p[k] /\ Tail(q) = u
      /\ u \in Seq(T) /\ Len(u) = n - k
  <2>1. q = <<p[k]>> \o u /\ q \in Seq(T) /\ Len(q) = n - i
    BY <1>1, <1>2, <1>3, <1>4, RestSeq, RestNext
  <2>2. u \in Seq(T) /\ Len(u) = n - k
    BY <1>1, <1>3, <1>4, RestSeq
  <2> QED BY <2>1, <2>2, HeadTail
<1>6. r \in {q, <<Slash>> \o q}
  BY <1>4 DEF Ahead
<1>7. DropSlash(r) = q /\ Len(r) \in Nat /\ n - i <= Len(r)
  <2>1. CASE r = q
    BY <2>1, <1>2, <1>3, <1>5 DEF DropSlash
  <2>2. CASE r = <<Slash>> \o q
    <3>1. r # <<>> /\ Head(r) = Slash /\ Tail(r) = q
      BY <2>2, <1>5, HeadTail
    <3>2. Len(r) = Len(q) + 1
      BY ONLY <2>2, <1>5
    <3> QED BY <3>1, <3>2, <1>2, <1>5 DEF DropSlash
  <2> QED BY <2>1, <2>2, <1>6
<1>8. PICK s : s = DropSlash(u)
  OBVIOUS
<1>9. vfs_next_path(r) = [next |-> p[k], rest |-> s]
  BY <1>2, <1>3, <1>5, <1>7, <1>8 DEF vfs_next_path
<1>10. CASE k = n \/ p[k + 1] # Slash
  <2>1. s = u
    <3>1. k = n => u = <<>>
      BY <1>1, <1>4, RestAll
    <3>2. ASSUME k # n PROVE Head(u) = p[k + 1]
      <4>1. PICK v : v = Rest(p, k + 1)
        OBVIOUS
      <4>2. u = <<p[k + 1]>> \o v /\ k + 1 \in 0 .. n
        BY <3>2, <4>1, <1>1, <1>3, <1>4, RestNext
      <4>3. v \in Seq(T)
        BY <4>1, <4>2, <1>1, RestSeq
      <4> QED BY <4>2, <4>3, HeadTail
    <3> QED BY <3>1, <3>2, <1>8, <1>10 DEF DropSlash
  <2>2. Ahead(s, p, k)
    BY <2>1, <1>1, <1>3, <1>4, <1>10 DEF Ahead
  <2>3. Len(s) \in Nat /\ Len(s) < Len(r) /\ k \in i + 1 .. n
    BY <2>1, <1>2, <1>3, <1>5, <1>7
  <2> QED BY <2>2, <2>3, <1>1, <1>3, <1>7, <1>9
<1>11. CASE k # n /\ p[k + 1] = Slash
  <2>1. PICK j \in 0 .. n : j = k + 1 /\ j \in i + 1 .. n /\ j \in 1 .. n
    BY <1>2, <1>3, <1>11
  <2>2. PICK v : v = Rest(p, j)
    OBVIOUS
  <2>3. u # <<>> /\ Head(u) = p[j] /\ Tail(u) = v /\ Len(v) = n - j
    <3>1. u = <<p[j]>> \o v
      BY <2>1, <2>2, <1>1, <1>3, <1>4, <1>11, RestNext
    <3>2. v \in Seq(T) /\ Len(v) = n - j
      BY <2>1, <2>2, <1>1, RestSeq
    <3> QED BY <3>1, <3>2, HeadTail
  <2>4. s = v
    BY <2>1, <2>3, <1>8, <1>11 DEF DropSlash
  <2>5. j # n => p[j + 1] # Slash
    <3>1. j # n => j \in 1 .. n - 1
      BY <2>1
    <3> QED BY <3>1, <2>1, <1>1, <1>11 DEF PlainPath
  <2>6. Ahead(s, p, j)
    BY <2>1, <2>2, <2>4, <2>5, <1>1 DEF Ahead
  <2>7. Len(s) \in Nat /\ Len(s) < Len(r)
    BY <2>1, <2>3, <2>4, <1>2, <1>3, <1>7
  <2> QED BY <2>1, <2>6, <2>7, <1>1, <1>3, <1>7, <1>9, <1>11
<1> QED BY <1>10, <1>11

LEMMA EndAhead ==
  ASSUME NEW T, NEW p \in Seq(T), NEW r, Ahead(r, p, Len(p))
  PROVE  vfs_next_path(r).next = None
<1>1. Rest(p, Len(p)) = <<>>
  BY RestAll
<1>2. r \in {<<>>, <<Slash>>}
  <2>1. <<Slash>> \o <<>> = <<Slash>>
    BY <<Slash>> \in Seq({Slash})
  <2> QED BY <1>1, <2>1 DEF Ahead
<1>3. DropSlash(r) = <<>>
  <2>1. Tail(<<Slash>>) = <<>> /\ Head(<<Slash>>) = Slash /\ <<Slash>> # <<>>
    OBVIOUS
  <2> QED BY <2>1, <1>2 DEF DropSlash
<1> QED BY <1>3 DEF vfs_next_path

\* The places there are.
PlacesSeen == {Place(d) : d \in Visible}

\* A name is still to come.
NamesAhead(p, i) == \E k \in i + 1 .. Len(p) : p[k] \notin {Slash, Dot, DotDot}

\* The walk is at the place that the first i tokens lead to.  Before the first name
\* it is at the root, with no dentry found.
Follows(w, places, dir, p, i) ==
  /\ DOMAIN w = WalkFields /\ ~w.halts /\ ~w.done
  /\ At(w.parent) /\ Place(w.parent) = MeantAfter(places, dir, p, i)
  /\ w.current = w.parent \/ (w.current = None /\ w.parent = vfs_root /\ NamesAhead(p, i))
  /\ Ahead(w.rest, p, i)

\* The walk has ended at a name that is missing, where the path means nothing.
Lost(w, places, dir, p) ==
  w.done /\ (w.halts \/ w.current = None) /\ Meaning(places, dir, p) = None

LEMMA FollowTurn ==
  ASSUME MountInv, mounted # 0, MountsBare, NoneHidden, None \notin Seq(Tokens),
         NEW T, NEW p \in Seq(T), PlainPath(p), NEW dir,
         NEW places, places = PlacesSeen, ~LeavesMount(places, MountPlaces, dir, p),
         NEW w, NEW i, Follows(w, places, dir, p, i), i # Len(p)
  PROVE  \/ Lost(Turn(w), places, dir, p)
         \/ \E j \in i + 1 .. Len(p) :
              /\ Follows(Turn(w), places, dir, p, j)
              /\ Len(Turn(w).rest) \in Nat /\ Len(w.rest) \in Nat /\ Len(Turn(w).rest) < Len(w.rest)
<1>1. PICK n \in Nat : n = Len(p)
  OBVIOUS
<1>2. PICK q, m, r : q = w.parent /\ m = Place(q) /\ r = w.rest
  OBVIOUS
<1>3. /\ DOMAIN w = WalkFields /\ ~w.halts /\ ~w.done /\ At(q) /\ m = MeantAfter(places, dir, p, i)
      /\ w.current = q \/ (w.current = None /\ q = vfs_root /\ NamesAhead(p, i))
      /\ Ahead(r, p, i)
  BY <1>2 DEF Follows
<1>4. PICK k, x : k = i + 1 /\ x = p[k]
  OBVIOUS
<1>5. PICK s, j : /\ vfs_next_path(r) = [next |-> x, rest |-> s]
                  /\ k \in 1 .. n /\ j \in k .. n /\ Ahead(s, p, j)
                  /\ j = k \/ (j = k + 1 /\ p[k + 1] = Slash)
                  /\ Len(s) \in Nat /\ Len(r) \in Nat /\ Len(s) < Len(r)
  BY <1>1, <1>3, <1>4, NextAhead
<1>6. i \in 0 .. n /\ i \in Nat /\ x # Slash /\ x # None /\ q \in Nodes /\ q # None
  <2>1. x \in Range(p)
    <3>1. k \in DOMAIN p
      BY <1>1, <1>5
    <3> QED BY <3>1, <1>4 DEF Range
  <2>2. x # None
    BY <2>1 DEF PlainPath
  <2>3. i \in 0 .. n /\ i \in Nat /\ x # Slash
    BY <1>1, <1>3, <1>4 DEF Ahead
  <2>4. q \in Nodes /\ q # None
    BY <1>3, NodeFacts DEF At, InTreeNode
  <2> QED BY <2>2, <2>3, <2>4
<1>7. m \in Seq(Tokens) /\ m # None
  BY <1>2, <1>3, PlaceSeq DEF At
<1>8. MeantAfter(places, dir, p, k) = MeantStep(places, m, x)
  BY <1>3, <1>4, <1>6, MeantNext
<1>9. MeantAfter(places, dir, p, j) = MeantStep(places, m, x)
  <2>1. CASE j = k
    BY <2>1, <1>8
  <2>2. CASE j = k + 1 /\ p[k + 1] = Slash
    <3>1. \A a : MeantStep(places, a, Slash) = a
      BY DEF MeantStep
    <3>2. k \in Nat
      BY <1>5
    <3>3. MeantAfter(places, dir, p, k + 1) = MeantStep(places, MeantAfter(places, dir, p, k), Slash)
      BY <2>2, <3>2, MeantNext
    <3> QED BY <2>2, <3>1, <3>3, <1>8
  <2> QED BY <2>1, <2>2, <1>5
<1>10. ASSUME x \in {Dot, DotDot}, NamesAhead(p, i) PROVE NamesAhead(p, j)
  <2>1. PICK l \in i + 1 .. n : p[l] \notin {Slash, Dot, DotDot}
    BY <1>1, <1>10 DEF NamesAhead
  <2>2. l # k /\ (j = k + 1 => l # k + 1)
    BY <2>1, <1>4, <1>5, <1>10
  <2>3. l \in j + 1 .. n
    BY <2>2, <1>1, <1>4, <1>5, <1>6
  <2> QED BY <2>1, <2>3, <1>1 DEF NamesAhead
<1>11. PICK v : v = [w EXCEPT !.rest = s]
  OBVIOUS
<1>12. /\ DOMAIN v = WalkFields /\ ~v.halts /\ ~v.done /\ v.parent = q /\ v.rest = s
       /\ v.current = w.current
  BY ONLY <1>2, <1>3, <1>11 DEF WalkFields
<1>13. PICK y : y = Turn(w)
  OBVIOUS
<1>14. y = IF x = Dot THEN v ELSE IF x = DotDot THEN Up(v) ELSE Down(v, x)
  BY <1>2, <1>3, <1>5, <1>6, <1>11, <1>13 DEF Turn
<1>15. ASSUME Follows(y, places, dir, p, j), y.rest = s
       PROVE  \E l \in i + 1 .. Len(p) :
                /\ Follows(Turn(w), places, dir, p, l)
                /\ Len(Turn(w).rest) \in Nat /\ Len(w.rest) \in Nat /\ Len(Turn(w).rest) < Len(w.rest)
  BY <1>15, <1>1, <1>2, <1>4, <1>5, <1>13
<1>16. ASSUME y = v, MeantStep(places, m, x) = m, x \in {Dot, DotDot}
       PROVE  Follows(y, places, dir, p, j)
  BY <1>16, <1>2, <1>3, <1>5, <1>9, <1>10, <1>12 DEF Follows
<1>17. ASSUME NEW e, At(e), Place(e) = MeantStep(places, m, x), y = [v EXCEPT !.current = e, !.parent = e]
       PROVE  Follows(y, places, dir, p, j) /\ y.rest = s
  <2>1. DOMAIN y = WalkFields /\ ~y.halts /\ ~y.done /\ y.parent = e /\ y.current = e /\ y.rest = s
    BY ONLY <1>17, <1>12 DEF WalkFields
  <2> QED BY <2>1, <1>17, <1>5, <1>9 DEF Follows
<1>18. CASE x = Dot
  <2>1. MeantStep(places, m, x) = m
    BY <1>18 DEF MeantStep
  <2>2. Follows(y, places, dir, p, j) /\ y.rest = s
    BY <2>1, <1>12, <1>14, <1>16, <1>18
  <2> QED BY <2>2, <1>15
<1>19. CASE x = DotDot /\ x # Dot
  <2>1. m \notin MountPlaces
    <3>1. k - 1 = i /\ k \in 1 .. Len(p)
      BY <1>1, <1>4, <1>5, <1>6
    <3> QED BY <3>1, <1>3, <1>4, <1>19 DEF LeavesMount
  <2>2. MeantStep(places, m, x) = IF m = <<>> THEN m ELSE Front(m)
    BY <1>6, <1>7, <1>19 DEF MeantStep
  <2>3. y = Up(v)
    BY <1>14, <1>19
  <2>4. CASE w.current = None /\ q = vfs_root
    <3>1. y = v
      BY <2>3, <2>4, <1>12 DEF Up
    <3>2. MeantStep(places, m, x) = m
      BY <2>2, <2>4, <1>2, PlaceOfRoot
    <3>3. Follows(y, places, dir, p, j) /\ y.rest = s
      BY <3>1, <3>2, <1>12, <1>16, <1>19
    <3> QED BY <3>3, <1>15
  <2>5. CASE w.current = q
    <3>1. PICK e : e = d_parent(q)
      OBVIOUS
    <3>2. y = [v EXCEPT !.current = e, !.parent = e]
      BY <2>3, <2>5, <3>1, <1>6, <1>12 DEF Up
    <3>3. At(e) /\ Place(e) = MeantStep(places, m, x)
      BY <2>1, <2>2, <3>1, <1>2, <1>3, ParentPlace
    <3>4. Follows(y, places, dir, p, j) /\ y.rest = s
      BY <3>2, <3>3, <1>17
    <3> QED BY <3>4, <1>15
  <2> QED BY <2>4, <2>5, <1>3
<1>20. CASE x # DotDot /\ x # Dot
  <2>1. PICK c : c = <<q[1], Append(q[2], x)>>
    OBVIOUS
  <2>2. y = Down(v, x) /\ IsName(x)
    BY <1>6, <1>14, <1>20 DEF IsName
  <2>3. MeantStep(places, m, x) = IF Append(m, x) \in places THEN Append(m, x) ELSE None
    BY <1>6, <1>7, <1>20 DEF MeantStep
  <2>4. CASE c \in Nodes
    <3>1. PICK e : e = Crossed(c)
      OBVIOUS
    <3>2. y = [v EXCEPT !.current = e, !.parent = e]
      BY <2>1, <2>2, <2>4, <3>1, <1>12 DEF Down
    <3>3. At(e) /\ Place(e) = Append(m, x) /\ e \in Visible
      BY <2>1, <2>2, <2>4, <3>1, <1>2, <1>3, EntryThere
    <3>4. Place(e) = MeantStep(places, m, x)
      BY <2>3, <3>3 DEF PlacesSeen
    <3>5. Follows(y, places, dir, p, j) /\ y.rest = s
      BY <3>2, <3>3, <3>4, <1>17
    <3> QED BY <3>5, <1>15
  <2>5. CASE c \notin Nodes
    <3>1. Append(m, x) \notin places
      BY <2>1, <2>5, <1>2, <1>3, EntryMissing DEF PlacesSeen
    <3>2. MeantAfter(places, dir, p, k) = None
      BY <2>3, <3>1, <1>8
    <3>3. k \in 0 .. n
      BY <1>5
    <3>4. Meaning(places, dir, p) = None
      BY <3>2, <3>3, <1>1, MeantNone DEF Meaning
    <3>5. y = IF q[1] \in NullOnMiss THEN [v EXCEPT !.current = None, !.done = TRUE]
              ELSE [v EXCEPT !.halts = TRUE, !.done = TRUE]
      BY <2>1, <2>2, <2>5, <1>12 DEF Down
    <3>6. y.done /\ (y.halts \/ y.current = None)
      BY ONLY <3>5, <1>12 DEF WalkFields
    <3> QED BY <3>4, <3>6, <1>13 DEF Lost
  <2> QED BY <2>4, <2>5
<1> QED BY <1>18, <1>19, <1>20

\* The walk has ended, at the place that the path means or for want of it.
Arrived(w, places, dir, p) ==
  \/ Lost(w, places, dir, p)
  \/ w.done /\ ~w.halts /\ At(w.current) /\ Place(w.current) = Meaning(places, dir, p)

LEMMA ArriveTurn ==
  ASSUME NEW T, NEW p \in Seq(T), NEW dir, NEW places, NEW w, Follows(w, places, dir, p, Len(p))
  PROVE  Arrived(Turn(w), places, dir, p)
<1>1. /\ DOMAIN w = WalkFields /\ ~w.halts /\ ~w.done /\ At(w.parent)
      /\ Place(w.parent) = Meaning(places, dir, p) /\ Ahead(w.rest, p, Len(p))
  BY DEF Follows, Meaning
<1>2. w.current = w.parent
  <2>1. Len(p) + 1 .. Len(p) = {}
    OBVIOUS
  <2> QED BY <2>1 DEF Follows, NamesAhead
<1>3. vfs_next_path(w.rest).next = None
  BY <1>1, EndAhead
<1>4. Turn(w) = [w EXCEPT !.done = TRUE]
  BY <1>1, <1>3 DEF Turn
<1>5. PICK y : y = [w EXCEPT !.done = TRUE]
  OBVIOUS
<1>6. y.done /\ ~y.halts /\ y.current = w.parent
  BY ONLY <1>1, <1>2, <1>5 DEF WalkFields
<1> QED BY <1>1, <1>4, <1>5, <1>6 DEF Arrived

\* From where the path starts to its end.
LEMMA Arrives ==
  ASSUME MountInv, mounted # 0, MountsBare, NoneHidden, None \notin Seq(Tokens),
         NEW T, NEW p \in Seq(T), PlainPath(p), NEW dir,
         NEW places, places = PlacesSeen, ~LeavesMount(places, MountPlaces, dir, p),
         NEW n \in Nat, NEW t \in Nat, t = n + 1, NEW x, NEW g, IsLoop(g, "resolve", <<>>, x, t),
         NEW b \in 0 .. t - 1, NEW a, Follows(g[b], places, dir, p, a),
         Len(g[b].rest) \in Nat, Len(g[b].rest) + b <= n
  PROVE  Arrived(g[t], places, dir, p)
<1>1. \A l \in 0 .. t - 1 : g[l + 1] = Turn(g[l])
  BY LoopTurns DEF Step
<1> DEFINE Passes(l, i) == /\ Follows(g[l], places, dir, p, i) /\ Len(g[l].rest) \in Nat
                           /\ Len(g[l].rest) + l <= n
           Ends(l) == \E k \in 0 .. l : Arrived(g[k], places, dir, p)
           S == {l \in 0 .. t : b <= l => Ends(l) \/ \E i : Passes(l, i)}
<1>2. Passes(b, a)
  OBVIOUS
<1>3. 0 \in S
  <2>1. 0 \in 0 .. t /\ (b <= 0 => b = 0)
    OBVIOUS
  <2>2. b = 0 => Passes(0, a)
    BY <1>2
  <2> QED BY <2>1, <2>2
<1>4. ASSUME NEW l \in 0 .. t - 1, l \in S PROVE l + 1 \in S
  <2>1. l + 1 \in 0 .. t /\ l \in Nat
    OBVIOUS
  <2>2. CASE ~(b <= l)
    <3>1. b <= l + 1 => b = l + 1
      BY <2>2
    <3> QED BY <2>1, <3>1, <1>2
  <2>3. ASSUME Ends(l) PROVE l + 1 \in S
    <3>1. PICK k \in 0 .. l : Arrived(g[k], places, dir, p)
      BY <2>3
    <3>2. k \in 0 .. l + 1
      BY <2>1
    <3> QED BY <2>1, <3>1, <3>2
  <2>4. ASSUME NEW i, Passes(l, i) PROVE l + 1 \in S
    <3>1. PICK w : w = g[l]
      OBVIOUS
    <3>2. Follows(w, places, dir, p, i) /\ Len(w.rest) \in Nat /\ Len(w.rest) + l <= n
      BY <2>4, <3>1
    <3>3. g[l + 1] = Turn(w) /\ l + 1 \in 0 .. l + 1
      BY <3>1, <1>1, <2>1
    <3>4. CASE Arrived(Turn(w), places, dir, p)
      BY <2>1, <3>3, <3>4
    <3>5. ASSUME NEW j, Follows(Turn(w), places, dir, p, j), Len(Turn(w).rest) \in Nat,
                 Len(Turn(w).rest) < Len(w.rest)
          PROVE  l + 1 \in S
      <4>1. PICK c, d : c = Len(Turn(w).rest) /\ d = Len(w.rest)
        OBVIOUS
      <4>2. c \in Nat /\ d \in Nat /\ c < d /\ d + l <= n
        BY ONLY <3>2, <3>5, <4>1
      <4>3. c + (l + 1) <= n
        BY ONLY <4>2, <2>1, n \in Nat
      <4>4. Passes(l + 1, j)
        BY <3>3, <3>5, <4>1, <4>3
      <4> QED BY <2>1, <4>4
    <3>6. CASE i = Len(p)
      BY <3>2, <3>4, <3>6, ArriveTurn
    <3>7. CASE i # Len(p)
      <4>1. \/ Lost(Turn(w), places, dir, p)
            \/ \E j \in i + 1 .. Len(p) :
                 /\ Follows(Turn(w), places, dir, p, j)
                 /\ Len(Turn(w).rest) \in Nat /\ Len(w.rest) \in Nat /\ Len(Turn(w).rest) < Len(w.rest)
        BY <3>2, <3>7, FollowTurn
      <4>2. Lost(Turn(w), places, dir, p) => Arrived(Turn(w), places, dir, p)
        BY DEF Arrived
      <4> HIDE DEF S
      <4> QED BY <4>1, <4>2, <3>4, <3>5
    <3> QED BY <3>6, <3>7
  <2> QED BY <2>2, <2>3, <2>4, <1>4
<1>5. t \in S
  <2> HIDE DEF S
  <2>1. \A l \in 0 .. t : l \in S
    BY <1>3, <1>4, Climb
  <2> QED BY <2>1
<1>6. ~\E i : Passes(t, i)
  <2>1. \A c \in Nat : ~(c + t <= n)
    OBVIOUS
  <2> QED BY <2>1
<1>7. PICK k \in 0 .. t : Arrived(g[k], places, dir, p)
  <2>1. b <= t
    OBVIOUS
  <2>2. Ends(t)
    BY <2>1, <1>5, <1>6
  <2> QED BY <2>2
<1>8. g[k].done
  BY <1>7 DEF Arrived, Lost
<1>9. g[t] = g[k]
  BY <1>8, StaysDone
<1> QED BY <1>7, <1>9

\* Where the walk has a path from the working directory before it.
LEMMA Sets ==
  ASSUME NEW T, NEW p \in Seq(T), ~(p # <<>> /\ Head(p) = Slash),
         NEW dir, NEW places, NEW w, DOMAIN w = WalkFields, ~w.halts, ~w.done,
         At(w.parent), Place(w.parent) = dir, w.rest \in {p, <<Slash>> \o p},
         w.current = w.parent \/ (w.current = None /\ w.parent = vfs_root /\ NamesAhead(p, 0))
  PROVE  Follows(w, places, dir, p, 0)
<1>1. MeantAfter(places, dir, p, 0) = dir
  BY MeantNext DEF FromPlace
<1>2. 0 \in 0 .. Len(p) /\ Rest(p, 0) = p
  BY RestAll
<1>3. 0 # Len(p) => p[0 + 1] # Slash
  <2>1. 0 # Len(p) => p # <<>> /\ Head(p) = p[1]
    OBVIOUS
  <2> QED BY <2>1
<1>4. Ahead(w.rest, p, 0)
  BY <1>2, <1>3 DEF Ahead
<1> QED BY <1>1, <1>4 DEF Follows

\* A walk from a working directory.
LEMMA Resolves ==
  ASSUME MountInv, mounted # 0, MountsBare, NoneHidden, None \notin Seq(Tokens),
         NEW d, At(d), NEW p, IsSeq(p), PlainPath(p), NEW dir, dir = Place(d),
         NEW places, places = PlacesSeen, ~LeavesMount(places, MountPlaces, dir, p),
         HasName(WholePath(vfs_get_full_path(d), p))
  PROVE  Arrived(vfs_resolve_path(vfs_get_full_path(d), p), places, dir, p)
<1>1. PICK c, P, T : c = vfs_get_full_path(d) /\ P = WholePath(c, p) /\ T = Range(p) \union Tokens
  OBVIOUS
<1>2. Tokens \subseteq T /\ Slash \in T /\ p \in Seq(T)
  <2>1. p \in Seq(Range(p)) /\ Range(p) \subseteq T /\ Tokens \subseteq T /\ Slash \in T
    BY <1>1 DEF IsSeq, Tokens
  <2>2. \A A, B, s : A \subseteq B /\ s \in Seq(A) => s \in Seq(B)
    OBVIOUS
  <2> QED BY <2>1, <2>2
<1>3. IsSeq(c)
  BY <1>1, FullPathIsSeq
<1>4. p # <<Slash>>
  <2>1. SUFFICES ASSUME p = <<Slash>> PROVE FALSE
    OBVIOUS
  <2>2. P = <<Slash>>
    BY <2>1, <1>1 DEF WholePath
  <2>3. \A i \in 1 .. Len(<<Slash>>) : <<Slash>>[i] = Slash
    OBVIOUS
  <2> QED BY <2>2, <2>3, <1>1 DEF HasName
<1>5. PICK t \in Nat : \E g : /\ t = Len(P) + 1 /\ IsLoop(g, "resolve", <<>>, Start(P), t)
                             /\ vfs_resolve_path(c, p) = g[t]
  BY <1>1, <1>3, <1>4, ResolveIs
<1>6. PICK g : /\ t = Len(P) + 1 /\ IsLoop(g, "resolve", <<>>, Start(P), t)
               /\ vfs_resolve_path(c, p) = g[t]
  BY <1>5
<1>7. PICK n \in Nat : n = Len(P) /\ t = n + 1
  BY <1>1, <1>3, <1>6, WholePathIsSeq
<1>8. PICK x : x = Start(P)
  OBVIOUS
<1>9. /\ DOMAIN x = WalkFields /\ ~x.halts /\ ~x.done /\ x.parent = vfs_root
      /\ x.current = None /\ x.rest = P /\ g[0] = x
  <2>1. g[0] = x
    BY <1>6, <1>8, LoopTurns
  <2> QED BY <2>1, <1>8 DEF Start, WalkFields
<1>10. At(vfs_root) /\ Place(vfs_root) = <<>>
  BY RootAt, PlaceOfRoot
<1>11. SUFFICES \E b \in 0 .. t - 1 : \E a : /\ Follows(g[b], places, dir, p, a)
                                            /\ Len(g[b].rest) \in Nat /\ Len(g[b].rest) + b <= n
  <2>1. ASSUME NEW b \in 0 .. t - 1, NEW a, Follows(g[b], places, dir, p, a),
               Len(g[b].rest) \in Nat, Len(g[b].rest) + b <= n
        PROVE  Arrived(g[t], places, dir, p)
    BY <2>1, <1>2, <1>6, <1>7, Arrives
  <2> QED BY <2>1, <1>1, <1>6
<1>12. 0 \in 0 .. t - 1 /\ Len(g[0].rest) \in Nat /\ Len(g[0].rest) + 0 <= n
  BY <1>7, <1>9
<1>13. CASE p # <<>> /\ Head(p) = Slash
  <2>1. P = p /\ n = Len(p)
    BY <1>1, <1>7, <1>13 DEF WholePath
  <2>2. n # 0 /\ p[1] = Slash
    BY <2>1, <1>2, <1>13
  <2>3. MeantAfter(places, dir, p, 1) = <<>>
    <3>1. MeantAfter(places, dir, p, 0) = <<>> /\ 0 \in Nat /\ 0 + 1 = 1
      BY <1>13, MeantNext DEF FromPlace
    <3>2. MeantAfter(places, dir, p, 0 + 1) = MeantStep(places, <<>>, p[0 + 1])
      BY <3>1, MeantNext
    <3>3. MeantStep(places, <<>>, Slash) = <<>>
      BY DEF MeantStep
    <3> QED BY <3>1, <3>2, <3>3, <2>2
  <2>4. NamesAhead(p, 1)
    <3>1. PICK k \in 1 .. n : p[k] \notin {Slash, Dot, DotDot}
      BY <2>1, <1>1 DEF HasName
    <3>2. k # 1
      BY <3>1, <2>2
    <3>3. k \in 1 + 1 .. Len(p)
      BY <3>2, <2>1
    <3> QED BY <3>1, <3>3 DEF NamesAhead
  <2>5. Ahead(p, p, 1)
    <3>1. 1 \in 0 .. Len(p) /\ 0 \in 0 .. Len(p) /\ 0 # Len(p) /\ 1 = 0 + 1
      BY <2>1, <2>2
    <3>2. Rest(p, 0) = <<p[1]>> \o Rest(p, 1) /\ Rest(p, 0) = p
      BY <3>1, <1>2, RestNext, RestAll
    <3>3. ASSUME 1 # Len(p) PROVE p[1 + 1] # Slash
      <4>1. 1 \in 1 .. Len(p) - 1
        BY <3>1, <3>3, <2>1
      <4> QED BY <4>1, <2>2 DEF PlainPath
    <3> QED BY <3>1, <3>2, <3>3, <2>2 DEF Ahead
  <2>6. Follows(x, places, dir, p, 1)
    BY <2>1, <2>3, <2>4, <2>5, <1>9, <1>10 DEF Follows
  <2> QED BY <2>6, <1>9, <1>12
<1>14. CASE ~(p # <<>> /\ Head(p) = Slash) /\ d = vfs_root
  <2>1. c = <<Slash>>
    BY <1>1, <1>14 DEF vfs_get_full_path
  <2>2. P = <<Slash>> \o p
    BY <2>1, <1>1, <1>14 DEF WholePath
  <2>3. NamesAhead(p, 0)
    <3>1. PICK k \in 1 .. Len(P) : P[k] \notin {Slash, Dot, DotDot}
      BY <1>1 DEF HasName
    <3>2. Len(P) = Len(p) + 1 /\ P[1] = Slash /\ \A i \in 1 .. Len(p) : P[i + 1] = p[i]
      BY ONLY <2>2, <1>2
    <3>3. PICK l : l = k - 1
      OBVIOUS
    <3>4. l \in 1 .. Len(p) /\ k = l + 1
      BY <3>1, <3>2, <3>3, <1>2
    <3>5. p[l] \notin {Slash, Dot, DotDot}
      BY <3>1, <3>2, <3>4
    <3>6. l \in 0 + 1 .. Len(p)
      BY <3>4
    <3> QED BY <3>5, <3>6 DEF NamesAhead
  <2>4. Follows(x, places, dir, p, 0)
    BY <2>2, <2>3, <1>2, <1>9, <1>10, <1>14, Sets
  <2> QED BY <2>4, <1>9, <1>12
<1>15. CASE ~(p # <<>> /\ Head(p) = Slash) /\ d # vfs_root
  <2>1. PICK m \in Nat : \E h :
          /\ Trace(h, m) /\ h[0].d = d /\ m # 0 /\ c = Trimmed(h[m].path)
          /\ c \in Seq(Tokens) /\ Len(c) > 1
    BY <1>1, <1>15, FullPathIs DEF At, InTreeNode
  <2>2. PICK h : /\ Trace(h, m) /\ h[0].d = d /\ m # 0 /\ c = Trimmed(h[m].path)
                 /\ c \in Seq(Tokens) /\ Len(c) > 1
    BY <2>1
  <2>3. c \in Seq(T) /\ c # <<Slash>>
    <3>1. PICK l : l = Len(c) /\ l > 1
      BY <2>2
    <3>2. Len(<<Slash>>) = 1
      OBVIOUS
    <3>3. c # <<Slash>>
      BY ONLY <3>1, <3>2
    <3>4. c \in Seq(T)
      BY ONLY <2>2, <1>2
    <3> QED BY <3>3, <3>4
  <2>4. PICK z : z = <<Slash>> \o p
    OBVIOUS
  <2>5. z \in Seq(T)
    BY ONLY <2>4, <1>2
  <2>6. P = c \o z
    <3>1. P = Append(c, Slash) \o p
      BY <2>3, <1>1, <1>15 DEF WholePath
    <3>2. Append(c, Slash) \o p = c \o (<<Slash>> \o p)
      BY ONLY <2>3, <1>2
    <3> QED BY ONLY <3>1, <3>2, <2>4
  <2>7. P \in Seq(T)
    BY ONLY <2>3, <2>5, <2>6
  <2>8. PICK i \in 0 .. t - 1 : /\ OnWay(g[i], h, 0, m, z) /\ Len(g[i].rest) \in Nat
                                /\ Len(g[i].rest) + i <= Len(P)
    BY <2>2, <2>5, <2>6, <2>7, <1>2, <1>6, Descends
  <2>9. PICK w : w = g[i]
    OBVIOUS
  <2>10. /\ DOMAIN w = WalkFields /\ ~w.halts /\ ~w.done /\ w.parent = d /\ w.current = w.parent
         /\ w.rest \in {p, <<Slash>> \o p}
    <3>1. h[0].path = <<>> /\ h[0].d = d /\ 0 # m
      BY <2>2 DEF Trace
    <3>2. Trimmed(<<>>) = <<>> /\ <<>> \o z = z
      BY <2>5 DEF Trimmed
    <3>3. DropSlash(z) = p
      BY <2>4, <1>2, HeadTail DEF DropSlash
    <3> QED BY <3>1, <3>2, <3>3, <2>4, <2>8, <2>9 DEF OnWay
  <2>11. Follows(w, places, dir, p, 0)
    BY <2>10, <1>2, <1>15, Sets
  <2> QED BY <2>8, <2>9, <2>11, <1>7
<1> QED BY <1>13, <1>14, <1>15

\* Path names of one slash between names, as those of the model's instance; and
\* None is no place.
PlainPaths == (\A p \in Paths : PlainPath(p)) /\ None \notin Seq(Tokens)

\* vfs_resolve_path goes where a path name means in the one tree, from every
\* working directory and over every mount, if file systems are mounted on dentries
\* with none below them, none hides another, and no path has two slashes in a row.
THEOREM VfsResolvesAsMeant ==
  Spec => [](PlainPaths /\ MountsBare /\ NoneHidden => ResolvesAsMeant)
<1>1. ASSUME PathInv, PlainPaths, MountsBare, NoneHidden PROVE ResolvesAsMeant
  <2>1. ASSUME NEW t \in Tasks, cwd[t] # None, NEW p \in Paths, NEW places, places = PlacesSeen,
               NEW dir, dir = Place(opened[t]), NEW w, w = vfs_resolve_path(cwd[t], p),
               HasName(WholePath(cwd[t], p)), ~LeavesMount(places, MountPlaces, dir, p)
        PROVE  IF w.halts \/ OpenedDentry(w) = None THEN Meaning(places, dir, p) = None
               ELSE Place(OpenedDentry(w)) = Meaning(places, dir, p)
    <3>1. MountInv /\ mounted # 0
      BY <1>1, <2>1, BootFacts DEF PathInv, Booted
    <3>2. At(opened[t]) /\ cwd[t] = vfs_get_full_path(opened[t])
      BY <1>1, <2>1 DEF PathInv, TasksAt
    <3>3. IsSeq(p) /\ PlainPath(p) /\ None \notin Seq(Tokens)
      BY <1>1, VfsPathAssumption DEF PlainPaths
    <3>4. Arrived(w, places, dir, p)
      BY <1>1, <2>1, <3>1, <3>2, <3>3, Resolves
    <3>5. CASE Lost(w, places, dir, p)
      BY <3>5 DEF Lost, OpenedDentry
    <3>6. CASE ~w.halts /\ At(w.current) /\ Place(w.current) = Meaning(places, dir, p)
      <4>1. w.current # None /\ OpenedDentry(w) = w.current
        BY <3>6, NodeFacts DEF At, InTreeNode, OpenedDentry, Crossed
      <4> QED BY <4>1, <3>6
    <3> QED BY <3>4, <3>5, <3>6 DEF Arrived
  <2>2. ASSUME NEW t \in {u \in Tasks : cwd[u] # None}, NEW p \in Paths
        PROVE  LET dir == Place(opened[t])
                   w == vfs_resolve_path(cwd[t], p)
               IN HasName(WholePath(cwd[t], p)) /\ ~LeavesMount(PlacesSeen, MountPlaces, dir, p) =>
                  IF w.halts \/ OpenedDentry(w) = None THEN Meaning(PlacesSeen, dir, p) = None
                  ELSE Place(OpenedDentry(w)) = Meaning(PlacesSeen, dir, p)
    BY <2>1
  <2> QED BY ONLY <2>2 DEF ResolvesAsMeant, PlacesSeen
<1>2. PathInv => (PlainPaths /\ MountsBare /\ NoneHidden => ResolvesAsMeant)
  BY <1>1
<1> QED BY <1>2, PathInvariant, PTL
=============================================================================
