----------------------------- MODULE SchedProofs ----------------------------
(***************************************************************************)
(* Proofs about Sched, for any number of tasks, readers and events.        *)
(*                                                                         *)
(* OnePlace counts places; the induction is over membership: Placed says   *)
(* the same with sets.  It rests on whose stack the processor is on: a     *)
(* task that is in a call, and not behind sched_again, is the one in       *)
(* running_tasks (Executing).  No stack is in two places (OneStack), and   *)
(* one saved under another name stands in sched_again (Misplaced).         *)
(***************************************************************************)
EXTENDS Sched, FiniteSetTheorems, SequenceTheorems, WellFoundedInduction, TLAPS

\* Every pc belongs to a call.
Calling ==
  \A t \in Tasks :
    /\ pc[t] \in {"user", "add"} => op[t] = "none"
    /\ pc[t] = "start" => op[t] \in {"none", "execve"}
    /\ pc[t] \in {"subscribed", "woken"} => op[t] = "read"
    /\ pc[t] = "poll" => op[t] = "wait"
    /\ pc[t] = "slept" => op[t] = "sleep"
    /\ pc[t] \in {"again", "switch"} => op[t] # "none"
    /\ pc[t] = "gone" => op[t] \in {"exit", "fail"}
    /\ op[t] \in {"exit", "fail"} => state[t] \in {"ZOMBIE", "freed"}

\* OnePlace, through membership.
Placed ==
  /\ IsInjective(active) /\ IsInjective(cleanup)
  /\ \A t \in Tasks :
       /\ Contains(active, t) => state[t] \in {"READY", "WAITING"} /\ running # t
       /\ Contains(cleanup, t) <=> state[t] = "ZOMBIE"
       /\ running = t => \/ state[t] = "RUNNING"
                         \/ pc[t] = "again" /\ state[t] \in {"READY", "WAITING"}
       /\ pc[t] = "add" => /\ arg[t] \in Tasks /\ state[arg[t]] = "READY"
                           /\ ~Contains(active, arg[t]) /\ running # arg[t]
       /\ state[t] \in {"READY", "RUNNING", "WAITING"} =>
            \/ running = t \/ Contains(active, t)
            \/ \E p \in Tasks : pc[p] = "add" /\ arg[p] = t
       /\ t >= next_tid => state[t] = "none"
  /\ \A p, q \in Tasks : pc[p] = "add" /\ pc[q] = "add" /\ arg[p] = arg[q] => p = q

\* Whoever executes is the running task, unless it stands behind the choice of
\* sched_again or is ending.
Executing ==
  /\ \A t \in Tasks :
       cpu = t => \/ running = t \/ pc[t] = "switch"
                  \/ running = Null /\ pc[t] = "again" /\ op[t] \in {"exit", "fail"}
  /\ cpu = Idle => running = Idle
  /\ cpu = Boot => running = Null
  /\ running = Null => \/ cpu = Boot
                       \/ cpu \in Tasks /\ pc[cpu] = "again" /\ op[cpu] \in {"exit", "fail"}

\* A stack saved under another name stands behind the choice of sched_again.
Misplaced ==
  \A n \in Tasks \union {Idle} :
    /\ \A t \in Tasks : tstack[n] = t /\ t # n => pc[t] = "switch" /\ op[t] # "execve"
    /\ tstack[n] = Idle => n = Idle

\* A stack is in one place, except that execve's caller has got a new one.
OneStack ==
  /\ \A n, m \in Tasks \union {Idle}, t \in Tasks : tstack[n] = t /\ tstack[m] = t => n = m
  /\ \A n \in Tasks \union {Idle}, t \in Tasks :
       cpu = t /\ tstack[n] = t => n = t /\ op[t] = "execve" /\ pc[t] \in {"again", "switch"}

Stacks == Live => Executing /\ Misplaced /\ OneStack

\* A reader that waits for a key or is about to.
WaitsKey(t) == (state[t] = "WAITING" /\ wakeup[t] = "key") \/ pc[t] = "subscribed"

Readings == {t \in Tasks : WaitsKey(t)}

\* ReadersCanBeWoken, the freed events that are still linked included.
EnoughEvents == Cardinality(Readings) =< Len(sub_list)

\* There are enough events, and a reader that has yet to wait is not waiting.
Waits ==
  /\ EnoughEvents
  /\ \A t \in Tasks : pc[t] = "subscribed" => state[t] # "WAITING"

\* A subscriber of an event on sub_list is still in its call, and not awake.
SubsWait ==
  /\ sub_list \in Seq(Tasks) /\ IsInjective(sub_list)
  /\ \A t \in Tasks : Contains(sub_list, t) => t \in Readers /\ op[t] = "read" /\ WaitsKey(t)

\* The inductive invariant.
SchedIInv == TypeOK /\ Calling /\ Placed /\ Stacks

OneReader == \A r, s \in Readers : r = s
ReadIInv == Waits /\ (OneReader => SubsWait)

\* Up to a tick between the choice and the switch every context is in its own place.
OwnStacks ==
  /\ \A t \in Tasks : t # cpu /\ state[t] \in {"none", "READY", "RUNNING", "WAITING"} => tstack[t] = t
  /\ cpu # Idle => tstack[Idle] = Idle
  /\ cpu \in Tasks => state[cpu] \notin {"none", "freed"}
  /\ \A t \in Tasks : op[t] = "execve" /\ pc[t] \in {"again", "switch"} => cpu = t /\ tstack[t] = t
  /\ halted # "stack"

-----------------------------------------------------------------------------
(* Lists.                                                                  *)

\* A set of numbers that is not empty has a least one: how the proofs get at
\* the first entry of a list that passes a test.
LEMMA LeastNat ==
  ASSUME NEW S \in SUBSET Nat, S # {}
  PROVE  Min(S) \in S
<1> DEFINE R == {p \in Nat \X Nat : p[1] < p[2]}
<1>1. R = OpToRel(<, Nat)
  BY DEF OpToRel
<1>2. IsWellFoundedOn(R, Nat)
  BY <1>1, NatLessThanWellFounded
<1> HIDE DEF R
<1>3. PICK x \in S : \A y \in S : ~(<<y, x>> \in R)
  BY <1>2, WFMin
<1>4. \A y \in S : ~(y < x)
  BY <1>3 DEF R
<1>5. \E z \in S : \A y \in S : z =< y
  BY <1>3, <1>4
<1>6. QED
  BY <1>5 DEF Min

\* fifo_push.
LEMMA PushEntry ==
  ASSUME NEW S, NEW s \in Seq(S), NEW e \in S
  PROVE  /\ Append(s, e) \in Seq(S)
         /\ \A x : Contains(Append(s, e), x) <=> Contains(s, x) \/ x = e
         /\ IsInjective(s) /\ ~Contains(s, e) => IsInjective(Append(s, e))
<1>1. /\ Append(s, e) \in Seq(S) /\ Len(Append(s, e)) = Len(s) + 1 /\ Len(s) \in Nat
      /\ DOMAIN s = 1 .. Len(s) /\ DOMAIN Append(s, e) = 1 .. Len(s) + 1
      /\ \A i \in 1 .. Len(s) + 1 : Append(s, e)[i] = IF i = Len(s) + 1 THEN e ELSE s[i]
  OBVIOUS
<1> DEFINE r == Append(s, e)
<1> HIDE DEF r
<1>2. \A x : Contains(r, x) <=> Contains(s, x) \/ x = e
  BY <1>1 DEF Contains, r
<1>3. IsInjective(s) /\ ~Contains(s, e) => IsInjective(r)
  BY <1>1 DEF Contains, IsInjective, r
<1>4. QED
  BY <1>1, <1>2, <1>3 DEF r

\* dlist_remove_entry takes out exactly the entry it is given.
LEMMA RemoveEntry ==
  ASSUME NEW S, NEW s \in Seq(S), NEW e, Contains(s, e), IsInjective(s)
  PROVE  /\ dlist_remove_entry(s, e) \in Seq(S)
         /\ IsInjective(dlist_remove_entry(s, e))
         /\ \A x : Contains(dlist_remove_entry(s, e), x) <=> Contains(s, x) /\ x # e
<1> DEFINE at == CHOOSE i \in DOMAIN s : s[i] = e
           a == SubSeq(s, 1, at - 1)
           b == SubSeq(s, at + 1, Len(s))
           r == a \o b
<1>1. at \in 1 .. Len(s) /\ s[at] = e
  BY DEF Contains
<1>2. dlist_remove_entry(s, e) = r
  BY DEF dlist_remove_entry, RemoveAt
<1> HIDE DEF at
<1>3. Len(s) \in Nat /\ DOMAIN s = 1 .. Len(s) /\ \A i \in 1 .. Len(s) : s[i] \in S
  OBVIOUS
<1>4. a \in Seq(S) /\ Len(a) = at - 1 /\ \A i \in 1 .. at - 1 : a[i] = s[i]
  <2>1. 1 \in Int /\ at - 1 \in Int /\ \A i \in 1 .. at - 1 : s[i] \in S
    BY <1>1, <1>3
  <2>2. /\ a \in Seq(S) /\ Len(a) = IF 1 <= at - 1 THEN at - 1 - 1 + 1 ELSE 0
        /\ \A i \in 1 .. at - 1 - 1 + 1 : a[i] = s[1 + i - 1]
    BY <2>1, SubSeqProperties
  <2>3. QED
    BY <1>1, <1>3, <2>2
<1>5. b \in Seq(S) /\ Len(b) = Len(s) - at /\ \A i \in 1 .. Len(s) - at : b[i] = s[at + i]
  <2>1. at + 1 \in Int /\ Len(s) \in Int /\ \A i \in at + 1 .. Len(s) : s[i] \in S
    BY <1>1, <1>3
  <2>2. /\ b \in Seq(S) /\ Len(b) = IF at + 1 <= Len(s) THEN Len(s) - (at + 1) + 1 ELSE 0
        /\ \A i \in 1 .. Len(s) - (at + 1) + 1 : b[i] = s[at + 1 + i - 1]
    BY <2>1, SubSeqProperties
  <2> HIDE DEF b
  <2>3. Len(b) = Len(s) - at
    <3>1. CASE at + 1 <= Len(s)
      BY <1>1, <1>3, <2>2, <3>1
    <3>2. CASE ~(at + 1 <= Len(s))
      <4>1. at = Len(s) /\ Len(s) - at = 0
        <5>1. \A n \in Nat : \A k \in 1 .. n : ~(k + 1 <= n) => k = n /\ n - k = 0
          OBVIOUS
        <5>2. QED
          BY <1>1, <1>3, <3>2, <5>1, Zenon
      <4>2. QED
        BY <2>2, <3>2, <4>1
    <3>3. QED
      BY <3>1, <3>2
  <2>4. ASSUME NEW i \in 1 .. Len(s) - at PROVE b[i] = s[at + i]
    <3>1. i \in 1 .. Len(s) - (at + 1) + 1 /\ at + 1 + i - 1 = at + i
      BY <1>1, <1>3
    <3>2. QED
      BY <2>2, <3>1
  <2>5. QED
    BY <2>2, <2>3, <2>4
<1> HIDE DEF a, b
<1>6. /\ r \in Seq(S) /\ Len(r) = Len(s) - 1 /\ DOMAIN r = 1 .. Len(s) - 1
      /\ \A i \in 1 .. Len(s) - 1 : r[i] = IF i < at THEN s[i] ELSE s[i + 1]
  <2>1. /\ r \in Seq(S) /\ Len(r) = Len(a) + Len(b)
        /\ \A i \in 1 .. Len(a) + Len(b) : r[i] = IF i <= Len(a) THEN a[i] ELSE b[i - Len(a)]
    BY <1>4, <1>5, ConcatProperties
  <2> HIDE DEF r
  <2>2. Len(r) = Len(s) - 1
    BY <1>1, <1>3, <1>4, <1>5, <2>1
  <2>3. ASSUME NEW i \in 1 .. Len(s) - 1 PROVE r[i] = IF i < at THEN s[i] ELSE s[i + 1]
    <3>1. r[i] = IF i <= at - 1 THEN a[i] ELSE b[i - (at - 1)]
      BY <1>1, <1>3, <1>4, <1>5, <2>1
    <3>2. CASE i < at
      BY <1>1, <1>3, <1>4, <3>1, <3>2
    <3>3. CASE ~(i < at)
      <4>1. i - (at - 1) \in 1 .. Len(s) - at /\ at + (i - (at - 1)) = i + 1 /\ ~(i <= at - 1)
        BY <1>1, <1>3, <3>3
      <4>2. QED
        BY <1>5, <3>1, <3>3, <4>1
    <3>4. QED
      BY <3>2, <3>3
  <2>4. QED
    BY <2>1, <2>2, <2>3
<1> HIDE DEF r
<1>7. IsInjective(r)
  BY <1>1, <1>3, <1>6 DEF IsInjective
<1>8. ASSUME NEW x, Contains(r, x) PROVE Contains(s, x) /\ x # e
  BY <1>1, <1>3, <1>6, <1>8 DEF IsInjective, Contains
<1>9. ASSUME NEW x, Contains(s, x), x # e PROVE Contains(r, x)
  <2>1. PICK i \in 1 .. Len(s) : s[i] = x
    BY <1>9 DEF Contains
  <2>2. CASE i < at
    BY <2>1, <2>2, <1>1, <1>3, <1>6 DEF Contains
  <2>3. CASE i > at
    <3>1. i - 1 \in 1 .. Len(s) - 1 /\ ~(i - 1 < at) /\ (i - 1) + 1 = i
      BY <2>3, <1>1, <1>3
    <3>2. QED
      BY <2>1, <3>1, <1>6 DEF Contains
  <2>4. QED
    BY <1>1, <1>9, <2>1, <2>2, <2>3
<1>10. QED
  BY <1>2, <1>6, <1>7, <1>8, <1>9

\* __active_task_next_available finds an entry that passes its test, if there is one.
LEMMA FoundAvailable ==
  ASSUME NEW list \in Seq(Tasks), FirstAvailable(list) # Null
  PROVE  /\ FirstAvailable(list) \in Tasks
         /\ Contains(list, FirstAvailable(list))
         /\ Available(FirstAvailable(list))
<1> DEFINE hits == {i \in DOMAIN list : Available(list[i])}
<1>1. hits # {} /\ FirstAvailable(list) = list[Min(hits)]
  BY DEF FirstAvailable
<1>2. hits \in SUBSET Nat /\ DOMAIN list = 1 .. Len(list)
  OBVIOUS
<1>3. Min(hits) \in hits
  BY <1>1, <1>2, LeastNat
<1> DEFINE m == Min(hits)
<1>4. m \in 1 .. Len(list) /\ Available(list[m]) /\ list[m] \in Tasks
  BY <1>2, <1>3
<1> HIDE DEF m
<1>5. Contains(list, list[m])
  BY <1>4 DEF Contains
<1>6. QED
  BY <1>1, <1>4, <1>5 DEF m

-----------------------------------------------------------------------------
(* The choice of sched_again.                                              *)

\* The part of sched_again under sched_lock moves tasks between running_tasks
\* and active_tasks, and loses none.
LEMMA ChoosePlaced ==
  ASSUME TypeOK, Placed, ChooseNext,
         \A p \in Tasks : pc'[p] = "add" <=> pc[p] = "add"
  PROVE  /\ Placed'
         /\ running' \in Tasks \union {Idle}
         /\ active' \in Seq(Tasks)
         /\ \A t \in Tasks : running' = t => state'[t] = "RUNNING"
         /\ \A t \in Tasks : running' = t => state[t] \in {"READY", "RUNNING", "WAITING"}
         /\ \A t \in Tasks : state[t] \in {"ZOMBIE", "freed"} => state'[t] = state[t]
         /\ \A t \in Tasks : state'[t] \in {"none", "ZOMBIE", "freed", "WAITING"} => state[t] = state'[t]
         /\ \A t \in Tasks : state[t] = "WAITING" /\ wakeup[t] # "sleep" => state'[t] = "WAITING"
         /\ state' \in [Tasks -> {"none", "READY", "RUNNING", "WAITING", "ZOMBIE", "freed"}]
<1> DEFINE curr == running
           isRunning == curr \in Tasks /\ state[curr] = "RUNNING"
           list == IF curr \in Tasks /\ ~isRunning THEN fifo_push(active, curr) ELSE active
           found == FirstAvailable(list)
           next == IF found # Null THEN found ELSE IF isRunning THEN curr ELSE Idle
<1>1. /\ active' = IF found = Null THEN list
                   ELSE IF isRunning THEN fifo_push(TakeOff(list, found), curr)
                   ELSE TakeOff(list, found)
      /\ state' = [t \in Tasks |-> IF t = next THEN "RUNNING"
                                   ELSE IF t = curr /\ isRunning THEN "READY"
                                   ELSE state[t]]
      /\ running' = next
      /\ UNCHANGED <<cleanup, arg, next_tid>>
  BY DEF ChooseNext, identity
<1>2. /\ list \in Seq(Tasks) /\ IsInjective(list)
      /\ \A t \in Tasks : Contains(list, t) <=> Contains(active, t) \/ (t = curr /\ ~isRunning)
  <2>1. CASE curr \in Tasks /\ ~isRunning
    <3>1. ~Contains(active, curr)
      BY <2>1 DEF Placed
    <3>2. list = Append(active, curr) /\ active \in Seq(Tasks) /\ IsInjective(active)
      BY <2>1 DEF fifo_push, TypeOK, Placed
    <3> HIDE DEF list
    <3>3. QED
      BY <2>1, <3>1, <3>2, PushEntry
  <2>2. CASE ~(curr \in Tasks /\ ~isRunning)
    <3>1. list = active /\ active \in Seq(Tasks) /\ IsInjective(active)
      BY <2>2 DEF TypeOK, Placed
    <3> HIDE DEF list
    <3>2. QED
      BY <2>2, <3>1
  <2>3. QED
    BY <2>1, <2>2
<1>3. \A t \in Tasks : Contains(list, t) => state[t] \in {"READY", "WAITING"}
  BY <1>2 DEF Placed
<1> HIDE DEF list
<1>4. found # Null => /\ found \in Tasks /\ Contains(list, found) /\ Available(found)
                      /\ isRunning => found # curr
  <2>1. found # Null => found \in Tasks /\ Contains(list, found) /\ Available(found)
    BY <1>2, FoundAvailable
  <2>2. QED
    BY <1>3, <2>1
<1> HIDE DEF found
<1>5. /\ active' \in Seq(Tasks) /\ IsInjective(active')
      /\ \A t \in Tasks : Contains(active', t) <=> /\ t # next
                                                   /\ Contains(list, t) \/ (t = curr /\ isRunning)
  <2>1. CASE found = Null
    BY <1>1, <1>2, <1>3, <2>1, SchedAssumption DEF Tasks
  <2>2. CASE found # Null /\ ~isRunning
    BY <1>1, <1>2, <1>4, <2>2, RemoveEntry DEF TakeOff
  <2>3. CASE found # Null /\ isRunning
    <3>1. /\ TakeOff(list, found) \in Seq(Tasks) /\ IsInjective(TakeOff(list, found))
          /\ \A x : Contains(TakeOff(list, found), x) <=> Contains(list, x) /\ x # found
      BY <1>2, <1>4, <2>3, RemoveEntry DEF TakeOff
    <3>2. ~Contains(TakeOff(list, found), curr)
      BY <1>3, <2>3, <3>1
    <3>3. QED
      BY <1>1, <1>4, <2>3, <3>1, <3>2, PushEntry DEF fifo_push
  <2>4. QED
    BY <2>1, <2>2, <2>3
<1>6. /\ next \in Tasks \union {Idle}
      /\ next \in Tasks => Contains(list, next) \/ (next = curr /\ isRunning)
      /\ next \in Tasks => ~(state[next] = "WAITING" /\ wakeup[next] # "sleep")
  BY <1>4, SchedAssumption DEF Available
<1> HIDE DEF next
<1>7. \A t \in Tasks : state'[t] = IF t = next THEN "RUNNING"
                                   ELSE IF t = curr /\ isRunning THEN "READY" ELSE state[t]
  BY <1>1
<1>8. \A t \in Tasks : running' = t <=> t = next
  BY <1>1
<1>9. ASSUME NEW t \in Tasks
      PROVE  /\ Contains(active', t) => state'[t] \in {"READY", "WAITING"} /\ running' # t
             /\ Contains(cleanup', t) <=> state'[t] = "ZOMBIE"
             /\ running' = t => state'[t] = "RUNNING"
             /\ t >= next_tid' => state'[t] = "none"
  <2>1. Contains(active', t) => state'[t] \in {"READY", "WAITING"} /\ running' # t
    BY <1>3, <1>5, <1>7, <1>8
  <2>2. state'[t] = "ZOMBIE" <=> state[t] = "ZOMBIE"
    BY <1>3, <1>6, <1>7
  <2>3. state[t] = "none" => state'[t] = "none"
    BY <1>3, <1>6, <1>7
  <2>4. QED
    BY <1>1, <1>7, <1>8, <2>1, <2>2, <2>3 DEF Placed
<1>10. ASSUME NEW t \in Tasks, pc'[t] = "add"
       PROVE  /\ arg'[t] \in Tasks /\ state'[arg'[t]] = "READY"
              /\ ~Contains(active', arg'[t]) /\ running' # arg'[t]
  <2>1. arg'[t] = arg[t] /\ pc[t] = "add"
    BY <1>1, <1>10
  <2>2. /\ arg[t] \in Tasks /\ state[arg[t]] = "READY"
        /\ ~Contains(active, arg[t]) /\ running # arg[t]
    BY <2>1 DEF Placed
  <2>3. ~Contains(list, arg[t]) /\ arg[t] # next /\ arg[t] # curr
    BY <1>2, <1>6, <2>2
  <2>4. QED
    BY <1>5, <1>7, <1>8, <2>1, <2>2, <2>3
<1>11. ASSUME NEW t \in Tasks, state'[t] \in {"READY", "RUNNING", "WAITING"}
       PROVE  \/ running' = t \/ Contains(active', t)
              \/ \E p \in Tasks : pc'[p] = "add" /\ arg'[p] = t
  <2>1. CASE t = next
    BY <1>8, <2>1
  <2>2. CASE t # next /\ t = curr
    BY <1>2, <1>5, <2>2
  <2>3. CASE t # next /\ t # curr
    <3>1. state[t] = state'[t] /\ (\/ Contains(active, t)
                                   \/ \E p \in Tasks : pc[p] = "add" /\ arg[p] = t)
      BY <1>7, <1>11, <2>3 DEF Placed
    <3>2. QED
      BY <1>1, <1>2, <1>5, <2>3, <3>1
  <2>4. QED
    BY <2>1, <2>2, <2>3
<1>12. \A p, q \in Tasks : pc'[p] = "add" /\ pc'[q] = "add" /\ arg'[p] = arg'[q] => p = q
  BY <1>1 DEF Placed
<1>13. IsInjective(cleanup')
  BY <1>1 DEF Placed
<1>14. Placed'
  BY <1>5, <1>9, <1>10, <1>11, <1>12, <1>13 DEF Placed
<1>15. \A t \in Tasks : state[t] \in {"ZOMBIE", "freed"} => state'[t] = state[t]
  BY <1>3, <1>6, <1>7
<1>16. state' \in [Tasks -> {"none", "READY", "RUNNING", "WAITING", "ZOMBIE", "freed"}]
  BY <1>1 DEF TypeOK
<1>17. \A t \in Tasks : running' = t => state[t] \in {"READY", "RUNNING", "WAITING"}
  BY <1>3, <1>6, <1>8
<1>18. \A t \in Tasks : /\ state'[t] \in {"none", "ZOMBIE", "freed", "WAITING"} => state[t] = state'[t]
                        /\ state[t] = "WAITING" /\ wakeup[t] # "sleep" => state'[t] = "WAITING"
  BY <1>6, <1>7
<1>19. QED
  BY <1>1, <1>5, <1>6, <1>9, <1>14, <1>15, <1>16, <1>17, <1>18

-----------------------------------------------------------------------------
(* The steps.                                                              *)

\* ToSet and Contains are two ways to say that an entry is on a list.
LEMMA InToSet ==
  ASSUME NEW S, NEW s \in Seq(S)
  PROVE  \A x : x \in ToSet(s) <=> Contains(s, x)
<1>1. DOMAIN s = 1 .. Len(s)
  OBVIOUS
<1>2. QED
  BY <1>1 DEF ToSet, Contains

InCall == {"user", "start", "slept", "subscribed", "woken", "add", "poll"}

\* A task that executes in a call is the running one.
LEMMA AtRuns ==
  ASSUME SchedIInv, NEW t \in Tasks, NEW l \in InCall, At(t, l)
  PROVE  /\ running = t /\ state[t] = "RUNNING" /\ cpu = t /\ pc[t] = l
         /\ \A n \in Tasks \union {Idle} : tstack[n] # t
<1>1. Executing /\ Misplaced /\ OneStack /\ cpu = t /\ pc[t] = l
  BY DEF SchedIInv, Stacks, At
<1>2. running = t
  BY <1>1 DEF Executing, InCall
<1>3. state[t] = "RUNNING"
  BY <1>1, <1>2 DEF SchedIInv, Placed, InCall
<1>4. \A n \in Tasks \union {Idle} : tstack[n] # t
  BY <1>1 DEF OneStack, InCall
<1>5. QED
  BY <1>1, <1>2, <1>3, <1>4

\* What a task does in a call, short of sched_again, concerns no other stack.
LEMMA CallStacks ==
  ASSUME SchedIInv, NEW t \in Tasks, NEW l \in InCall, At(t, l),
         UNCHANGED <<cpu, tstack>>,
         \A u \in Tasks : u # t => pc'[u] = pc[u] /\ op'[u] = op[u],
         \/ running' = running /\ pc'[t] # "gone"
         \/ running' = Null /\ pc'[t] = "again" /\ op'[t] \in {"exit", "fail"}
  PROVE  Stacks'
<1>1. /\ running = t /\ cpu = t /\ pc[t] = l
      /\ \A n \in Tasks \union {Idle} : tstack[n] # t
  BY AtRuns
<1>2. Executing /\ Misplaced /\ OneStack
  BY DEF SchedIInv, Stacks, At
<1>3. t # Null /\ t # Idle /\ t # Boot
  BY SchedAssumption
<1>4. Executing'
  BY <1>1, <1>2, <1>3 DEF Executing
<1>5. Misplaced'
  BY <1>1, <1>2 DEF Misplaced
<1>6. OneStack'
  BY <1>1, <1>2 DEF OneStack
<1>7. QED
  BY <1>4, <1>5, <1>6 DEF Stacks

\* What a task does in a call without creating or ending one moves nobody.
LEMMA CallPlaced ==
  ASSUME SchedIInv, NEW t \in Tasks, NEW l \in InCall, At(t, l), l # "add", pc'[t] # "add",
         UNCHANGED <<active, cleanup, running, next_tid>>,
         \A u \in Tasks : u # t => state'[u] = state[u] /\ pc'[u] = pc[u] /\ arg'[u] = arg[u],
         state'[t] = "RUNNING" \/ (state'[t] \in {"READY", "WAITING"} /\ pc'[t] = "again")
  PROVE  Placed'
<1>1. running = t /\ state[t] = "RUNNING" /\ pc[t] = l /\ Placed
  BY AtRuns DEF SchedIInv
<1>2. /\ ~Contains(active, t) /\ ~Contains(cleanup, t)
      /\ \A p \in Tasks : pc[p] = "add" => arg[p] # t
  BY <1>1 DEF Placed
<1>3. ASSUME NEW u \in Tasks
      PROVE  /\ Contains(active', u) => state'[u] \in {"READY", "WAITING"} /\ running' # u
             /\ Contains(cleanup', u) <=> state'[u] = "ZOMBIE"
             /\ running' = u => \/ state'[u] = "RUNNING"
                                \/ pc'[u] = "again" /\ state'[u] \in {"READY", "WAITING"}
             /\ u >= next_tid' => state'[u] = "none"
  <2>1. CASE u = t
    <3>1. ~(t >= next_tid)
      BY <1>1 DEF Placed
    <3>2. QED
      BY <1>1, <1>2, <2>1, <3>1
  <2>2. CASE u # t
    BY <1>1, <2>2 DEF Placed
  <2>3. QED
    BY <2>1, <2>2
<1>4. ASSUME NEW u \in Tasks, pc'[u] = "add"
      PROVE  /\ arg'[u] \in Tasks /\ state'[arg'[u]] = "READY"
             /\ ~Contains(active', arg'[u]) /\ running' # arg'[u]
  BY <1>1, <1>2, <1>4 DEF Placed
<1>5. ASSUME NEW u \in Tasks, state'[u] \in {"READY", "RUNNING", "WAITING"}
      PROVE  \/ running' = u \/ Contains(active', u)
             \/ \E p \in Tasks : pc'[p] = "add" /\ arg'[p] = u
  BY <1>1, <1>5 DEF Placed
<1>6. \A p, q \in Tasks : pc'[p] = "add" /\ pc'[q] = "add" /\ arg'[p] = arg'[q] => p = q
  BY <1>1 DEF Placed
<1>7. IsInjective(active') /\ IsInjective(cleanup')
  BY <1>1 DEF Placed
<1>8. QED
  BY <1>3, <1>4, <1>5, <1>6, <1>7 DEF Placed

\* A step that leaves the lists, the states and the tasks being added alone.
LEMMA SamePlaced ==
  ASSUME Placed, UNCHANGED <<active, cleanup, running, next_tid, state, arg>>,
         \A p \in Tasks : pc'[p] = "add" <=> pc[p] = "add",
         \A p \in Tasks : running = p => pc'[p] = pc[p] \/ state[p] = "RUNNING"
  PROVE  Placed'
<1>1. ASSUME NEW u \in Tasks
      PROVE  /\ Contains(active', u) => state'[u] \in {"READY", "WAITING"} /\ running' # u
             /\ Contains(cleanup', u) <=> state'[u] = "ZOMBIE"
             /\ running' = u => \/ state'[u] = "RUNNING"
                                \/ pc'[u] = "again" /\ state'[u] \in {"READY", "WAITING"}
             /\ u >= next_tid' => state'[u] = "none"
  BY DEF Placed
<1>2. ASSUME NEW u \in Tasks, pc'[u] = "add"
      PROVE  /\ arg'[u] \in Tasks /\ state'[arg'[u]] = "READY"
             /\ ~Contains(active', arg'[u]) /\ running' # arg'[u]
  BY <1>2 DEF Placed
<1>3. ASSUME NEW u \in Tasks, state'[u] \in {"READY", "RUNNING", "WAITING"}
      PROVE  \/ running' = u \/ Contains(active', u)
             \/ \E p \in Tasks : pc'[p] = "add" /\ arg'[p] = u
  BY <1>3 DEF Placed
<1>4. \A p, q \in Tasks : pc'[p] = "add" /\ pc'[q] = "add" /\ arg'[p] = arg'[q] => p = q
  BY DEF Placed
<1>5. IsInjective(active') /\ IsInjective(cleanup')
  BY DEF Placed
<1>6. QED
  BY <1>1, <1>2, <1>3, <1>4, <1>5 DEF Placed

\* A step that stops the kernel changes nothing else.
LEMMA HaltStep ==
  ASSUME SchedIInv, halted' \in {"stack", "null event", "null task", "null area", "freed event", "panic"},
         UNCHANGED <<state, active, cleanup, running, cpu, tstack, torn, wakeup, due, sub_list, tgid,
                     is_fork, next_tid, pc, op, arg>>
  PROVE  SchedIInv'
<1>1. TypeOK'
  BY DEF SchedIInv, TypeOK
<1>2. Calling'
  BY DEF SchedIInv, Calling
<1>2a. Placed'
  BY SamePlaced DEF SchedIInv
<1>3. Stacks'
  BY DEF Stacks, Live
<1>4. QED
  BY <1>1, <1>2, <1>2a, <1>3 DEF SchedIInv

\* sched_wait_event.
LEMMA Step_sched_wait_event ==
  ASSUME SchedIInv, NEW t \in Tasks, sched_wait_event(t)
  PROVE  SchedIInv'
<1>1. /\ running = t /\ state[t] = "RUNNING" /\ cpu = t /\ pc[t] = "subscribed"
      /\ "subscribed" \in InCall /\ At(t, "subscribed")
  BY AtRuns DEF sched_wait_event, At, InCall
<1>2. TypeOK'
  BY <1>1 DEF SchedIInv, TypeOK, sched_wait_event, queues, context, event, identity
<1>3. Calling'
  BY <1>1 DEF SchedIInv, TypeOK, Calling, sched_wait_event, queues, context, event, identity
<1>4. Placed'
  BY <1>1, CallPlaced DEF SchedIInv, TypeOK, sched_wait_event, queues, context, event, identity
<1>5. Stacks'
  BY <1>1, CallStacks DEF SchedIInv, TypeOK, sched_wait_event, queues, context, event, identity
<1>6. QED
  BY <1>2, <1>3, <1>4, <1>5 DEF SchedIInv

\* The end of sched_sleep.
LEMMA Step_sleep_return ==
  ASSUME SchedIInv, NEW t \in Tasks, sleep_return(t)
  PROVE  SchedIInv'
<1>1. /\ running = t /\ state[t] = "RUNNING" /\ cpu = t /\ pc[t] = "slept"
      /\ "slept" \in InCall /\ At(t, "slept")
  BY AtRuns DEF sleep_return, At, InCall
<1>2. TypeOK'
  BY <1>1 DEF SchedIInv, TypeOK, sleep_return, queues, context, event, identity
<1>3. Calling'
  BY <1>1 DEF SchedIInv, TypeOK, Calling, sleep_return, queues, context, event, identity
<1>4. Placed'
  BY <1>1, CallPlaced DEF SchedIInv, TypeOK, sleep_return, queues, context, event, identity
<1>5. Stacks'
  BY <1>1, CallStacks DEF SchedIInv, TypeOK, sleep_return, queues, context, event, identity
<1>6. QED
  BY <1>2, <1>3, <1>4, <1>5 DEF SchedIInv

\* A freed event keeps its place on sub_list.
LEMMA FreedEvents ==
  ASSUME TypeOK, NEW t \in Tasks
  PROVE  FreeEvent(t) \in Seq(Tasks \union {Stale}) /\ Len(FreeEvent(t)) = Len(sub_list)
<1>1. sub_list \in Seq(Tasks \union {Stale})
  BY DEF TypeOK
<1>2. /\ Len(sub_list) \in Nat /\ DOMAIN sub_list = 1 .. Len(sub_list)
      /\ \A i \in 1 .. Len(sub_list) : sub_list[i] \in Tasks \union {Stale}
  BY <1>1
<1>3. FreeEvent(t) = [i \in 1 .. Len(sub_list) |-> IF sub_list[i] = t THEN Stale ELSE sub_list[i]]
  BY <1>2 DEF FreeEvent
<1>4. FreeEvent(t) \in [1 .. Len(sub_list) -> Tasks \union {Stale}]
  BY <1>2, <1>3
<1>5. QED
  BY <1>2, <1>4, LenProperties, SeqDef

\* The end of kevent_subscribe.
LEMMA Step_event_return ==
  ASSUME SchedIInv, NEW t \in Tasks, event_return(t)
  PROVE  SchedIInv'
<1>1. /\ running = t /\ state[t] = "RUNNING" /\ cpu = t /\ pc[t] = "woken"
      /\ "woken" \in InCall /\ At(t, "woken")
  BY AtRuns DEF event_return, At, InCall
<1>2. TypeOK'
  <2>1. sub_list' \in Seq(Tasks \union {Stale})
    BY FreedEvents DEF SchedIInv, event_return
  <2>2. QED
    BY <1>1, <2>1 DEF SchedIInv, TypeOK, event_return, queues, context, event, identity
<1>3. Calling'
  BY <1>1 DEF SchedIInv, TypeOK, Calling, event_return, queues, context, event, identity
<1>4. Placed'
  BY <1>1, CallPlaced DEF SchedIInv, TypeOK, event_return, queues, context, event, identity
<1>5. Stacks'
  BY <1>1, CallStacks DEF SchedIInv, TypeOK, event_return, queues, context, event, identity
<1>6. QED
  BY <1>2, <1>3, <1>4, <1>5 DEF SchedIInv

\* kevent_subscribe.
LEMMA Step_kevent_subscribe ==
  ASSUME SchedIInv, NEW t \in Tasks, kevent_subscribe(t)
  PROVE  SchedIInv'
<1>1. /\ running = t /\ state[t] = "RUNNING" /\ cpu = t /\ pc[t] = "user"
      /\ "user" \in InCall /\ At(t, "user")
  BY AtRuns DEF kevent_subscribe, Calls, At, InCall
<1>2. TypeOK'
  <2>1. sub_list' \in Seq(Tasks \union {Stale})
    BY PushEntry DEF SchedIInv, TypeOK, kevent_subscribe
  <2>2. QED
    BY <1>1, <2>1 DEF SchedIInv, TypeOK, kevent_subscribe, Touches, queues, context, event, identity
<1>3. Calling'
  BY <1>1 DEF SchedIInv, TypeOK, Calling, kevent_subscribe, queues, context, event, identity
<1>4. Placed'
  BY <1>1, CallPlaced DEF SchedIInv, TypeOK, kevent_subscribe, queues, context, event, identity
<1>5. Stacks'
  BY <1>1, CallStacks DEF SchedIInv, TypeOK, kevent_subscribe, queues, context, event, identity
<1>6. QED
  BY <1>2, <1>3, <1>4, <1>5 DEF SchedIInv

\* sched_wait.
LEMMA Step_sched_wait ==
  ASSUME SchedIInv, NEW t \in Tasks, sched_wait(t)
  PROVE  SchedIInv'
<1>1. /\ running = t /\ state[t] = "RUNNING" /\ cpu = t /\ pc[t] = "user"
      /\ "user" \in InCall /\ At(t, "user")
  BY AtRuns DEF sched_wait, Calls, At, InCall
<1>2. TypeOK'
  BY <1>1 DEF SchedIInv, TypeOK, sched_wait, queues, context, event, identity
<1>3. Calling'
  BY <1>1 DEF SchedIInv, TypeOK, Calling, sched_wait, queues, context, event, identity
<1>4. Placed'
  BY <1>1, CallPlaced DEF SchedIInv, TypeOK, sched_wait, queues, context, event, identity
<1>5. Stacks'
  BY <1>1, CallStacks DEF SchedIInv, TypeOK, sched_wait, queues, context, event, identity
<1>6. QED
  BY <1>2, <1>3, <1>4, <1>5 DEF SchedIInv

\* sched_sleep, and the null pointer it may meet.
LEMMA Step_sched_sleep ==
  ASSUME SchedIInv, NEW t \in Tasks, sched_sleep(t)
  PROVE  SchedIInv'
<1>1. /\ running = t /\ state[t] = "RUNNING" /\ cpu = t /\ pc[t] = "user"
      /\ "user" \in InCall /\ At(t, "user")
  BY AtRuns DEF sched_sleep, Calls, At, InCall
<1>2. CASE wakeup[t] = "null"
  <2>1. halted' = "null event" /\ UNCHANGED <<state, wakeup, due, pc, op, queues, context, sub_list, identity, arg>>
    BY <1>2 DEF sched_sleep
  <2>2. QED
    BY <2>1, HaltStep DEF queues, context, identity
<1>3. CASE wakeup[t] # "null"
  <2>1. /\ wakeup' = [wakeup EXCEPT ![t] = "sleep"]
        /\ due' = [due EXCEPT ![t] = FALSE]
        /\ state' = [state EXCEPT ![t] = "WAITING"]
        /\ pc' = [pc EXCEPT ![t] = "again"]
        /\ op' = [op EXCEPT ![t] = "sleep"]
        /\ UNCHANGED <<halted, queues, context, sub_list, identity, arg>>
    BY <1>3 DEF sched_sleep
  <2>2. TypeOK'
    BY <2>1 DEF SchedIInv, TypeOK, queues, context, identity
  <2>3. Calling'
    BY <1>1, <2>1 DEF SchedIInv, TypeOK, Calling
  <2>4. Placed'
    BY <1>1, <2>1, CallPlaced DEF SchedIInv, TypeOK, queues, identity
  <2>5. Stacks'
    BY <1>1, <2>1, CallStacks DEF SchedIInv, TypeOK, queues, context
  <2>6. QED
    BY <2>2, <2>3, <2>4, <2>5 DEF SchedIInv
<1>4. QED
  BY <1>2, <1>3

\* Time goes on.
LEMMA Step_TimePasses ==
  ASSUME SchedIInv, NEW t \in Tasks, TimePasses(t)
  PROVE  SchedIInv'
<1>1. /\ due' \in [Tasks -> BOOLEAN]
      /\ UNCHANGED <<state, active, cleanup, running, cpu, tstack, torn, wakeup, sub_list, tgid,
                     is_fork, next_tid, pc, op, arg, halted>>
  BY DEF SchedIInv, TypeOK, TimePasses, queues, context, identity
<1>2. TypeOK'
  BY <1>1 DEF SchedIInv, TypeOK
<1>3. Calling'
  BY <1>1 DEF SchedIInv, Calling
<1>4. Placed'
  BY <1>1, SamePlaced DEF SchedIInv
<1>5. Stacks'
  BY <1>1 DEF SchedIInv, Stacks, Live, Executing, Misplaced, OneStack
<1>6. QED
  BY <1>2, <1>3, <1>4, <1>5 DEF SchedIInv

\* A key: waiting tasks on active_tasks become ready.
LEMMA Step_keyboard_irq ==
  ASSUME SchedIInv, keyboard_irq
  PROVE  SchedIInv'
<1>1. UNCHANGED <<active, cleanup, running, cpu, tstack, torn, wakeup, due, tgid, is_fork, next_tid, pc, op, arg>>
  BY DEF keyboard_irq, queues, context, identity
<1>2. CASE running = Null /\ halted' = "null task" /\ UNCHANGED <<state, sub_list>>
  BY <1>1, <1>2, HaltStep
<1>3. CASE /\ sub_list # <<>> /\ sub_list' = Subscribed
           /\ state' = [t \in Tasks |-> IF t \in Resumed THEN "READY" ELSE state[t]]
           /\ halted' \in {"no", "freed event"}
  <2>1. \A t \in Tasks : \/ state'[t] = state[t]
                         \/ Contains(active, t) /\ state[t] = "WAITING" /\ state'[t] = "READY"
    <3>1. active \in Seq(Tasks)
      BY DEF SchedIInv, TypeOK
    <3>2. \A t \in Resumed : Contains(active, t) /\ state[t] = "WAITING"
      BY <3>1, InToSet DEF Resumed
    <3>3. QED
      BY <1>3, <3>2
  <2>2. sub_list' \in Seq(Tasks \union {Stale})
    <3>1. sub_list \in Seq(Tasks \union {Stale})
      BY DEF SchedIInv, TypeOK
    <3>2. Tail(sub_list) \in Seq(Tasks \union {Stale})
      BY <1>3, <3>1, HeadTailProperties
    <3>3. QED
      BY <1>3, <3>1, <3>2 DEF Subscribed
  <2>3. TypeOK'
    BY <1>1, <1>3, <2>2 DEF SchedIInv, TypeOK
  <2>4. Calling'
    BY <1>1, <2>1 DEF SchedIInv, Calling
  <2>5. Placed'
    <3>0. Placed
      BY DEF SchedIInv
    <3>1. ASSUME NEW u \in Tasks
          PROVE  /\ Contains(active', u) => state'[u] \in {"READY", "WAITING"} /\ running' # u
                 /\ Contains(cleanup', u) <=> state'[u] = "ZOMBIE"
                 /\ running' = u => \/ state'[u] = "RUNNING"
                                    \/ pc'[u] = "again" /\ state'[u] \in {"READY", "WAITING"}
                 /\ u >= next_tid' => state'[u] = "none"
      BY <1>1, <2>1, <3>0 DEF Placed
    <3>2. ASSUME NEW u \in Tasks, pc'[u] = "add"
          PROVE  /\ arg'[u] \in Tasks /\ state'[arg'[u]] = "READY"
                 /\ ~Contains(active', arg'[u]) /\ running' # arg'[u]
      BY <1>1, <2>1, <3>0, <3>2 DEF Placed
    <3>3. ASSUME NEW u \in Tasks, state'[u] \in {"READY", "RUNNING", "WAITING"}
          PROVE  \/ running' = u \/ Contains(active', u)
                 \/ \E p \in Tasks : pc'[p] = "add" /\ arg'[p] = u
      BY <1>1, <2>1, <3>0, <3>3 DEF Placed
    <3>4. \A p, q \in Tasks : pc'[p] = "add" /\ pc'[q] = "add" /\ arg'[p] = arg'[q] => p = q
      BY <1>1, <3>0 DEF Placed
    <3>5. IsInjective(active') /\ IsInjective(cleanup')
      BY <1>1, <3>0 DEF Placed
    <3>6. QED
      BY <3>1, <3>2, <3>3, <3>4, <3>5 DEF Placed
  <2>6. Stacks'
    BY <1>1, <1>3 DEF SchedIInv, Stacks, Live, Executing, Misplaced, OneStack, keyboard_irq, InterruptsOn
  <2>7. QED
    BY <2>3, <2>4, <2>5, <2>6 DEF SchedIInv
<1>4. QED
  BY <1>2, <1>3 DEF keyboard_irq, Touches

\* sched_add: the child moves from its creator's hands to active_tasks.
LEMMA Step_sched_add ==
  ASSUME SchedIInv, NEW t \in Tasks, sched_add(t)
  PROVE  SchedIInv'
<1>1. /\ running = t /\ state[t] = "RUNNING" /\ cpu = t /\ pc[t] = "add"
      /\ "add" \in InCall /\ At(t, "add")
  BY AtRuns DEF sched_add, At, InCall
<1>2. /\ arg' = [arg EXCEPT ![t] = Null] /\ pc' = [pc EXCEPT ![t] = "user"]
      /\ UNCHANGED <<state, cleanup, running, cpu, tstack, torn, wakeup, due, sub_list, tgid, is_fork,
                     next_tid, op, halted>>
  BY DEF sched_add, context, event, identity
<1>3. /\ arg[t] \in Tasks /\ arg[t] # t /\ state[arg[t]] = "READY"
      /\ ~Contains(active, arg[t]) /\ running # arg[t]
  BY <1>1 DEF SchedIInv, Placed
<1>4. /\ active' \in Seq(Tasks) /\ IsInjective(active')
      /\ \A x : Contains(active', x) <=> Contains(active, x) \/ x = arg[t]
  <2>1. active' = Append(active, arg[t]) /\ active \in Seq(Tasks) /\ IsInjective(active)
    BY DEF SchedIInv, TypeOK, Placed, sched_add, fifo_push
  <2>2. QED
    BY <1>3, <2>1, PushEntry
<1>5. TypeOK'
  BY <1>2, <1>4 DEF SchedIInv, TypeOK
<1>6. Calling'
  BY <1>1, <1>2 DEF SchedIInv, TypeOK, Calling
<1>7. Placed'
  <2>0. Placed /\ (\A u \in Tasks : pc'[u] = "add" <=> pc[u] = "add" /\ u # t)
    BY <1>1, <1>2 DEF SchedIInv, TypeOK
  <2>0a. /\ \A p, q \in Tasks : pc[p] = "add" /\ pc[q] = "add" /\ arg[p] = arg[q] => p = q
         /\ \A p \in Tasks : p # t => arg'[p] = arg[p]
    <3>1. \A p, q \in Tasks : pc[p] = "add" /\ pc[q] = "add" /\ arg[p] = arg[q] => p = q
      BY DEF SchedIInv, Placed
    <3>2. \A p \in Tasks : p # t => arg'[p] = arg[p]
      BY <1>2 DEF SchedIInv, TypeOK
    <3>3. QED
      BY <3>1, <3>2
  <2>1. ASSUME NEW u \in Tasks
        PROVE  /\ Contains(active', u) => state'[u] \in {"READY", "WAITING"} /\ running' # u
               /\ Contains(cleanup', u) <=> state'[u] = "ZOMBIE"
               /\ running' = u => \/ state'[u] = "RUNNING"
                                  \/ pc'[u] = "again" /\ state'[u] \in {"READY", "WAITING"}
               /\ u >= next_tid' => state'[u] = "none"
    BY <1>1, <1>2, <1>3, <1>4, <2>0 DEF Placed
  <2>2. ASSUME NEW u \in Tasks, pc'[u] = "add"
        PROVE  /\ arg'[u] \in Tasks /\ state'[arg'[u]] = "READY"
               /\ ~Contains(active', arg'[u]) /\ running' # arg'[u]
    <3>1. u # t /\ pc[u] = "add" /\ arg'[u] = arg[u] /\ arg[u] # arg[t]
      BY <1>1, <2>0, <2>0a, <2>2
    <3>2. QED
      BY <1>2, <1>4, <2>0, <3>1 DEF Placed
  <2>3. ASSUME NEW u \in Tasks, state'[u] \in {"READY", "RUNNING", "WAITING"}
        PROVE  \/ running' = u \/ Contains(active', u)
               \/ \E p \in Tasks : pc'[p] = "add" /\ arg'[p] = u
    <3>1. CASE u = arg[t]
      BY <1>4, <3>1
    <3>2. CASE u # arg[t]
      <4>1. \A p \in Tasks : pc[p] = "add" /\ arg[p] = u => pc'[p] = "add" /\ arg'[p] = u
        BY <1>2, <2>0, <3>2 DEF SchedIInv, TypeOK
      <4>2. QED
        BY <1>2, <1>4, <2>0, <2>3, <4>1 DEF Placed
    <3>3. QED
      BY <3>1, <3>2
  <2>4. \A p, q \in Tasks : pc'[p] = "add" /\ pc'[q] = "add" /\ arg'[p] = arg'[q] => p = q
    BY <2>0, <2>0a
  <2>5. IsInjective(cleanup')
    BY <1>2, <2>0 DEF Placed
  <2>6. QED
    BY <1>4, <2>1, <2>2, <2>3, <2>4, <2>5 DEF Placed
<1>8. Stacks'
  BY <1>1, <1>2, CallStacks DEF SchedIInv, TypeOK
<1>9. QED
  BY <1>5, <1>6, <1>7, <1>8 DEF SchedIInv

\* Tids are numbers.
LEMMA TidTypes ==
  ASSUME SchedIInv
  PROVE  next_tid \in Nat /\ next_tid + 1 \in Nat /\ \A u \in Tasks : u \in Int
<1>1. next_tid \in Nat
  BY DEF SchedIInv, TypeOK
<1>2. \A u \in Tasks : u \in Int
  BY SchedAssumption DEF Tasks
<1>3. QED
  BY <1>1, <1>2

\* task_create and task_fork: the next tid belongs to no task yet.
LEMMA Step_Create ==
  ASSUME SchedIInv, NEW t \in Tasks, Calls(t), NEW group \in Tasks, NEW forked \in BOOLEAN,
         Create(t, group, forked)
  PROVE  SchedIInv'
<1>1. /\ running = t /\ state[t] = "RUNNING" /\ cpu = t /\ pc[t] = "user"
      /\ "user" \in InCall /\ At(t, "user")
  BY AtRuns DEF Calls, At, InCall
<1>2. /\ state' = [state EXCEPT ![next_tid] = "READY"]
      /\ arg' = [arg EXCEPT ![t] = next_tid] /\ pc' = [pc EXCEPT ![t] = "add"]
      /\ next_tid' = next_tid + 1
      /\ UNCHANGED <<active, cleanup, running, cpu, tstack, torn, wakeup, due, sub_list, op, halted>>
  BY DEF Create, alloc_tid, queues, context, event
<1>3. /\ next_tid \in Tasks /\ state[next_tid] = "none" /\ next_tid # t
      /\ ~Contains(active, next_tid) /\ ~Contains(cleanup, next_tid) /\ running # next_tid
      /\ \A p \in Tasks : pc[p] = "add" => arg[p] # next_tid
  <2>1. next_tid \in Tasks /\ next_tid >= next_tid
    BY SchedAssumption DEF Create, Tasks
  <2>2. state[next_tid] = "none"
    BY <2>1 DEF SchedIInv, Placed
  <2>3. QED
    BY <1>1, <2>1, <2>2 DEF SchedIInv, Placed
<1>4. TypeOK'
  <2>1. tgid' \in [Tasks -> Tasks] /\ is_fork' \in [Tasks -> BOOLEAN]
    BY DEF SchedIInv, TypeOK, Create
  <2>2. next_tid' \in Nat
    BY <1>2, TidTypes
  <2>3. /\ state' \in [Tasks -> {"none", "READY", "RUNNING", "WAITING", "ZOMBIE", "freed"}]
        /\ arg' \in [Tasks -> Tasks \union {Null}]
        /\ pc' \in [Tasks -> {"start", "user", "again", "switch", "slept", "subscribed", "woken",
                               "add", "poll", "gone"}]
    BY <1>2, <1>3 DEF SchedIInv, TypeOK
  <2>4. QED
    BY <1>2, <2>1, <2>2, <2>3 DEF SchedIInv, TypeOK
<1>5. Calling'
  BY <1>1, <1>2, <1>3 DEF SchedIInv, TypeOK, Calling
<1>6. Placed'
  <2>0. /\ Placed
        /\ \A u \in Tasks : pc'[u] = "add" <=> pc[u] = "add" \/ u = t
        /\ \A u \in Tasks : arg'[u] = IF u = t THEN next_tid ELSE arg[u]
        /\ \A u \in Tasks : state'[u] = IF u = next_tid THEN "READY" ELSE state[u]
    BY <1>1, <1>2 DEF SchedIInv, TypeOK
  <2>0a. \A p, q \in Tasks : pc[p] = "add" /\ pc[q] = "add" /\ arg[p] = arg[q] => p = q
    BY <2>0 DEF Placed
  <2>1. ASSUME NEW u \in Tasks
        PROVE  /\ Contains(active', u) => state'[u] \in {"READY", "WAITING"} /\ running' # u
               /\ Contains(cleanup', u) <=> state'[u] = "ZOMBIE"
               /\ running' = u => \/ state'[u] = "RUNNING"
                                  \/ pc'[u] = "again" /\ state'[u] \in {"READY", "WAITING"}
               /\ u >= next_tid' => state'[u] = "none"
    <3>1. u >= next_tid + 1 => u # next_tid /\ u >= next_tid
      <4>1. u \in Int /\ next_tid \in Nat
        BY TidTypes
      <4>2. QED
        BY <4>1
    <3>2. u >= next_tid + 1 => state'[u] = "none"
      BY <2>0, <3>1 DEF Placed
    <3>3. QED
      BY <1>1, <1>2, <1>3, <2>0, <3>2 DEF Placed
  <2>2. ASSUME NEW u \in Tasks, pc'[u] = "add"
        PROVE  /\ arg'[u] \in Tasks /\ state'[arg'[u]] = "READY"
               /\ ~Contains(active', arg'[u]) /\ running' # arg'[u]
    <3>1. CASE u = t
      BY <1>2, <1>3, <2>0, <3>1
    <3>2. CASE u # t
      BY <1>2, <1>3, <2>0, <2>2, <3>2 DEF Placed
    <3>3. QED
      BY <3>1, <3>2
  <2>3. ASSUME NEW u \in Tasks, state'[u] \in {"READY", "RUNNING", "WAITING"}
        PROVE  \/ running' = u \/ Contains(active', u)
               \/ \E p \in Tasks : pc'[p] = "add" /\ arg'[p] = u
    <3>1. CASE u = next_tid
      BY <2>0, <3>1
    <3>2. CASE u # next_tid
      <4>1. \A p \in Tasks : pc[p] = "add" /\ arg[p] = u => pc'[p] = "add" /\ arg'[p] = u
        BY <1>1, <2>0
      <4>2. QED
        BY <1>2, <2>0, <2>3, <3>2, <4>1 DEF Placed
    <3>3. QED
      BY <3>1, <3>2
  <2>4. \A p, q \in Tasks : pc'[p] = "add" /\ pc'[q] = "add" /\ arg'[p] = arg'[q] => p = q
    BY <1>3, <2>0, <2>0a
  <2>5. IsInjective(active') /\ IsInjective(cleanup')
    BY <1>2, <2>0 DEF Placed
  <2>6. QED
    BY <2>1, <2>2, <2>3, <2>4, <2>5 DEF Placed
<1>7. Stacks'
  BY <1>1, <1>2, CallStacks DEF SchedIInv, TypeOK
<1>8. QED
  BY <1>4, <1>5, <1>6, <1>7 DEF SchedIInv

\* sched_fork in a task that was forked, and mm_copy's failure: no task appears.
LEMMA Step_fork_none ==
  ASSUME SchedIInv, NEW t \in Tasks, Calls(t),
         \/ /\ is_fork' = [is_fork EXCEPT ![t] = FALSE]
            /\ next_tid' = next_tid
         \/ /\ next_tid \in Tasks /\ next_tid' = alloc_tid
            /\ is_fork' = is_fork,
         UNCHANGED <<state, queues, context, event, tgid, pc, op, arg, halted>>
  PROVE  SchedIInv'
<1>1. /\ "user" \in InCall /\ At(t, "user")
      /\ UNCHANGED <<state, active, cleanup, running, cpu, tstack, torn, wakeup, due, sub_list, tgid, pc,
                     op, arg, halted>>
  BY DEF Calls, InCall, queues, context, event
<1>2. /\ is_fork' \in [Tasks -> BOOLEAN] /\ next_tid' \in Nat
      /\ \A u \in Tasks : u >= next_tid' => u >= next_tid
  <2>1. next_tid \in Nat /\ next_tid + 1 \in Nat /\ \A u \in Tasks : u \in Int
    BY TidTypes
  <2>2. is_fork' \in [Tasks -> BOOLEAN] /\ (next_tid' = next_tid \/ next_tid' = next_tid + 1)
    BY DEF SchedIInv, TypeOK, alloc_tid
  <2>3. QED
    BY <2>1, <2>2
<1>3. TypeOK'
  BY <1>1, <1>2 DEF SchedIInv, TypeOK
<1>4. Calling'
  BY <1>1 DEF SchedIInv, Calling
<1>5. Placed'
  <2>1. \A u \in Tasks : u >= next_tid' => state'[u] = "none"
    BY <1>1, <1>2 DEF SchedIInv, Placed
  <2>2. QED
    BY <1>1, <2>1 DEF SchedIInv, Placed
<1>6. Stacks'
  BY <1>1 DEF SchedIInv, Stacks, Live, Executing, Misplaced, OneStack
<1>7. QED
  BY <1>3, <1>4, <1>5, <1>6 DEF SchedIInv

\* sched_fork and sched_spawn.
LEMMA Step_fork_spawn ==
  ASSUME SchedIInv, NEW t \in Tasks, sched_fork(t) \/ sched_spawn(t)
  PROVE  SchedIInv'
<1>1. Calls(t) /\ tgid[t] \in Tasks /\ TRUE \in BOOLEAN /\ FALSE \in BOOLEAN
  BY DEF sched_fork, sched_spawn, SchedIInv, TypeOK
<1>2. CASE Create(t, tgid[t], TRUE) \/ Create(t, t, FALSE)
  BY <1>1, <1>2, Step_Create
<1>3. CASE ~(Create(t, tgid[t], TRUE) \/ Create(t, t, FALSE))
  BY <1>1, <1>3, Step_fork_none DEF sched_fork, sched_spawn
<1>4. QED
  BY <1>2, <1>3

\* sched_execve: the task gets a new stack while it still runs on the old one.
LEMMA Step_sched_execve ==
  ASSUME SchedIInv, NEW t \in Tasks, sched_execve(t)
  PROVE  SchedIInv'
<1>1. /\ running = t /\ state[t] = "RUNNING" /\ cpu = t /\ pc[t] = "user"
      /\ "user" \in InCall /\ At(t, "user")
      /\ \A n \in Tasks \union {Idle} : tstack[n] # t
  BY AtRuns DEF sched_execve, Calls, At, InCall
<1>2. /\ state' = [state EXCEPT ![t] = "READY"]
      /\ tstack' = [tstack EXCEPT ![t] = t]
      /\ pc' = [pc EXCEPT ![t] = "again"]
      /\ op' = [op EXCEPT ![t] = "execve"]
      /\ UNCHANGED <<active, cleanup, running, cpu, torn, due, sub_list, tgid, next_tid, arg, halted>>
  BY DEF sched_execve, queues
<1>3. TypeOK'
  <2>1. wakeup' \in [Tasks -> {"unknown", "sleep", "key", "null"}] /\ is_fork' \in [Tasks -> BOOLEAN]
    BY DEF sched_execve, SchedIInv, TypeOK
  <2>2. QED
    BY <1>2, <2>1 DEF SchedIInv, TypeOK
<1>4. Calling'
  BY <1>1, <1>2 DEF SchedIInv, TypeOK, Calling
<1>5. Placed'
  BY <1>1, <1>2, CallPlaced DEF SchedIInv, TypeOK
<1>6. Stacks'
  <2>1. Executing /\ Misplaced /\ OneStack
    BY <1>1 DEF SchedIInv, Stacks, At
  <2>2. \A n \in Tasks \union {Idle} : tstack'[n] = IF n = t THEN t ELSE tstack[n]
    BY <1>2 DEF SchedIInv, TypeOK
  <2>3. \A u \in Tasks : u # t => pc'[u] = pc[u] /\ op'[u] = op[u]
    BY <1>2 DEF SchedIInv, TypeOK
  <2>4. op'[t] = "execve" /\ pc'[t] = "again" /\ t # Idle /\ t # Boot /\ t # Null
    BY <1>2, SchedAssumption DEF SchedIInv, TypeOK
  <2>5. Executing'
    BY <1>1, <1>2, <2>1, <2>3, <2>4 DEF Executing
  <2>6. Misplaced'
    BY <1>1, <1>2, <2>1, <2>2, <2>3, <2>4 DEF Misplaced
  <2>7. OneStack'
    BY <1>1, <1>2, <2>1, <2>2, <2>3, <2>4 DEF OneStack
  <2>8. QED
    BY <2>5, <2>6, <2>7 DEF Stacks
<1>7. QED
  BY <1>3, <1>4, <1>5, <1>6 DEF SchedIInv

\* __sched_kernel_end, in sched_exit and in an execve that fails.
LEMMA Step_kernel_end ==
  ASSUME SchedIInv, NEW t \in Tasks, NEW l \in InCall, At(t, l), l \in {"user", "start"},
         NEW call \in {"exit", "fail"}, kernel_end(t, call)
  PROVE  SchedIInv'
<1>1. running = t /\ state[t] = "RUNNING" /\ cpu = t /\ pc[t] = l
  BY AtRuns
<1>2. /\ state' = [state EXCEPT ![t] = "ZOMBIE"]
      /\ running' = Null
      /\ pc' = [pc EXCEPT ![t] = "again"] /\ op' = [op EXCEPT ![t] = call]
      /\ UNCHANGED <<active, cpu, tstack, torn, due, sub_list, tgid, is_fork, next_tid, arg, halted>>
  BY DEF kernel_end, RunningAfterEnd, context, identity
<1>3. /\ Placed /\ t # Null
      /\ ~Contains(active, t) /\ ~Contains(cleanup, t)
      /\ \A p \in Tasks : pc[p] = "add" => arg[p] # t
  BY <1>1, SchedAssumption DEF SchedIInv, Placed
<1>4. /\ cleanup' \in Seq(Tasks) /\ IsInjective(cleanup')
      /\ \A x : Contains(cleanup', x) <=> Contains(cleanup, x) \/ x = t
  <2>1. cleanup' = Append(cleanup, t) /\ cleanup \in Seq(Tasks) /\ IsInjective(cleanup)
    BY DEF kernel_end, SchedIInv, TypeOK, Placed
  <2>2. QED
    BY <1>3, <2>1, PushEntry
<1>5. TypeOK'
  <2>1. wakeup' \in [Tasks -> {"unknown", "sleep", "key", "null"}]
    BY DEF kernel_end, SchedIInv, TypeOK
  <2>2. QED
    BY <1>2, <1>4, <2>1 DEF SchedIInv, TypeOK
<1>6. Calling'
  BY <1>1, <1>2 DEF SchedIInv, TypeOK, Calling
<1>7. Placed'
  <2>0. /\ \A u \in Tasks : pc'[u] = "add" <=> pc[u] = "add"
        /\ \A u \in Tasks : state'[u] = IF u = t THEN "ZOMBIE" ELSE state[u]
    BY <1>1, <1>2 DEF SchedIInv, TypeOK
  <2>1. ASSUME NEW u \in Tasks
        PROVE  /\ Contains(active', u) => state'[u] \in {"READY", "WAITING"} /\ running' # u
               /\ Contains(cleanup', u) <=> state'[u] = "ZOMBIE"
               /\ running' = u => \/ state'[u] = "RUNNING"
                                  \/ pc'[u] = "again" /\ state'[u] \in {"READY", "WAITING"}
               /\ u >= next_tid' => state'[u] = "none"
    <3>1. u # Null /\ ~(t >= next_tid)
      BY <1>1, <1>3, SchedAssumption DEF Placed
    <3>2. QED
      BY <1>2, <1>3, <1>4, <2>0, <3>1 DEF Placed
  <2>2. ASSUME NEW u \in Tasks, pc'[u] = "add"
        PROVE  /\ arg'[u] \in Tasks /\ state'[arg'[u]] = "READY"
               /\ ~Contains(active', arg'[u]) /\ running' # arg'[u]
    <3>1. \A n \in Tasks : n # Null
      BY SchedAssumption
    <3>2. QED
      BY <1>2, <1>3, <2>0, <2>2, <3>1 DEF Placed
  <2>3. ASSUME NEW u \in Tasks, state'[u] \in {"READY", "RUNNING", "WAITING"}
        PROVE  \/ running' = u \/ Contains(active', u)
               \/ \E p \in Tasks : pc'[p] = "add" /\ arg'[p] = u
    BY <1>1, <1>2, <1>3, <2>0, <2>3 DEF Placed
  <2>4. \A p, q \in Tasks : pc'[p] = "add" /\ pc'[q] = "add" /\ arg'[p] = arg'[q] => p = q
    BY <1>2, <1>3, <2>0 DEF Placed
  <2>5. IsInjective(active')
    BY <1>2, <1>3 DEF Placed
  <2>6. QED
    BY <1>4, <2>1, <2>2, <2>3, <2>4, <2>5 DEF Placed
<1>8. Stacks'
  BY <1>1, <1>2, CallStacks DEF SchedIInv, TypeOK
<1>9. QED
  BY <1>5, <1>6, <1>7, <1>8 DEF SchedIInv

\* sched_exit.
LEMMA Step_sched_exit ==
  ASSUME SchedIInv, NEW t \in Tasks, sched_exit(t)
  PROVE  SchedIInv'
BY Step_kernel_end DEF sched_exit, Calls, InCall

\* __sched_task_start_user: to user mode, or a failing execve.
LEMMA Step_sched_do_execve ==
  ASSUME SchedIInv, NEW t \in Tasks, sched_do_execve(t)
  PROVE  SchedIInv'
<1>1. /\ running = t /\ state[t] = "RUNNING" /\ cpu = t /\ pc[t] = "start"
      /\ "start" \in InCall /\ At(t, "start")
  BY AtRuns DEF sched_do_execve, InCall
<1>2. CASE /\ pc' = [pc EXCEPT ![t] = "user"]
           /\ op' = [op EXCEPT ![t] = "none"]
           /\ UNCHANGED <<state, queues, context, event, identity, arg, halted>>
  <2>1. TypeOK'
    BY <1>2 DEF SchedIInv, TypeOK, queues, context, event, identity
  <2>2. Calling'
    BY <1>1, <1>2 DEF SchedIInv, TypeOK, Calling
  <2>3. Placed'
    BY <1>1, <1>2, CallPlaced DEF SchedIInv, TypeOK, queues, identity
  <2>4. Stacks'
    BY <1>1, <1>2, CallStacks DEF SchedIInv, TypeOK, queues, context
  <2>5. QED
    BY <2>1, <2>2, <2>3, <2>4 DEF SchedIInv
<1>3. CASE kernel_end(t, "fail")
  BY <1>1, <1>3, Step_kernel_end
<1>4. CASE /\ halted' = "null area"
           /\ UNCHANGED <<state, queues, context, event, identity, pc, op, arg>>
  BY <1>4, HaltStep DEF queues, context, event, identity
<1>5. QED
  BY <1>2, <1>3, <1>4 DEF sched_do_execve

\* One turn of sched_wait's loop: another scan, a panic, or a zombie is freed.
LEMMA Step_wait_poll ==
  ASSUME SchedIInv, NEW t \in Tasks, wait_poll(t)
  PROVE  SchedIInv'
<1> DEFINE hits == {i \in 1 .. Len(cleanup) : state[cleanup[i]] # "ZOMBIE" \/ Reaps(t, cleanup[i])}
           z == cleanup[Min(hits)]
<1>1. /\ running = t /\ state[t] = "RUNNING" /\ cpu = t /\ pc[t] = "poll"
      /\ "poll" \in InCall /\ At(t, "poll")
  BY AtRuns DEF wait_poll, InCall
<1>2. UNCHANGED <<active, running, cpu, tstack, torn, wakeup, due, sub_list, tgid, is_fork, next_tid>>
  BY DEF wait_poll, context, event, identity
<1>3. CASE /\ pc' = [pc EXCEPT ![t] = "again"]
           /\ UNCHANGED <<state, cleanup, op, arg, halted>>
  <2>1. TypeOK'
    BY <1>2, <1>3 DEF SchedIInv, TypeOK
  <2>2. Calling'
    BY <1>1, <1>3 DEF SchedIInv, TypeOK, Calling
  <2>3. Placed'
    BY <1>1, <1>2, <1>3, CallPlaced DEF SchedIInv, TypeOK
  <2>4. Stacks'
    BY <1>1, <1>2, <1>3, CallStacks DEF SchedIInv, TypeOK
  <2>5. QED
    BY <2>1, <2>2, <2>3, <2>4 DEF SchedIInv
<1>4. CASE halted' = "panic" /\ UNCHANGED <<state, cleanup, pc, op, arg>>
  BY <1>2, <1>4, HaltStep
<1>5. CASE /\ hits # {} /\ state[z] = "ZOMBIE"
           /\ cleanup' = dlist_remove_entry(cleanup, z)
           /\ state' = [state EXCEPT ![z] = "freed"]
           /\ pc' = [pc EXCEPT ![t] = "user"]
           /\ op' = [op EXCEPT ![t] = "none"]
           /\ arg' = [arg EXCEPT ![t] = Null]
           /\ UNCHANGED halted
  <2>1. z \in Tasks /\ Contains(cleanup, z) /\ state[z] = "ZOMBIE" /\ z # t
    <3>1. cleanup \in Seq(Tasks)
      BY DEF SchedIInv, TypeOK
    <3>2. hits \in SUBSET Nat
      BY <3>1
    <3>3. Min(hits) \in hits
      BY <1>5, <3>2, LeastNat
    <3> DEFINE m == Min(hits)
    <3>4. m \in 1 .. Len(cleanup)
      BY <3>3
    <3> HIDE DEF m
    <3>5. cleanup[m] \in Tasks /\ Contains(cleanup, cleanup[m])
      BY <3>1, <3>4 DEF Contains
    <3>6. z \in Tasks /\ Contains(cleanup, z)
      BY <3>5 DEF m
    <3>7. QED
      BY <1>1, <1>5, <3>6
  <2> HIDE DEF z, hits
  <2>2. /\ cleanup' \in Seq(Tasks) /\ IsInjective(cleanup')
        /\ \A x : Contains(cleanup', x) <=> Contains(cleanup, x) /\ x # z
    <3>1. cleanup \in Seq(Tasks) /\ IsInjective(cleanup)
      BY DEF SchedIInv, TypeOK, Placed
    <3>2. QED
      BY <1>5, <2>1, <3>1, RemoveEntry
  <2>3. TypeOK'
    BY <1>2, <1>5, <2>1, <2>2 DEF SchedIInv, TypeOK
  <2>4. Calling'
    BY <1>1, <1>5, <2>1 DEF SchedIInv, TypeOK, Calling
  <2>5. Placed'
    <3>0. /\ Placed /\ z \in Tasks
          /\ \A u \in Tasks : pc'[u] = "add" <=> pc[u] = "add"
          /\ \A u \in Tasks : pc[u] = "add" => arg'[u] = arg[u]
          /\ \A u \in Tasks : state'[u] = IF u = z THEN "freed" ELSE state[u]
      BY <1>1, <1>5, <2>1 DEF SchedIInv, TypeOK
    <3>1. ASSUME NEW u \in Tasks
          PROVE  /\ Contains(active', u) => state'[u] \in {"READY", "WAITING"} /\ running' # u
                 /\ Contains(cleanup', u) <=> state'[u] = "ZOMBIE"
                 /\ running' = u => \/ state'[u] = "RUNNING"
                                    \/ pc'[u] = "again" /\ state'[u] \in {"READY", "WAITING"}
                 /\ u >= next_tid' => state'[u] = "none"
      <4>1. ~(z >= next_tid) /\ ~Contains(active, z) /\ running # z
        BY <1>1, <2>1, <3>0 DEF Placed
      <4>2. running = u => u = t /\ state'[u] = "RUNNING"
        BY <1>1, <2>1, <3>0
      <4>3. QED
        BY <1>2, <2>1, <2>2, <3>0, <4>1, <4>2 DEF Placed
    <3>2. ASSUME NEW u \in Tasks, pc'[u] = "add"
          PROVE  /\ arg'[u] \in Tasks /\ state'[arg'[u]] = "READY"
                 /\ ~Contains(active', arg'[u]) /\ running' # arg'[u]
      <4>1. /\ arg'[u] = arg[u] /\ arg[u] \in Tasks /\ state[arg[u]] = "READY"
            /\ ~Contains(active, arg[u]) /\ running # arg[u]
        BY <3>0, <3>2 DEF Placed
      <4>2. QED
        BY <1>2, <2>1, <3>0, <4>1
    <3>3. ASSUME NEW u \in Tasks, state'[u] \in {"READY", "RUNNING", "WAITING"}
          PROVE  \/ running' = u \/ Contains(active', u)
                 \/ \E p \in Tasks : pc'[p] = "add" /\ arg'[p] = u
      BY <1>2, <3>0, <3>3 DEF Placed
    <3>4. \A p, q \in Tasks : pc'[p] = "add" /\ pc'[q] = "add" /\ arg'[p] = arg'[q] => p = q
      BY <3>0 DEF Placed
    <3>5. IsInjective(active')
      BY <1>2, <3>0 DEF Placed
    <3>6. QED
      BY <2>2, <3>1, <3>2, <3>3, <3>4, <3>5 DEF Placed
  <2>6. Stacks'
    BY <1>1, <1>2, <1>5, CallStacks DEF SchedIInv, TypeOK
  <2>7. QED
    BY <2>3, <2>4, <2>5, <2>6 DEF SchedIInv
<1>6. QED
  BY <1>3, <1>4, <1>5 DEF wait_poll


-----------------------------------------------------------------------------
(* The switch.                                                             *)

\* The pointers that are no tasks differ from each other.
LEMMA Distinct ==
  /\ Idle # Null /\ Idle # Boot /\ Idle # Stale /\ Idle # Old /\ Boot # Stale /\ Boot # Old
  /\ \A t \in Tasks : t \notin {Idle, Boot, Null, Stale, Old}
<1>1. \A a, b, c, d : IsFiniteSet({a, b, c, d}) /\ Cardinality({a, b, c, d}) =< 4
  <2>1. SUFFICES ASSUME NEW a, NEW b, NEW c, NEW d
                 PROVE  IsFiniteSet({a, b, c, d}) /\ Cardinality({a, b, c, d}) =< 4
    OBVIOUS
  <2>2. IsFiniteSet({a}) /\ Cardinality({a}) = 1
    BY FS_Singleton
  <2>3. IsFiniteSet({a} \union {b}) /\ Cardinality({a} \union {b}) \in {1, 2}
    BY <2>2, FS_AddElement
  <2>4. IsFiniteSet({a} \union {b} \union {c}) /\ Cardinality({a} \union {b} \union {c}) \in {1, 2, 3}
    BY <2>3, FS_AddElement
  <2>5. /\ IsFiniteSet({a} \union {b} \union {c} \union {d})
        /\ Cardinality({a} \union {b} \union {c} \union {d}) \in {1, 2, 3, 4}
    BY <2>4, FS_AddElement
  <2>6. {a} \union {b} \union {c} \union {d} = {a, b, c, d}
    OBVIOUS
  <2>7. QED
    BY <2>5, <2>6
<1>2. \A a, b, c, d : Cardinality({a, b, c, d}) # 5
  BY <1>1
<1>3. ASSUME NEW x, NEW y, NEW c, NEW d, NEW e, {x, y, c, d, e} = {Idle, Boot, Null, Stale, Old}
      PROVE  x # y
  <2>1. SUFFICES ASSUME x = y PROVE FALSE
    OBVIOUS
  <2>2. {x, y, c, d, e} = {y, c, d, e}
    BY <2>1
  <2>3. Cardinality({x, y, c, d, e}) = 5
    BY <1>3, SchedAssumption
  <2>4. QED
    BY <1>2, <2>2, <2>3
<1>4. Idle # Null
  <2>1. {Idle, Null, Boot, Stale, Old} = {Idle, Boot, Null, Stale, Old}
    OBVIOUS
  <2>2. QED
    BY <1>3, <2>1
<1>5. Idle # Boot
  <2>1. {Idle, Boot, Null, Stale, Old} = {Idle, Boot, Null, Stale, Old}
    OBVIOUS
  <2>2. QED
    BY <1>3, <2>1
<1>6. Idle # Stale
  <2>1. {Idle, Stale, Boot, Null, Old} = {Idle, Boot, Null, Stale, Old}
    OBVIOUS
  <2>2. QED
    BY <1>3, <2>1
<1>7. Idle # Old
  <2>1. {Idle, Old, Boot, Null, Stale} = {Idle, Boot, Null, Stale, Old}
    OBVIOUS
  <2>2. QED
    BY <1>3, <2>1
<1>8. Boot # Stale
  <2>1. {Boot, Stale, Idle, Null, Old} = {Idle, Boot, Null, Stale, Old}
    OBVIOUS
  <2>2. QED
    BY <1>3, <2>1
<1>9. Boot # Old
  <2>1. {Boot, Old, Idle, Null, Stale} = {Idle, Boot, Null, Stale, Old}
    OBVIOUS
  <2>2. QED
    BY <1>3, <2>1
<1>10. \A t \in Tasks : t \notin {Idle, Boot, Null, Stale, Old}
  BY SchedAssumption
<1>11. QED
  BY <1>4, <1>5, <1>6, <1>7, <1>8, <1>9, <1>10

\* What __switch_to may save: nothing, or the stack the processor is on, under
\* the name of its own task or of another one (w) while it stands behind the
\* choice of sched_again.
SavesOne(saved) ==
  \/ saved = tstack
  \/ \E w \in Tasks \union {Idle} :
       /\ saved = [tstack EXCEPT ![w] = CpuStack]
       /\ cpu # Boot /\ (cpu = Idle => w = Idle)
       /\ cpu \in Tasks /\ op[cpu] # "execve" /\ w # cpu =>
            pc'[cpu] = "switch" /\ op'[cpu] # "execve"

\* The stack is saved in one place, and misplaced only behind sched_again.
LEMMA SavedStacks ==
  ASSUME TypeOK, Misplaced, OneStack, NEW saved, SavesOne(saved),
         \A u \in Tasks : u # cpu => pc'[u] = pc[u] /\ op'[u] = op[u]
  PROVE  /\ saved \in [Tasks \union {Idle} -> Tasks \union {Idle, Stale, Old}]
         /\ \A n \in Tasks \union {Idle}, u \in Tasks :
              saved[n] = u /\ u # n => pc'[u] = "switch" /\ op'[u] # "execve"
         /\ \A n \in Tasks \union {Idle} : saved[n] = Idle => n = Idle
         /\ \A n, m \in Tasks \union {Idle}, u \in Tasks : saved[n] = u /\ saved[m] = u => n = m
<1>1. /\ tstack \in [Tasks \union {Idle} -> Tasks \union {Idle, Stale, Old}]
      /\ cpu \in Tasks \union {Idle, Boot}
  BY DEF TypeOK
<1>2. ASSUME NEW n \in Tasks \union {Idle}, NEW u \in Tasks, tstack[n] = u, u # n
      PROVE  pc'[u] = "switch" /\ op'[u] # "execve"
  <2>1. pc[u] = "switch" /\ op[u] # "execve" /\ u # cpu
    BY <1>2 DEF Misplaced, OneStack
  <2>2. QED
    BY <2>1
<1>3. CASE saved = tstack
  <2>1. \A n \in Tasks \union {Idle} : tstack[n] = Idle => n = Idle
    BY DEF Misplaced
  <2>2. \A n, m \in Tasks \union {Idle}, u \in Tasks : tstack[n] = u /\ tstack[m] = u => n = m
    BY DEF OneStack
  <2>3. QED
    BY <1>1, <1>2, <1>3, <2>1, <2>2
<1>4. CASE saved # tstack
  <2>1. PICK w \in Tasks \union {Idle} :
          /\ saved = [tstack EXCEPT ![w] = CpuStack]
          /\ cpu # Boot /\ (cpu = Idle => w = Idle)
          /\ cpu \in Tasks /\ op[cpu] # "execve" /\ w # cpu =>
               pc'[cpu] = "switch" /\ op'[cpu] # "execve"
    BY <1>4 DEF SavesOne
  <2>2. /\ CpuStack \in Tasks \union {Idle, Old}
        /\ \A u \in Tasks : CpuStack = u => cpu = u /\ op[u] # "execve"
        /\ CpuStack = Idle => cpu = Idle
    BY <1>1, <2>1, Distinct DEF CpuStack
  <2>3. \A n \in Tasks \union {Idle} : saved[n] = IF n = w THEN CpuStack ELSE tstack[n]
    BY <1>1, <2>1
  <2>4. saved \in [Tasks \union {Idle} -> Tasks \union {Idle, Stale, Old}]
    BY <1>1, <2>1, <2>2
  <2>5. ASSUME NEW n \in Tasks \union {Idle}, NEW u \in Tasks, saved[n] = u, u # n
        PROVE  pc'[u] = "switch" /\ op'[u] # "execve"
    <3>1. CASE n = w
      BY <2>1, <2>2, <2>3, <2>5, <3>1
    <3>2. CASE n # w
      BY <1>2, <2>3, <2>5, <3>2
    <3>3. QED
      BY <3>1, <3>2
  <2>6. ASSUME NEW n \in Tasks \union {Idle}, saved[n] = Idle PROVE n = Idle
    BY <2>1, <2>2, <2>3, <2>6 DEF Misplaced
  <2>7. ASSUME NEW n \in Tasks \union {Idle}, NEW m \in Tasks \union {Idle}, NEW u \in Tasks,
               saved[n] = u, saved[m] = u
        PROVE  n = m
    BY <2>2, <2>3, <2>7 DEF OneStack
  <2>8. QED
    BY <2>4, <2>5, <2>6, <2>7
<1>5. QED
  BY <1>3, <1>4

\* After the switch the processor is on the chosen task's stack, or on one that
\* was saved under its name.
LEMMA SwitchStacks ==
  ASSUME TypeOK, Misplaced, OneStack, NEW saved, SavesOne(saved),
         \A u \in Tasks : u # cpu => pc'[u] = pc[u] /\ op'[u] = op[u],
         NEW next \in Tasks \union {Idle}, running' = next,
         saved[next] \notin {Stale, Old},
         cpu' = saved[next], tstack' = [saved EXCEPT ![next] = Stale]
  PROVE  /\ cpu' \in Tasks \union {Idle}
         /\ tstack' \in [Tasks \union {Idle} -> Tasks \union {Idle, Stale, Old}]
         /\ Executing' /\ Misplaced' /\ OneStack'
<1>1. /\ saved \in [Tasks \union {Idle} -> Tasks \union {Idle, Stale, Old}]
      /\ \A n \in Tasks \union {Idle}, u \in Tasks :
           saved[n] = u /\ u # n => pc'[u] = "switch" /\ op'[u] # "execve"
      /\ \A n \in Tasks \union {Idle} : saved[n] = Idle => n = Idle
      /\ \A n, m \in Tasks \union {Idle}, u \in Tasks : saved[n] = u /\ saved[m] = u => n = m
  BY SavedStacks
<1>2. cpu' \in Tasks \union {Idle} /\ cpu' # Boot /\ next # Null
  BY <1>1, Distinct
<1>3. tstack' \in [Tasks \union {Idle} -> Tasks \union {Idle, Stale, Old}]
  BY <1>1
<1>4. \A n \in Tasks \union {Idle} : tstack'[n] = IF n = next THEN Stale ELSE saved[n]
  BY <1>1
<1>5. Executing'
  BY <1>1, <1>2 DEF Executing
<1>6. Misplaced'
  BY <1>1, <1>4, Distinct DEF Misplaced
<1>7. OneStack'
  <2>1. \A n, m \in Tasks \union {Idle}, u \in Tasks : tstack'[n] = u /\ tstack'[m] = u => n = m
    BY <1>1, <1>4, Distinct
  <2>2. \A n \in Tasks \union {Idle}, u \in Tasks : ~(cpu' = u /\ tstack'[n] = u)
    BY <1>1, <1>4, Distinct
  <2>3. QED
    BY <2>1, <2>2 DEF OneStack
<1>8. QED
  BY <1>2, <1>3, <1>5, <1>6, <1>7

-----------------------------------------------------------------------------
(* sched_again and the tick.                                               *)

\* What the choice of sched_again leaves in the events.
LEMMA ChooseTypes ==
  ASSUME TypeOK, ChooseNext
  PROVE  /\ wakeup' \in [Tasks -> {"unknown", "sleep", "key", "null"}]
         /\ due' \in [Tasks -> BOOLEAN]
         /\ \A t \in Tasks : wakeup'[t] = "key" <=> wakeup[t] = "key"
<1>1. PICK next :
        /\ wakeup' = [t \in Tasks |-> IF t = next /\ wakeup[t] = "sleep" THEN "unknown"
                                      ELSE wakeup[t]]
        /\ due' = [t \in Tasks |-> due[t] /\ t # next]
  BY Zenon DEF ChooseNext
<1>2. wakeup' \in [Tasks -> {"unknown", "sleep", "key", "null"}]
  BY <1>1 DEF TypeOK
<1>3. due' \in [Tasks -> BOOLEAN]
  BY <1>1 DEF TypeOK
<1>4. \A t \in Tasks : wakeup'[t] = "key" <=> wakeup[t] = "key"
  BY <1>1
<1>5. QED
  BY <1>2, <1>3, <1>4

\* Where a call continues.
LEMMA AfterCases ==
  /\ After("sleep") = "slept" /\ After("read") = "woken" /\ After("wait") = "poll"
  /\ After("execve") = "start" /\ After("exit") = "gone" /\ After("fail") = "gone"
BY DEF After

\* sched_again, up to __switch_to.
LEMMA Step_sched_again ==
  ASSUME SchedIInv, NEW t \in Tasks, sched_again(t)
  PROVE  SchedIInv'
<1>1. /\ TypeOK /\ Calling /\ Placed /\ Executing /\ Misplaced /\ OneStack
      /\ cpu = t /\ pc[t] = "again"
  BY DEF SchedIInv, Stacks, sched_again, At
<1>2. /\ ChooseNext /\ pc' = [pc EXCEPT ![t] = "switch"]
      /\ UNCHANGED <<cleanup, cpu, tstack, torn, sub_list, tgid, is_fork, next_tid, op, arg, halted>>
  BY DEF sched_again, ChooseNext, context, identity
<1>3. \A u \in Tasks : pc'[u] = IF u = t THEN "switch" ELSE pc[u]
  BY <1>1, <1>2 DEF TypeOK
<1>4. /\ Placed' /\ active' \in Seq(Tasks) /\ running' \in Tasks \union {Idle}
      /\ state' \in [Tasks -> {"none", "READY", "RUNNING", "WAITING", "ZOMBIE", "freed"}]
      /\ \A u \in Tasks : state[u] \in {"ZOMBIE", "freed"} => state'[u] = state[u]
  <2>1. \A p \in Tasks : pc'[p] = "add" <=> pc[p] = "add"
    BY <1>1, <1>3
  <2>2. QED
    BY <1>1, <1>2, <2>1, ChoosePlaced
<1>5. /\ wakeup' \in [Tasks -> {"unknown", "sleep", "key", "null"}]
      /\ due' \in [Tasks -> BOOLEAN]
  BY <1>1, <1>2, ChooseTypes
<1>6. TypeOK'
  BY <1>1, <1>2, <1>4, <1>5 DEF TypeOK
<1>7. Calling'
  BY <1>1, <1>2, <1>3, <1>4 DEF Calling
<1>8. Stacks'
  <2>1. running' # Null /\ t # Idle /\ t # Boot
    BY <1>4, Distinct
  <2>2. Executing'
    BY <1>1, <1>2, <1>3, <2>1 DEF Executing
  <2>3. Misplaced'
    BY <1>1, <1>2, <1>3 DEF Misplaced
  <2>4. OneStack'
    BY <1>1, <1>2, <1>3 DEF OneStack
  <2>5. QED
    BY <2>2, <2>3, <2>4 DEF Stacks
<1>9. QED
  BY <1>4, <1>6, <1>7, <1>8 DEF SchedIInv

\* __switch_to, called by a task.
LEMMA Step_switch_to ==
  ASSUME SchedIInv, NEW t \in Tasks, switch_to(t)
  PROVE  SchedIInv'
<1>1. /\ TypeOK /\ Calling /\ Placed /\ Executing /\ Misplaced /\ OneStack
      /\ cpu = t /\ pc[t] = "switch" /\ Live
  BY DEF SchedIInv, Stacks, switch_to, At
<1>2. /\ UNCHANGED <<state, active, cleanup, running, torn, wakeup, due, sub_list, tgid, is_fork,
                     next_tid, arg>>
      /\ pc' = [pc EXCEPT ![t] = After(op[t])] /\ op' = op
  BY DEF switch_to, queues, event, identity
<1>3. /\ op[t] \in {"sleep", "read", "execve", "exit", "fail", "wait"}
      /\ op[t] = "sleep" => After(op[t]) = "slept"
      /\ op[t] = "read" => After(op[t]) = "woken"
      /\ op[t] = "wait" => After(op[t]) = "poll"
      /\ op[t] = "execve" => After(op[t]) = "start"
      /\ op[t] \in {"exit", "fail"} => After(op[t]) = "gone"
  BY <1>1, AfterCases DEF TypeOK, Calling
<1>4. /\ \A u \in Tasks : u # t => pc'[u] = pc[u] /\ op'[u] = op[u]
      /\ pc'[t] = After(op[t])
  BY <1>1, <1>2 DEF TypeOK
<1>5. PICK saved : /\ saved = tstack \/ (saved = [tstack EXCEPT ![t] = t] /\ op[t] # "execve")
                   /\ \/ saved[running] \in {Stale, Old} /\ halted' = "stack"
                         /\ cpu' = cpu /\ tstack' = saved
                      \/ saved[running] \notin {Stale, Old} /\ halted' = halted
                         /\ cpu' = saved[running] /\ tstack' = [saved EXCEPT ![running] = Stale]
  <2> DEFINE curr == IF op[t] \in {"exit", "fail"} THEN Null ELSE t
             sv == IF Saves(curr) THEN [tstack EXCEPT ![curr] = CpuStack] ELSE tstack
  <2>1. SwitchTo(running, curr)
    BY DEF switch_to
  <2>2. \/ sv[running] \in {Stale, Old} /\ halted' = "stack" /\ cpu' = cpu /\ tstack' = sv
        \/ sv[running] \notin {Stale, Old} /\ halted' = halted
           /\ cpu' = sv[running] /\ tstack' = [sv EXCEPT ![running] = Stale]
    BY <2>1 DEF SwitchTo
  <2>3. sv = tstack \/ (sv = [tstack EXCEPT ![t] = t] /\ op[t] # "execve")
    BY <1>1 DEF Saves, CpuStack
  <2>4. QED
    BY <2>2, <2>3
<1>6. SavesOne(saved)
  <2>1. CASE saved = tstack
    BY <2>1 DEF SavesOne
  <2>2. CASE saved = [tstack EXCEPT ![t] = t] /\ op[t] # "execve"
    <3>1. CpuStack = t /\ cpu # Boot /\ cpu # Idle
      BY <1>1, <2>2, Distinct DEF CpuStack
    <3>2. QED
      BY <1>1, <2>2, <3>1 DEF SavesOne
  <2>3. QED
    BY <1>5, <2>1, <2>2
<1>7. running \in Tasks \union {Idle}
  BY <1>1, Distinct DEF Executing, TypeOK
<1>8. saved \in [Tasks \union {Idle} -> Tasks \union {Idle, Stale, Old}]
  BY <1>1, <1>4, <1>6, SavedStacks
<1>9. Calling'
  BY <1>1, <1>2, <1>3, <1>4 DEF Calling
<1>10. Placed'
  <2>1. \A p \in Tasks : pc'[p] = "add" <=> pc[p] = "add"
    BY <1>1, <1>3, <1>4
  <2>2. \A p \in Tasks : running = p => pc'[p] = pc[p] \/ state[p] = "RUNNING"
    BY <1>1, <1>4 DEF Placed
  <2>3. QED
    BY <1>1, <1>2, <2>1, <2>2, SamePlaced
<1>11. ASSUME halted' \in {"no", "stack"}, cpu' \in Tasks \union {Idle, Boot},
              tstack' \in [Tasks \union {Idle} -> Tasks \union {Idle, Stale, Old}]
       PROVE  TypeOK'
  <2>1. /\ pc' \in [Tasks -> {"start", "user", "again", "switch", "slept", "subscribed", "woken",
                               "add", "poll", "gone"}]
        /\ op' \in [Tasks -> {"none", "sleep", "read", "execve", "exit", "fail", "wait"}]
    BY <1>1, <1>2, <1>3 DEF TypeOK
  <2>2. QED
    BY <1>1, <1>2, <1>11, <2>1 DEF TypeOK
<1>12. CASE halted' = "stack" /\ cpu' = cpu /\ tstack' = saved
  <2>1. TypeOK'
    BY <1>1, <1>8, <1>11, <1>12 DEF TypeOK
  <2>2. Stacks'
    BY <1>12 DEF Stacks, Live
  <2>3. QED
    BY <1>9, <1>10, <2>1, <2>2 DEF SchedIInv
<1>13. CASE /\ saved[running] \notin {Stale, Old} /\ halted' = halted
            /\ cpu' = saved[running] /\ tstack' = [saved EXCEPT ![running] = Stale]
  <2>1. running' = running /\ \A u \in Tasks : u # cpu => pc'[u] = pc[u] /\ op'[u] = op[u]
    BY <1>1, <1>2, <1>4
  <2>2. /\ cpu' \in Tasks \union {Idle}
        /\ tstack' \in [Tasks \union {Idle} -> Tasks \union {Idle, Stale, Old}]
        /\ Executing' /\ Misplaced' /\ OneStack'
    BY <1>1, <1>6, <1>7, <1>13, <2>1, SwitchStacks
  <2>3. TypeOK'
    BY <1>1, <1>11, <1>13, <2>2 DEF Live
  <2>4. QED
    BY <1>9, <1>10, <2>2, <2>3 DEF SchedIInv, Stacks
<1>14. QED
  BY <1>5, <1>12, <1>13

\* The tick: the choice and the switch in one, on whatever stack it comes.
LEMMA Step_tick ==
  ASSUME SchedIInv, tick
  PROVE  SchedIInv'
<1>1. /\ TypeOK /\ Calling /\ Placed /\ Executing /\ Misplaced /\ OneStack /\ Live
      /\ cpu \in Tasks => op[cpu] # "fail"
  BY DEF SchedIInv, Stacks, tick, InterruptsOn
<1>2. /\ ChooseNext
      /\ UNCHANGED <<cleanup, sub_list, tgid, is_fork, next_tid, op, arg>>
      /\ torn' \in BOOLEAN
  BY DEF tick, ChooseNext, identity
<1> DEFINE Abandoned(t) == /\ t = cpu
                           /\ \/ op[t] = "execve" /\ pc[t] \in {"again", "switch"}
                              \/ op[t] = "exit" /\ pc[t] = "again"
<1>3. pc' = [t \in Tasks |-> IF Abandoned(t) THEN After(op[t]) ELSE pc[t]]
  BY DEF tick
<1>4. \A t \in Tasks : IF Abandoned(t)
                       THEN pc'[t] = IF op[t] = "execve" THEN "start" ELSE "gone"
                       ELSE pc'[t] = pc[t]
  BY <1>3, AfterCases
<1>5. /\ Placed' /\ active' \in Seq(Tasks) /\ running' \in Tasks \union {Idle}
      /\ state' \in [Tasks -> {"none", "READY", "RUNNING", "WAITING", "ZOMBIE", "freed"}]
      /\ \A u \in Tasks : state[u] \in {"ZOMBIE", "freed"} => state'[u] = state[u]
  <2>1. \A p \in Tasks : pc'[p] = "add" <=> pc[p] = "add"
    BY <1>4
  <2>2. QED
    BY <1>1, <1>2, <2>1, ChoosePlaced
<1>6. /\ wakeup' \in [Tasks -> {"unknown", "sleep", "key", "null"}]
      /\ due' \in [Tasks -> BOOLEAN]
  BY <1>1, <1>2, ChooseTypes
<1>7. Calling'
  <2>1. \A u \in Tasks : op'[u] = op[u] /\ (op[u] \in {"exit", "fail"} => state'[u] \in {"ZOMBIE", "freed"})
    BY <1>1, <1>2, <1>5 DEF Calling
  <2>2. QED
    BY <1>1, <1>4, <2>1 DEF Calling
<1>8. PICK next : next = running' /\ next \in Tasks \union {Idle}
  BY <1>5
<1>9. PICK saved : /\ \/ saved = tstack
                      \/ /\ running # Null /\ saved = [tstack EXCEPT ![running] = CpuStack]
                   /\ \/ saved[next] \in {Stale, Old} /\ halted' = "stack"
                         /\ cpu' = cpu /\ tstack' = saved
                      \/ saved[next] \notin {Stale, Old} /\ halted' = halted
                         /\ cpu' = saved[next] /\ tstack' = [saved EXCEPT ![next] = Stale]
  <2> DEFINE sv == IF Saves(running) THEN [tstack EXCEPT ![running] = CpuStack] ELSE tstack
  <2>1. \/ sv[running'] \in {Stale, Old} /\ halted' = "stack" /\ cpu' = cpu /\ tstack' = sv
        \/ sv[running'] \notin {Stale, Old} /\ halted' = halted
           /\ cpu' = sv[running'] /\ tstack' = [sv EXCEPT ![running'] = Stale]
    BY DEF tick, SwitchTo
  <2>2. sv = tstack \/ (running # Null /\ sv = [tstack EXCEPT ![running] = CpuStack])
    BY DEF Saves
  <2> HIDE DEF sv
  <2>3. QED
    BY <1>8, <2>1, <2>2
<1>10. SavesOne(saved)
  <2>1. CASE saved = tstack
    BY <2>1 DEF SavesOne
  <2>2. CASE running # Null /\ saved = [tstack EXCEPT ![running] = CpuStack]
    <3>1. running \in Tasks \union {Idle} /\ cpu # Boot /\ (cpu = Idle => running = Idle)
      BY <1>1, <2>2 DEF TypeOK, Executing
    <3>2. cpu \in Tasks /\ op[cpu] # "execve" /\ running # cpu =>
            pc'[cpu] = "switch" /\ op'[cpu] # "execve"
      BY <1>1, <1>2, <1>4, <2>2 DEF Executing
    <3>3. QED
      BY <2>2, <3>1, <3>2 DEF SavesOne
  <2>3. QED
    BY <1>9, <2>1, <2>2
<1>11. \A u \in Tasks : u # cpu => pc'[u] = pc[u] /\ op'[u] = op[u]
  BY <1>2, <1>4
<1>12. saved \in [Tasks \union {Idle} -> Tasks \union {Idle, Stale, Old}]
  BY <1>1, <1>10, <1>11, SavedStacks
<1>13. ASSUME halted' \in {"no", "stack"}, cpu' \in Tasks \union {Idle, Boot},
              tstack' \in [Tasks \union {Idle} -> Tasks \union {Idle, Stale, Old}]
       PROVE  TypeOK'
  <2>1. pc' \in [Tasks -> {"start", "user", "again", "switch", "slept", "subscribed", "woken",
                            "add", "poll", "gone"}]
    <3>1. \A t \in Tasks : pc'[t] \in {"start", "user", "again", "switch", "slept", "subscribed", "woken",
                                       "add", "poll", "gone"}
      BY <1>1, <1>4 DEF TypeOK
    <3>2. QED
      BY <1>3, <3>1
  <2>2. QED
    BY <1>1, <1>2, <1>5, <1>6, <1>13, <2>1 DEF TypeOK
<1>14. CASE halted' = "stack" /\ cpu' = cpu /\ tstack' = saved
  <2>1. TypeOK'
    BY <1>1, <1>12, <1>13, <1>14 DEF TypeOK
  <2>2. Stacks'
    BY <1>14 DEF Stacks, Live
  <2>3. QED
    BY <1>5, <1>7, <2>1, <2>2 DEF SchedIInv
<1>15. CASE /\ saved[next] \notin {Stale, Old} /\ halted' = halted
            /\ cpu' = saved[next] /\ tstack' = [saved EXCEPT ![next] = Stale]
  <2>1. /\ cpu' \in Tasks \union {Idle}
        /\ tstack' \in [Tasks \union {Idle} -> Tasks \union {Idle, Stale, Old}]
        /\ Executing' /\ Misplaced' /\ OneStack'
    BY <1>1, <1>8, <1>10, <1>11, <1>15, SwitchStacks
  <2>2. TypeOK'
    BY <1>1, <1>13, <1>15, <2>1 DEF Live
  <2>3. QED
    BY <1>5, <1>7, <2>1, <2>2 DEF SchedIInv, Stacks
<1>16. QED
  BY <1>9, <1>14, <1>15

-----------------------------------------------------------------------------
(* The invariant.                                                          *)

\* The kernel starts with the core task and the shell on active_tasks.
LEMMA InitInv == Init => SchedIInv
<1> SUFFICES ASSUME Init PROVE SchedIInv
  OBVIOUS
<1>1. /\ Tasks \subseteq Int /\ 1 \in Tasks /\ 2 \in Tasks
  BY SchedAssumption DEF Tasks
<1>2. /\ active = <<1, 2>> /\ active \in Seq(Tasks) /\ Len(active) = 2 /\ DOMAIN active = 1 .. 2
      /\ active[1] = 1 /\ active[2] = 2
  BY <1>1 DEF Init, Core, Shell
<1>3. /\ cleanup = <<>> /\ cleanup \in Seq(Tasks) /\ Len(cleanup) = 0 /\ DOMAIN cleanup = 1 .. 0
  BY DEF Init
<1>4. TypeOK
  <2>1. /\ state \in [Tasks -> {"none", "READY", "RUNNING", "WAITING", "ZOMBIE", "freed"}]
        /\ running \in Tasks \union {Idle, Null} /\ cpu \in Tasks \union {Idle, Boot}
        /\ wakeup \in [Tasks -> {"unknown", "sleep", "key", "null"}]
        /\ due \in [Tasks -> BOOLEAN] /\ torn \in BOOLEAN /\ tgid \in [Tasks -> Tasks] /\ is_fork \in [Tasks -> BOOLEAN]
    BY DEF Init
  <2>2. /\ tstack \in [Tasks \union {Idle} -> Tasks \union {Idle, Stale, Old}]
        /\ sub_list \in Seq(Tasks \union {Stale}) /\ next_tid \in Nat
    BY DEF Init, Shell
  <2>3. /\ pc \in [Tasks -> {"start", "user", "again", "switch", "slept", "subscribed", "woken",
                             "add", "poll", "gone"}]
        /\ op \in [Tasks -> {"none", "sleep", "read", "execve", "exit", "fail", "wait"}]
        /\ arg \in [Tasks -> Tasks \union {Null}]
        /\ halted \in {"no", "stack", "null event", "null task", "null area", "freed event", "panic"}
    BY DEF Init
  <2>4. QED
    BY <1>2, <1>3, <2>1, <2>2, <2>3 DEF TypeOK
<1>5. Calling
  BY DEF Init, Calling
<1>6. Placed
  <2>1. IsInjective(active) /\ IsInjective(cleanup)
    BY <1>2, <1>3 DEF IsInjective
  <2>2. \A t \in Tasks : (Contains(active, t) <=> t \in {1, 2}) /\ ~Contains(cleanup, t)
    BY <1>1, <1>2, <1>3 DEF Contains
  <2>3. \A t \in Tasks : /\ state[t] = (IF t \in {1, 2} THEN "READY" ELSE "none")
                         /\ t >= 3 => t \notin {1, 2}
    BY SchedAssumption DEF Init, Tasks, Shell
  <2>4. /\ running = Null /\ next_tid = 3 /\ \A t \in Tasks : t # Null /\ pc[t] # "add"
    BY Distinct DEF Init, Shell
  <2>5. QED
    BY <2>1, <2>2, <2>3, <2>4 DEF Placed
<1>7. Stacks
  <2>1. cpu = Boot /\ running = Null /\ \A n \in Tasks \union {Idle} : tstack[n] = n
    BY DEF Init
  <2>2. QED
    BY <2>1, Distinct DEF Stacks, Executing, Misplaced, OneStack
<1>8. QED
  BY <1>4, <1>5, <1>6, <1>7 DEF SchedIInv

\* Every step keeps the invariant.
LEMMA NextInv == SchedIInv /\ [Next]_vars => SchedIInv'
<1> SUFFICES ASSUME SchedIInv, [Next]_vars PROVE SchedIInv'
  OBVIOUS
<1>1. CASE tick
  BY <1>1, Step_tick
<1>2. CASE keyboard_irq
  BY <1>2, Step_keyboard_irq
<1>3. ASSUME NEW t \in Tasks, TimePasses(t) \/ KernelStep(t) \/ SystemCall(t)
      PROVE  SchedIInv'
  <2>1. CASE TimePasses(t)
    BY <2>1, Step_TimePasses
  <2>2. CASE KernelStep(t)
    BY <2>2, Step_sched_again, Step_switch_to, Step_sleep_return, Step_sched_wait_event, Step_event_return,
       Step_sched_add, Step_sched_do_execve, Step_wait_poll DEF KernelStep
  <2>3. CASE SystemCall(t)
    BY <2>3, Step_sched_sleep, Step_kevent_subscribe, Step_fork_spawn, Step_sched_execve,
       Step_sched_exit, Step_sched_wait DEF SystemCall
  <2>4. QED
    BY <1>3, <2>1, <2>2, <2>3
<1>4. CASE UNCHANGED vars
  <2>1. TypeOK'
    BY <1>4 DEF vars, SchedIInv, TypeOK
  <2>2. Calling'
    BY <1>4 DEF vars, SchedIInv, Calling
  <2>3. Placed'
    BY <1>4, SamePlaced DEF vars, SchedIInv
  <2>4. Stacks'
    BY <1>4 DEF vars, SchedIInv, Stacks, Live, Executing, Misplaced, OneStack
  <2>5. QED
    BY <2>1, <2>2, <2>3, <2>4 DEF SchedIInv
<1>5. QED
  BY <1>1, <1>2, <1>3, <1>4 DEF Next

\* Types, calls, places and stacks stay as the invariant says, whatever the
\* number of tasks and readers.
THEOREM SchedInvariant == Spec => []SchedIInv
<1>1. QED
  BY InitInv, NextInv, PTL DEF Spec

-----------------------------------------------------------------------------
(* OnePlace.                                                               *)

\* On a list without duplicates an entry stands at one index or at none.
LEMMA EntryCount ==
  ASSUME NEW S, NEW s \in Seq(S), IsInjective(s), NEW e
  PROVE  Cardinality({i \in DOMAIN s : s[i] = e}) = IF Contains(s, e) THEN 1 ELSE 0
<1> DEFINE I == {i \in DOMAIN s : s[i] = e}
<1>1. DOMAIN s = 1 .. Len(s)
  OBVIOUS
<1>2. CASE Contains(s, e)
  <2>1. PICK i \in DOMAIN s : s[i] = e
    BY <1>1, <1>2 DEF Contains
  <2>2. I = {i}
    BY <2>1 DEF IsInjective
  <2>3. QED
    BY <1>2, <2>2, FS_Singleton
<1>3. CASE ~Contains(s, e)
  <2>1. I = {}
    BY <1>1, <1>3 DEF Contains
  <2>2. QED
    BY <1>3, <2>1, FS_EmptySet
<1>4. QED
  BY <1>2, <1>3

\* OnePlace is what Placed says, in numbers.
LEMMA CountPlaces ==
  ASSUME TypeOK, Placed
  PROVE  OnePlace
<1> SUFFICES ASSUME NEW t \in Tasks
             PROVE  /\ Places(t) = IF state[t] \in {"none", "freed"} THEN 0 ELSE 1
                    /\ Contains(active, t) => state[t] \in {"READY", "WAITING"}
                    /\ Contains(cleanup, t) <=> state[t] = "ZOMBIE"
                    /\ running = t => state[t] = "RUNNING" \/ pc[t] = "again"
  BY DEF OnePlace
<1> DEFINE adds == {p \in Tasks : pc[p] = "add" /\ arg[p] = t}
<1>1. /\ Contains(active, t) => state[t] \in {"READY", "WAITING"} /\ running # t
      /\ Contains(cleanup, t) <=> state[t] = "ZOMBIE"
      /\ running = t => \/ state[t] = "RUNNING"
                        \/ pc[t] = "again" /\ state[t] \in {"READY", "WAITING"}
      /\ state[t] \in {"READY", "RUNNING", "WAITING"} =>
           running = t \/ Contains(active, t) \/ adds # {}
      /\ adds # {} => state[t] = "READY" /\ ~Contains(active, t) /\ running # t
  BY DEF Placed
<1>2. Cardinality({i \in DOMAIN active : active[i] = t}) = IF Contains(active, t) THEN 1 ELSE 0
  <2>1. active \in Seq(Tasks) /\ IsInjective(active)
    BY DEF TypeOK, Placed
  <2>2. QED
    BY <2>1, EntryCount
<1>3. Cardinality({i \in DOMAIN cleanup : cleanup[i] = t}) = IF Contains(cleanup, t) THEN 1 ELSE 0
  <2>1. cleanup \in Seq(Tasks) /\ IsInjective(cleanup)
    BY DEF TypeOK, Placed
  <2>2. QED
    BY <2>1, EntryCount
<1>4. Cardinality(adds) = IF adds = {} THEN 0 ELSE 1
  <2>1. CASE adds = {}
    BY <2>1, FS_EmptySet
  <2>2. CASE adds # {}
    <3>1. PICK p \in Tasks : pc[p] = "add" /\ arg[p] = t
      BY <2>2
    <3>2. adds = {p}
      BY <3>1 DEF Placed
    <3>3. QED
      BY <2>2, <3>2, FS_Singleton
  <2>3. QED
    BY <2>1, <2>2
<1>5. state[t] \in {"none", "READY", "RUNNING", "WAITING", "ZOMBIE", "freed"}
  BY DEF TypeOK
<1> HIDE DEF adds
<1>6. Places(t) = (IF running = t THEN 1 ELSE 0) + (IF Contains(active, t) THEN 1 ELSE 0)
                  + (IF Contains(cleanup, t) THEN 1 ELSE 0) + (IF adds = {} THEN 0 ELSE 1)
  BY <1>2, <1>3, <1>4 DEF Places, adds
<1>7. Places(t) = IF state[t] \in {"none", "freed"} THEN 0 ELSE 1
  BY <1>1, <1>5, <1>6
<1>8. QED
  BY <1>1, <1>7

\* Every task is in exactly one place, and the place agrees with its state: the
\* run's OnePlace, for any number of tasks.
THEOREM SchedOnePlace == Spec => []OnePlace
<1>1. SchedIInv => OnePlace
  BY CountPlaces DEF SchedIInv
<1>2. QED
  BY <1>1, SchedInvariant, PTL

-----------------------------------------------------------------------------
(* The readers and their events.                                           *)

\* The readers that wait are finitely many.
LEMMA WokenReadings ==
  /\ EnoughEvents <=> Cardinality(Readings) =< Len(sub_list)
  /\ EnoughEvents' <=> Cardinality(Readings') =< Len(sub_list')
  /\ IsFiniteSet(Readings) /\ Cardinality(Readings) \in Nat
<1>1. IsFiniteSet(Tasks)
  BY SchedAssumption, FS_Interval DEF Tasks
<1>2. IsFiniteSet(Readings)
  BY <1>1, FS_Subset DEF Readings
<1>3. QED
  BY <1>2, FS_CardinalityType DEF EnoughEvents

\* A step that neither makes a reader nor takes one out of its wait.
ReadKept ==
  /\ sub_list' = sub_list
  /\ \A u \in Tasks :
       /\ WaitsKey(u)' => WaitsKey(u)
       /\ pc'[u] = "subscribed" => state'[u] # "WAITING"
       /\ op[u] = "read" /\ WaitsKey(u) => op'[u] = "read" /\ WaitsKey(u)'

\* Such a step keeps the readers' invariant.
LEMMA ReadFrame ==
  ASSUME TypeOK, ReadIInv, ReadKept
  PROVE  ReadIInv'
<1>1. Readings' \subseteq Readings
  BY DEF ReadKept, Readings, WaitsKey
<1>2. /\ Len(sub_list) \in Nat /\ sub_list' = sub_list /\ Cardinality(Readings) =< Len(sub_list)
      /\ Cardinality(Readings) \in Nat
  <2>1. sub_list \in Seq(Tasks \union {Stale})
    BY DEF TypeOK
  <2>2. QED
    BY <2>1, WokenReadings DEF ReadKept, ReadIInv, Waits
<1>3. Cardinality(Readings') \in Nat /\ Cardinality(Readings') =< Cardinality(Readings)
  BY <1>1, WokenReadings, FS_Subset, FS_CardinalityType
<1>4. Cardinality(Readings') =< Len(sub_list')
  BY <1>2, <1>3
<1>5. Waits'
  BY <1>4, WokenReadings DEF Waits, ReadKept
<1>6. ASSUME OneReader PROVE SubsWait'
  BY <1>6 DEF ReadIInv, ReadKept, SubsWait, WaitsKey
<1>7. QED
  BY <1>5, <1>6 DEF ReadIInv, OneReader

\* A step of a call that reads nothing, by the task that makes it.
LEMMA ReadOther ==
  ASSUME ReadIInv, NEW t \in Tasks, sub_list' = sub_list, ~WaitsKey(t),
         ~WaitsKey(t)', pc'[t] # "subscribed",
         \A u \in Tasks : u # t => /\ op'[u] = op[u] /\ pc'[u] = pc[u] /\ wakeup'[u] = wakeup[u]
                                   /\ \/ state'[u] = state[u]
                                      \/ state[u] # "WAITING" /\ state'[u] # "WAITING"
  PROVE  ReadKept
<1>1. ASSUME NEW u \in Tasks
      PROVE  /\ WaitsKey(u)' => WaitsKey(u)
             /\ pc'[u] = "subscribed" => state'[u] # "WAITING"
             /\ op[u] = "read" /\ WaitsKey(u) => op'[u] = "read" /\ WaitsKey(u)'
  BY DEF WaitsKey, ReadIInv, Waits
<1>2. QED
  BY <1>1 DEF ReadKept

\* __sched_kernel_end, by a task that reads nothing.
LEMMA ReadEnd ==
  ASSUME TypeOK, ReadIInv, NEW t \in Tasks, state[t] = "RUNNING", pc[t] # "subscribed",
         NEW call, kernel_end(t, call)
  PROVE  ReadKept
<1>1. /\ state \in [Tasks -> {"none", "READY", "RUNNING", "WAITING", "ZOMBIE", "freed"}]
      /\ wakeup \in [Tasks -> {"unknown", "sleep", "key", "null"}]
      /\ pc \in [Tasks -> {"start", "user", "again", "switch", "slept", "subscribed", "woken",
                           "add", "poll", "gone"}]
      /\ op \in [Tasks -> {"none", "sleep", "read", "execve", "exit", "fail", "wait"}]
  BY DEF TypeOK
<1>2. /\ state' = [state EXCEPT ![t] = "ZOMBIE"] /\ wakeup' = [wakeup EXCEPT ![t] = "null"]
      /\ pc' = [pc EXCEPT ![t] = "again"] /\ op' = [op EXCEPT ![t] = call]
      /\ sub_list' = sub_list
  BY DEF kernel_end
<1>3. QED
  BY <1>1, <1>2, ReadOther DEF WaitsKey

\* A step that touches neither states, events nor calls.
LEMMA ReadSame ==
  ASSUME ReadIInv, UNCHANGED <<state, wakeup, sub_list, pc, op>>
  PROVE  ReadKept
BY DEF ReadKept, WaitsKey, ReadIInv, Waits

\* The choice of sched_again wakes no reader.
LEMMA ReadChoose ==
  ASSUME SchedIInv, ReadIInv, ChooseNext, op' = op,
         \A u \in Tasks : pc'[u] = "subscribed" <=> pc[u] = "subscribed",
         \A u \in Tasks : pc'[u] = "add" <=> pc[u] = "add"
  PROVE  ReadKept
<1>1. TypeOK /\ Placed
  BY DEF SchedIInv
<1>2. \A u \in Tasks : /\ state'[u] = "WAITING" => state[u] = "WAITING"
                       /\ state[u] = "WAITING" /\ wakeup[u] # "sleep" => state'[u] = "WAITING"
  BY <1>1, ChoosePlaced
<1>3. \A u \in Tasks : wakeup'[u] = "key" <=> wakeup[u] = "key"
  BY <1>1, ChooseTypes
<1>4. sub_list' = sub_list
  BY DEF ChooseNext
<1>5. ASSUME NEW u \in Tasks
      PROVE  /\ WaitsKey(u)' => WaitsKey(u)
             /\ pc'[u] = "subscribed" => state'[u] # "WAITING"
             /\ op[u] = "read" /\ WaitsKey(u) => op'[u] = "read" /\ WaitsKey(u)'
  BY <1>2, <1>3 DEF WaitsKey, ReadIInv, Waits
<1>6. QED
  BY <1>4, <1>5 DEF ReadKept

\* What a task does in the kernel, reading or not.
LEMMA ReadKernel ==
  ASSUME SchedIInv, ReadIInv, NEW t \in Tasks, KernelStep(t), ~event_return(t)
  PROVE  ReadKept
<1>1. /\ TypeOK /\ state \in [Tasks -> {"none", "READY", "RUNNING", "WAITING", "ZOMBIE", "freed"}]
      /\ wakeup \in [Tasks -> {"unknown", "sleep", "key", "null"}]
      /\ pc \in [Tasks -> {"start", "user", "again", "switch", "slept", "subscribed", "woken",
                           "add", "poll", "gone"}]
      /\ op \in [Tasks -> {"none", "sleep", "read", "execve", "exit", "fail", "wait"}]
  BY DEF SchedIInv, TypeOK
<1>2. \A l \in InCall : At(t, l) => state[t] = "RUNNING" /\ pc[t] = l
  BY AtRuns
<1>3. CASE sched_again(t)
  <2>1. pc[t] = "again" /\ ChooseNext /\ op' = op /\ pc' = [pc EXCEPT ![t] = "switch"]
    BY <1>3 DEF sched_again, At
  <2>2. QED
    BY <1>1, <2>1, ReadChoose
<1>4. CASE switch_to(t)
  <2>1. /\ pc[t] = "switch" /\ pc' = [pc EXCEPT ![t] = After(op[t])]
        /\ UNCHANGED <<state, wakeup, sub_list, op>>
    BY <1>4 DEF switch_to, At, event
  <2>2. After(op[t]) # "subscribed"
    <3>1. op[t] \in {"sleep", "read", "execve", "exit", "fail", "wait"}
      BY <1>1, <2>1 DEF SchedIInv, Calling
    <3>2. QED
      BY <3>1, AfterCases
  <2>3. \A u \in Tasks : /\ pc'[u] = "subscribed" <=> pc[u] = "subscribed"
                         /\ op[u] = "read" => op'[u] = "read"
    BY <1>1, <2>1, <2>2
  <2>4. QED
    BY <2>1, <2>3 DEF ReadKept, WaitsKey, ReadIInv, Waits
<1>5. CASE sched_wait_event(t)
  <2>1. /\ pc[t] = "subscribed" /\ state' = [state EXCEPT ![t] = "WAITING"]
        /\ wakeup' = [wakeup EXCEPT ![t] = "key"] /\ pc' = [pc EXCEPT ![t] = "again"]
        /\ UNCHANGED <<sub_list, op>>
    BY <1>5 DEF sched_wait_event, At
  <2>2. WaitsKey(t) /\ WaitsKey(t)' /\ pc'[t] = "again"
    BY <1>1, <2>1 DEF WaitsKey
  <2>3. \A u \in Tasks : u # t => state'[u] = state[u] /\ wakeup'[u] = wakeup[u] /\ pc'[u] = pc[u]
    BY <1>1, <2>1
  <2>4. QED
    BY <2>1, <2>2, <2>3 DEF ReadKept, WaitsKey, ReadIInv, Waits
<1>6. CASE sleep_return(t)
  <2>1. state[t] = "RUNNING" /\ pc[t] = "slept"
    BY <1>2, <1>6 DEF sleep_return, InCall
  <2>2. /\ pc' = [pc EXCEPT ![t] = "user"]
        /\ op' = [op EXCEPT ![t] = "none"] /\ UNCHANGED <<state, wakeup, sub_list>>
    BY <1>6 DEF sleep_return, event
  <2>3. QED
    BY <1>1, <2>1, <2>2, ReadOther DEF WaitsKey
<1>7. CASE sched_add(t)
  <2>1. state[t] = "RUNNING" /\ pc[t] = "add"
    BY <1>2, <1>7 DEF sched_add, InCall
  <2>2. pc' = [pc EXCEPT ![t] = "user"] /\ UNCHANGED <<state, wakeup, sub_list, op>>
    BY <1>7 DEF sched_add, event
  <2>3. QED
    BY <1>1, <2>1, <2>2, ReadOther DEF WaitsKey
<1>8. CASE sched_do_execve(t)
  <2>1. state[t] = "RUNNING" /\ pc[t] = "start"
    BY <1>2, <1>8 DEF sched_do_execve, InCall
  <2>2. CASE /\ pc' = [pc EXCEPT ![t] = "user"] /\ op' = [op EXCEPT ![t] = "none"]
             /\ UNCHANGED <<state, wakeup, sub_list>>
    BY <1>1, <2>1, <2>2, ReadOther DEF WaitsKey
  <2>3. CASE kernel_end(t, "fail")
    BY <1>1, <2>1, <2>3, ReadEnd
  <2>4. CASE UNCHANGED <<state, wakeup, sub_list, pc, op>>
    BY <2>4, ReadSame
  <2>5. QED
    BY <1>8, <2>2, <2>3, <2>4 DEF sched_do_execve, event
<1>9. CASE wait_poll(t)
  <2>1. state[t] = "RUNNING" /\ pc[t] = "poll" /\ UNCHANGED <<wakeup, sub_list>>
    BY <1>2, <1>9 DEF wait_poll, InCall, event
  <2>2. CASE pc' = [pc EXCEPT ![t] = "again"] /\ UNCHANGED <<state, op>>
    BY <1>1, <2>1, <2>2, ReadOther DEF WaitsKey
  <2>3. CASE UNCHANGED <<state, pc, op>>
    BY <2>1, <2>3, ReadSame
  <2>4. ASSUME NEW z, state[z] = "ZOMBIE", state' = [state EXCEPT ![z] = "freed"],
               pc' = [pc EXCEPT ![t] = "user"], op' = [op EXCEPT ![t] = "none"]
        PROVE  ReadKept
    <3>1. \A u \in Tasks : state'[u] = state[u] \/ (state[u] = "ZOMBIE" /\ state'[u] = "freed")
      BY <1>1, <2>4
    <3>2. QED
      BY <1>1, <2>1, <2>4, <3>1, ReadOther DEF WaitsKey
  <2>5. QED
    BY <1>9, <2>2, <2>3, <2>4, Zenon DEF wait_poll
<1>10. QED
  BY <1>3, <1>4, <1>5, <1>6, <1>7, <1>8, <1>9 DEF KernelStep

\* kevent_subscribe returns: the event it frees may still be on sub_list, but not
\* if there is one reader, which kevent_dispatch has woken.
LEMMA ReadReturn ==
  ASSUME SchedIInv, ReadIInv, NEW t \in Tasks, event_return(t)
  PROVE  ReadIInv'
<1>1. /\ TypeOK /\ state \in [Tasks -> {"none", "READY", "RUNNING", "WAITING", "ZOMBIE", "freed"}]
      /\ wakeup \in [Tasks -> {"unknown", "sleep", "key", "null"}]
      /\ pc \in [Tasks -> {"start", "user", "again", "switch", "slept", "subscribed", "woken",
                           "add", "poll", "gone"}]
      /\ op \in [Tasks -> {"none", "sleep", "read", "execve", "exit", "fail", "wait"}]
  BY DEF SchedIInv, TypeOK
<1>2. state[t] = "RUNNING" /\ pc[t] = "woken"
  BY AtRuns DEF event_return, InCall
<1>3. /\ wakeup' = [wakeup EXCEPT ![t] = "null"] /\ pc' = [pc EXCEPT ![t] = "user"]
      /\ op' = [op EXCEPT ![t] = "none"] /\ sub_list' = FreeEvent(t) /\ UNCHANGED state
  BY DEF event_return
<1>4. \A u \in Tasks : /\ WaitsKey(u)' <=> WaitsKey(u)
                       /\ pc'[u] = "subscribed" => pc[u] = "subscribed"
                       /\ WaitsKey(u) => op'[u] = op[u]
  BY <1>1, <1>2, <1>3 DEF WaitsKey
<1>5. Waits'
  <2>1. Readings' = Readings
    BY <1>4 DEF Readings
  <2>2. Len(sub_list') = Len(sub_list)
    BY <1>1, <1>3, FreedEvents
  <2>3. EnoughEvents'
    BY <2>1, <2>2 DEF ReadIInv, Waits, EnoughEvents
  <2>4. QED
    BY <1>3, <1>4, <2>3 DEF ReadIInv, Waits
<1>6. ASSUME OneReader PROVE SubsWait'
  <2>1. SubsWait /\ ~Contains(sub_list, t)
    BY <1>2, <1>6 DEF ReadIInv, SubsWait, WaitsKey
  <2>2. sub_list' = sub_list
    <3>1. sub_list \in Seq(Tasks) /\ DOMAIN sub_list = 1 .. Len(sub_list)
      BY <2>1 DEF SubsWait
    <3>2. \A i \in DOMAIN sub_list : sub_list[i] # t
      BY <2>1, <3>1 DEF Contains
    <3>3. sub_list = [i \in DOMAIN sub_list |-> sub_list[i]]
      BY <3>1
    <3>4. QED
      BY <1>3, <3>2, <3>3 DEF FreeEvent
  <2>3. QED
    BY <1>4, <2>1, <2>2 DEF SubsWait
<1>7. QED
  BY <1>5, <1>6 DEF ReadIInv, OneReader

\* What a task enters, other than a read.
LEMMA ReadCall ==
  ASSUME SchedIInv, ReadIInv, NEW t \in Tasks, SystemCall(t), ~kevent_subscribe(t)
  PROVE  ReadKept
<1>1. /\ TypeOK /\ state \in [Tasks -> {"none", "READY", "RUNNING", "WAITING", "ZOMBIE", "freed"}]
      /\ wakeup \in [Tasks -> {"unknown", "sleep", "key", "null"}]
      /\ pc \in [Tasks -> {"start", "user", "again", "switch", "slept", "subscribed", "woken",
                           "add", "poll", "gone"}]
      /\ op \in [Tasks -> {"none", "sleep", "read", "execve", "exit", "fail", "wait"}]
  BY DEF SchedIInv, TypeOK
<1>2. Calls(t)
  BY DEF SystemCall, sched_sleep, sched_fork, sched_spawn, sched_execve, sched_exit, sched_wait
<1>3. state[t] = "RUNNING" /\ pc[t] = "user"
  BY <1>2, AtRuns DEF Calls, InCall
<1>4. CASE sched_sleep(t)
  <2>1. CASE UNCHANGED <<state, wakeup, pc, op>>
    BY <1>4, <2>1, ReadSame DEF sched_sleep
  <2>2. CASE /\ wakeup' = [wakeup EXCEPT ![t] = "sleep"]
             /\ state' = [state EXCEPT ![t] = "WAITING"]
             /\ pc' = [pc EXCEPT ![t] = "again"] /\ op' = [op EXCEPT ![t] = "sleep"]
    <3>1. sub_list' = sub_list
      BY <1>4 DEF sched_sleep
    <3>2. QED
      BY <1>1, <1>3, <2>2, <3>1, ReadOther DEF WaitsKey
  <2>3. QED
    BY <1>4, <2>1, <2>2 DEF sched_sleep
<1>5. CASE sched_fork(t) \/ sched_spawn(t)
  <2>1. CASE UNCHANGED <<state, wakeup, sub_list, pc, op>>
    BY <2>1, ReadSame
  <2>2. ASSUME NEW g, NEW f, Create(t, g, f) PROVE ReadKept
    <3>1. /\ state' = [state EXCEPT ![next_tid] = "READY"] /\ pc' = [pc EXCEPT ![t] = "add"]
          /\ UNCHANGED <<wakeup, sub_list, op>>
      BY <2>2 DEF Create, event
    <3>2. state[next_tid] = "none"
      <4>1. next_tid \in Tasks /\ next_tid >= next_tid
        BY <2>2, TidTypes DEF Create
      <4>2. QED
        BY <4>1 DEF SchedIInv, Placed
    <3>3. \A u \in Tasks : state'[u] = state[u] \/ (state[u] = "none" /\ state'[u] = "READY")
      BY <1>1, <3>1, <3>2
    <3>4. QED
      BY <1>1, <1>3, <3>1, <3>3, ReadOther DEF WaitsKey
  <2>3. QED
    BY <1>5, <2>1, <2>2 DEF sched_fork, sched_spawn, event
<1>6. CASE sched_execve(t)
  <2>1. /\ state' = [state EXCEPT ![t] = "READY"] /\ wakeup' = [wakeup EXCEPT ![t] = "unknown"]
        /\ pc' = [pc EXCEPT ![t] = "again"] /\ op' = [op EXCEPT ![t] = "execve"]
        /\ sub_list' = sub_list
    BY <1>6 DEF sched_execve
  <2>2. QED
    BY <1>1, <1>3, <2>1, ReadOther DEF WaitsKey
<1>7. CASE sched_exit(t)
  BY <1>1, <1>3, <1>7, ReadEnd DEF sched_exit
<1>8. CASE sched_wait(t)
  <2>1. /\ pc' = [pc EXCEPT ![t] = "poll"] /\ op' = [op EXCEPT ![t] = "wait"]
        /\ UNCHANGED <<state, wakeup, sub_list>>
    BY <1>8 DEF sched_wait, event
  <2>2. QED
    BY <1>1, <1>3, <2>1, ReadOther DEF WaitsKey
<1>9. QED
  BY <1>4, <1>5, <1>6, <1>7, <1>8 DEF SystemCall

\* kevent_subscribe: one more event, for one more reader.
LEMMA ReadSubscribe ==
  ASSUME SchedIInv, ReadIInv, NEW t \in Tasks, kevent_subscribe(t)
  PROVE  ReadIInv'
<1>1. /\ state \in [Tasks -> {"none", "READY", "RUNNING", "WAITING", "ZOMBIE", "freed"}]
      /\ pc \in [Tasks -> {"start", "user", "again", "switch", "slept", "subscribed", "woken",
                           "add", "poll", "gone"}]
      /\ op \in [Tasks -> {"none", "sleep", "read", "execve", "exit", "fail", "wait"}]
  BY DEF SchedIInv, TypeOK
<1>2. sub_list \in Seq(Tasks \union {Stale})
  BY DEF SchedIInv, TypeOK
<1>3. state[t] = "RUNNING" /\ pc[t] = "user" /\ op[t] = "none"
  BY AtRuns DEF kevent_subscribe, Calls, InCall, SchedIInv, Calling
<1>4. /\ t \in Readers /\ sub_list' = Append(sub_list, t)
      /\ pc' = [pc EXCEPT ![t] = "subscribed"] /\ op' = [op EXCEPT ![t] = "read"]
      /\ UNCHANGED <<state, wakeup>>
  BY DEF kevent_subscribe
<1>5. \A u \in Tasks : u # t => pc'[u] = pc[u] /\ op'[u] = op[u]
  BY <1>1, <1>4
<1>6. pc'[t] = "subscribed" /\ op'[t] = "read"
  BY <1>1, <1>4
<1>7. EnoughEvents'
  <2>1. Readings' = Readings \union {t}
    BY <1>4, <1>5, <1>6 DEF Readings, WaitsKey
  <2>2. Cardinality(Readings') =< Cardinality(Readings) + 1 /\ Cardinality(Readings') \in Nat
    <3>1. /\ IsFiniteSet(Readings \union {t})
          /\ Cardinality(Readings \union {t}) =
               IF t \in Readings THEN Cardinality(Readings) ELSE Cardinality(Readings) + 1
      BY WokenReadings, FS_AddElement
    <3>2. QED
      BY <2>1, <3>1, WokenReadings
  <2>3. Len(sub_list') = Len(sub_list) + 1 /\ Len(sub_list) \in Nat
    BY <1>2, <1>4
  <2>4. Cardinality(Readings) =< Len(sub_list) /\ Cardinality(Readings) \in Nat
    BY WokenReadings DEF ReadIInv, Waits
  <2>5. QED
    BY <2>2, <2>3, <2>4, WokenReadings
<1>8. Waits'
  BY <1>3, <1>4, <1>5, <1>7 DEF Waits, ReadIInv
<1>9. ASSUME OneReader PROVE SubsWait'
  <2>1. SubsWait /\ sub_list \in Seq(Tasks) /\ \A u \in Tasks : ~Contains(sub_list, u)
    BY <1>3, <1>4, <1>9 DEF ReadIInv, SubsWait, OneReader
  <2>2. /\ sub_list' \in Seq(Tasks) /\ IsInjective(sub_list')
        /\ \A u \in Tasks : Contains(sub_list', u) <=> u = t
    BY <1>4, <2>1, PushEntry DEF SubsWait
  <2>3. WaitsKey(t)'
    BY <1>6 DEF WaitsKey
  <2>4. QED
    BY <1>4, <1>6, <2>2, <2>3 DEF SubsWait
<1>10. QED
  BY <1>8, <1>9 DEF ReadIInv, OneReader

\* The keyboard interrupt: if it removes an event it has woken a reader, and
\* with one reader it was that one's event.
LEMMA ReadKey ==
  ASSUME SchedIInv, ReadIInv, keyboard_irq
  PROVE  ReadIInv'
<1>1. active \in Seq(Tasks)
  BY DEF SchedIInv, TypeOK
<1>2. sub_list \in Seq(Tasks \union {Stale})
  BY DEF SchedIInv, TypeOK
<1>3. CASE halted' = "null task" /\ UNCHANGED <<state, sub_list>>
  <2>1. ReadKept
    BY <1>3, ReadSame DEF keyboard_irq
  <2>2. QED
    BY <2>1, ReadFrame DEF SchedIInv
<1>4. CASE /\ sub_list # <<>>
           /\ state' = [t \in Tasks |-> IF t \in Resumed THEN "READY" ELSE state[t]]
           /\ sub_list' = Subscribed
  <2>1. UNCHANGED <<wakeup, pc, op>>
    BY DEF keyboard_irq
  <2>2. \A u \in Tasks : state'[u] = IF u \in Resumed THEN "READY" ELSE state[u]
    BY <1>4
  <2>3. CASE Resumed = {}
    <3>1. sub_list' = sub_list /\ \A u \in Tasks : state'[u] = state[u]
      BY <1>4, <2>2, <2>3 DEF Subscribed
    <3>2. ReadKept
      BY <2>1, <3>1 DEF ReadKept, WaitsKey, ReadIInv, Waits
    <3>3. QED
      BY <3>2, ReadFrame DEF SchedIInv
  <2>4. CASE Resumed # {}
    <3>1. PICK r \in Resumed : TRUE
      BY <2>4
    <3>2. r \in Tasks /\ state[r] = "WAITING" /\ wakeup[r] = "key" /\ pc[r] # "subscribed"
      <4>1. r \in ToSet(active) /\ state[r] = "WAITING" /\ wakeup[r] = "key"
        BY <3>1 DEF Resumed
      <4>2. r \in Tasks
        BY <1>1, <4>1 DEF ToSet
      <4>3. QED
        BY <4>1, <4>2 DEF ReadIInv, Waits
    <3>3. /\ sub_list' = Tail(sub_list) /\ Len(sub_list') = Len(sub_list) - 1
          /\ Len(sub_list) \in Nat /\ Len(sub_list) # 0
      <4>1. sub_list' = Tail(sub_list)
        BY <1>4, <2>4 DEF Subscribed
      <4>2. Len(Tail(sub_list)) = Len(sub_list) - 1 /\ Len(sub_list) \in Nat /\ Len(sub_list) # 0
        BY <1>2, <1>4
      <4>3. QED
        BY <4>1, <4>2
    <3>4. EnoughEvents'
      <4>1. r \in Readings
        BY <3>2 DEF Readings, WaitsKey
      <4>2. Readings' \subseteq Readings \ {r}
        BY <2>1, <2>2, <3>1, <3>2 DEF Readings, WaitsKey
      <4>3. IsFiniteSet(Readings \ {r}) /\ Cardinality(Readings \ {r}) = Cardinality(Readings) - 1
        BY <4>1, WokenReadings, FS_RemoveElement
      <4>4. Cardinality(Readings') \in Nat /\ Cardinality(Readings') =< Cardinality(Readings \ {r})
        BY <4>2, <4>3, FS_Subset, FS_CardinalityType
      <4>5. Cardinality(Readings) =< Len(sub_list) /\ Cardinality(Readings) \in Nat
        BY WokenReadings DEF ReadIInv, Waits
      <4>6. Cardinality(Readings') =< Len(sub_list')
        BY <3>3, <4>3, <4>4, <4>5
      <4>7. QED
        BY <4>6, WokenReadings
    <3>5. Waits'
      BY <2>1, <2>2, <3>4 DEF Waits, ReadIInv
    <3>6. ASSUME OneReader PROVE SubsWait'
      <4>1. sub_list \in Seq(Tasks) /\ IsInjective(sub_list) /\ \A u \in Tasks : Contains(sub_list, u) => u \in Readers
        BY <3>6 DEF ReadIInv, SubsWait
      <4>2. DOMAIN sub_list = 1 .. Len(sub_list) /\ \A i \in 1 .. Len(sub_list) : sub_list[i] \in Tasks
        BY <4>1
      <4>3. \A i, j \in 1 .. Len(sub_list) : i = j
        <5>1. \A i \in 1 .. Len(sub_list) : sub_list[i] \in Readers
          BY <4>1, <4>2 DEF Contains
        <5>2. QED
          BY <3>6, <4>1, <4>2, <5>1 DEF OneReader, IsInjective
      <4>4. Len(sub_list') = 0
        <5>1. \A n \in Nat : n # 0 /\ (\A i, j \in 1 .. n : i = j) => n - 1 = 0
          <6>1. SUFFICES ASSUME NEW n \in Nat, n # 0, \A i, j \in 1 .. n : i = j PROVE n - 1 = 0
            OBVIOUS
          <6>2. 1 \in 1 .. n /\ n \in 1 .. n
            BY <6>1
          <6>3. n = 1
            BY <6>1, <6>2
          <6>4. QED
            BY <6>3
        <5>2. QED
          BY <3>3, <4>3, <5>1, Zenon
      <4>5. sub_list' \in Seq(Tasks) /\ DOMAIN sub_list' = 1 .. Len(sub_list')
        <5>1. Tail(sub_list) \in Seq(Tasks)
          BY <1>4, <4>1
        <5>2. QED
          BY <3>3, <5>1
      <4>6. \A i \in DOMAIN sub_list' : FALSE
        BY <4>4, <4>5
      <4>7. IsInjective(sub_list') /\ \A u \in Tasks : ~Contains(sub_list', u)
        BY <4>5, <4>6 DEF IsInjective, Contains
      <4>8. QED
        BY <4>5, <4>7 DEF SubsWait
    <3>7. QED
      BY <3>5, <3>6 DEF ReadIInv, OneReader
  <2>5. QED
    BY <2>3, <2>4
<1>5. QED
  BY <1>3, <1>4 DEF keyboard_irq

\* Every step keeps the readers' invariant.
LEMMA NextRead == SchedIInv /\ ReadIInv /\ [Next]_vars => ReadIInv'
<1> SUFFICES ASSUME SchedIInv, ReadIInv, [Next]_vars PROVE ReadIInv'
  OBVIOUS
<1>0. TypeOK
  BY DEF SchedIInv
<1>1. CASE tick
  <2>1. /\ ChooseNext /\ op' = op
        /\ pc' = [t \in Tasks |->
                    IF /\ t = cpu
                       /\ \/ op[t] = "execve" /\ pc[t] \in {"again", "switch"}
                          \/ op[t] = "exit" /\ pc[t] = "again"
                    THEN After(op[t]) ELSE pc[t]]
    BY <1>1 DEF tick
  <2>2. \A u \in Tasks : /\ pc'[u] = "subscribed" <=> pc[u] = "subscribed"
                         /\ pc'[u] = "add" <=> pc[u] = "add"
    BY <2>1, AfterCases
  <2>3. QED
    BY <1>0, <2>1, <2>2, ReadChoose, ReadFrame
<1>2. CASE keyboard_irq
  BY <1>2, ReadKey
<1>3. ASSUME NEW t \in Tasks, TimePasses(t) \/ KernelStep(t) \/ SystemCall(t)
      PROVE  ReadIInv'
  <2>1. CASE TimePasses(t)
    BY <1>0, <2>1, ReadSame, ReadFrame DEF TimePasses
  <2>2. CASE KernelStep(t)
    BY <1>0, <2>2, ReadKernel, ReadReturn, ReadFrame
  <2>3. CASE kevent_subscribe(t)
    BY <2>3, ReadSubscribe
  <2>4. CASE SystemCall(t) /\ ~kevent_subscribe(t)
    BY <1>0, <2>4, ReadCall, ReadFrame
  <2>5. QED
    BY <1>3, <2>1, <2>2, <2>3, <2>4
<1>4. CASE UNCHANGED vars
  BY <1>0, <1>4, ReadSame, ReadFrame DEF vars
<1>5. QED
  BY <1>1, <1>2, <1>3, <1>4 DEF Next

\* At first nobody reads.
LEMMA InitRead == Init => ReadIInv
<1> SUFFICES ASSUME Init PROVE ReadIInv
  OBVIOUS
<1>1. sub_list = <<>> /\ \A t \in Tasks : ~WaitsKey(t) /\ pc[t] # "subscribed"
  BY DEF Init, WaitsKey
<1>2. Len(sub_list) = 0 /\ DOMAIN sub_list = 1 .. 0
  BY <1>1
<1>3. Readings = {}
  BY <1>1 DEF Readings
<1>4. EnoughEvents
  BY <1>2, <1>3, FS_EmptySet, WokenReadings
<1>5. SubsWait
  BY <1>1, <1>2 DEF SubsWait, IsInjective, Contains
<1>6. QED
  BY <1>1, <1>4, <1>5 DEF ReadIInv, Waits

\* The readers' invariant holds along every behaviour.
THEOREM SchedReaders == Spec => []ReadIInv
<1>1. QED
  BY InitRead, NextRead, SchedInvariant, PTL DEF Spec

\* While no freed event is on sub_list, it holds as many events as there are
\* readers that wait or are about to, for any number of readers: kevent_dispatch
\* removes an event only when it has woken somebody.
THEOREM SchedReadersCanBeWoken == Spec => []ReadersCanBeWoken
<1>1. ReadIInv => ReadersCanBeWoken
  BY DEF ReadIInv, Waits, EnoughEvents, Readings, WaitsKey, ReadersCanBeWoken
<1>2. QED
  BY <1>1, SchedReaders, PTL

\* With one reader of the terminal, no event that kevent_subscribe has freed is
\* on sub_list.  (With two, kevent_dispatch may remove the event of a reader it
\* has not woken.)
THEOREM SchedNoDanglingSub ==
  ASSUME OneReader
  PROVE  Spec => []NoDanglingSub
<1>1. SchedIInv /\ ReadIInv => NoDanglingSub
  <2>1. SUFFICES ASSUME SchedIInv, ReadIInv PROVE NoDanglingSub
    OBVIOUS
  <2>2. SubsWait /\ sub_list \in Seq(Tasks)
    BY <2>1 DEF ReadIInv, SubsWait
  <2>3. \A t \in Tasks : t # Stale
    BY Distinct
  <2>4. \A t \in ToSet(sub_list) : t \in Tasks /\ Contains(sub_list, t)
    BY <2>2, InToSet DEF ToSet
  <2>5. QED
    BY <2>2, <2>3, <2>4 DEF NoDanglingSub, SubsWait
<1>2. QED
  BY <1>1, SchedInvariant, SchedReaders, PTL

-----------------------------------------------------------------------------
(* Contexts, up to the first tick between spin_unlock_irq and cli.         *)

\* EndIsFinal, of one step.
Ends ==
  \A t \in Tasks :
    state[t] \in {"ZOMBIE", "freed"} =>
      /\ state'[t] \in {state[t], "freed"}
      /\ cpu' = t => cpu = t

\* A step that switches no stack, revives nobody and frees nobody who executes.
OwnKept ==
  /\ UNCHANGED <<cpu, tstack>> /\ halted' # "stack"
  /\ \A u \in Tasks : /\ state[u] \in {"ZOMBIE", "freed"} => state'[u] \in {state[u], "freed"}
                      /\ cpu = u => state'[u] \notin {"none", "freed"}
                      /\ op'[u] = "execve" /\ pc'[u] \in {"again", "switch"} =>
                           op[u] = "execve" /\ pc[u] \in {"again", "switch"}

LEMMA OwnFrame ==
  ASSUME SchedIInv, SchedIInv', OwnStacks, OwnKept
  PROVE  OwnStacks' /\ Ends
<1>1. \A u \in Tasks : state'[u] \in {"none", "READY", "RUNNING", "WAITING"} =>
                         state[u] \in {"none", "READY", "RUNNING", "WAITING"}
  <2>1. \A u \in Tasks : state[u] \in {"none", "READY", "RUNNING", "WAITING", "ZOMBIE", "freed"}
    BY DEF SchedIInv, TypeOK
  <2>2. QED
    BY <2>1 DEF OwnKept
<1>2. OwnStacks'
  BY <1>1 DEF OwnStacks, OwnKept
<1>3. Ends
  BY DEF Ends, OwnKept
<1>4. QED
  BY <1>2, <1>3

\* A step of the task that executes, on its own state and call.
LEMMA OwnCall ==
  ASSUME OwnStacks, NEW t \in Tasks, cpu = t, state[t] \notin {"ZOMBIE", "freed"},
         UNCHANGED <<cpu, tstack>>, halted' # "stack",
         state'[t] \notin {"none", "freed"},
         op'[t] = "execve" /\ pc'[t] \in {"again", "switch"} =>
           op[t] = "execve" /\ pc[t] \in {"again", "switch"},
         \A u \in Tasks : u # t => /\ op'[u] = op[u] /\ pc'[u] = pc[u]
                                   /\ \/ state'[u] = state[u]
                                      \/ state[u] = "none"
                                      \/ state[u] = "ZOMBIE" /\ state'[u] = "freed"
  PROVE  OwnKept
<1>1. ASSUME NEW u \in Tasks
      PROVE  /\ state[u] \in {"ZOMBIE", "freed"} => state'[u] \in {state[u], "freed"}
             /\ cpu = u => state'[u] \notin {"none", "freed"}
             /\ op'[u] = "execve" /\ pc'[u] \in {"again", "switch"} =>
                  op[u] = "execve" /\ pc[u] \in {"again", "switch"}
  BY DEF OwnStacks
<1>2. QED
  BY <1>1 DEF OwnKept

\* Calls, and what a task does in the kernel, short of a switch.
LEMMA OwnTask ==
  ASSUME SchedIInv, OwnStacks, NEW t \in Tasks,
         \/ sleep_return(t) \/ sched_wait_event(t) \/ event_return(t)
         \/ sched_add(t) \/ sched_do_execve(t)
         \/ wait_poll(t)
         \/ sched_sleep(t) \/ kevent_subscribe(t) \/ sched_fork(t) \/ sched_spawn(t)
         \/ sched_exit(t) \/ sched_wait(t)
  PROVE  OwnKept
<1>1. /\ state \in [Tasks -> {"none", "READY", "RUNNING", "WAITING", "ZOMBIE", "freed"}]
      /\ pc \in [Tasks -> {"start", "user", "again", "switch", "slept", "subscribed", "woken",
                           "add", "poll", "gone"}]
      /\ op \in [Tasks -> {"none", "sleep", "read", "execve", "exit", "fail", "wait"}]
  BY DEF SchedIInv, TypeOK
<1>2. \A l \in InCall : At(t, l) => cpu = t /\ state[t] = "RUNNING" /\ pc[t] = l /\ halted # "stack"
  BY AtRuns DEF At, Live
<1>3. CASE sched_wait_event(t)
  <2>1. cpu = t /\ state[t] = "RUNNING" /\ pc[t] = "subscribed" /\ halted # "stack"
    BY <1>2, <1>3 DEF sched_wait_event, InCall
  <2>2. /\ state' = [state EXCEPT ![t] = "WAITING"] /\ pc' = [pc EXCEPT ![t] = "again"]
        /\ UNCHANGED <<cpu, tstack, op, halted>> /\ op[t] = "read"
    BY <1>3, <2>1 DEF sched_wait_event, context, SchedIInv, Calling
  <2>3. QED
    BY <1>1, <2>1, <2>2, OwnCall
<1>4. CASE sleep_return(t) \/ event_return(t)
  <2>1. cpu = t /\ state[t] = "RUNNING" /\ pc[t] \in {"slept", "woken"} /\ halted # "stack"
    BY <1>2, <1>4 DEF sleep_return, event_return, InCall
  <2>2. /\ pc' = [pc EXCEPT ![t] = "user"] /\ op' = [op EXCEPT ![t] = "none"]
        /\ UNCHANGED <<state, cpu, tstack, halted>>
    BY <1>4 DEF sleep_return, event_return, context
  <2>3. QED
    BY <1>1, <2>1, <2>2, OwnCall
<1>5. CASE sched_add(t)
  <2>1. cpu = t /\ state[t] = "RUNNING" /\ pc[t] = "add" /\ halted # "stack"
    BY <1>2, <1>5 DEF sched_add, InCall
  <2>2. pc' = [pc EXCEPT ![t] = "user"] /\ UNCHANGED <<state, cpu, tstack, op, halted>>
    BY <1>5 DEF sched_add, context
  <2>3. QED
    BY <1>1, <2>1, <2>2, OwnCall
<1>6. ASSUME NEW call \in {"exit", "fail"}, kernel_end(t, call), cpu = t, state[t] = "RUNNING",
             halted # "stack"
      PROVE  OwnKept
  <2>1. /\ state' = [state EXCEPT ![t] = "ZOMBIE"] /\ pc' = [pc EXCEPT ![t] = "again"]
        /\ op' = [op EXCEPT ![t] = call] /\ UNCHANGED <<cpu, tstack, halted>>
    BY <1>6 DEF kernel_end, context
  <2>2. QED
    BY <1>1, <1>6, <2>1, OwnCall
<1>7. CASE sched_do_execve(t)
  <2>1. cpu = t /\ state[t] = "RUNNING" /\ pc[t] = "start" /\ halted # "stack"
    BY <1>2, <1>7 DEF sched_do_execve, InCall
  <2>2. CASE /\ pc' = [pc EXCEPT ![t] = "user"] /\ op' = [op EXCEPT ![t] = "none"]
             /\ UNCHANGED <<state, cpu, tstack, halted>>
    BY <1>1, <2>1, <2>2, OwnCall
  <2>3. CASE kernel_end(t, "fail")
    BY <1>6, <2>1, <2>3
  <2>4. CASE halted' = "null area" /\ UNCHANGED <<state, cpu, tstack, pc, op>>
    BY <1>1, <2>1, <2>4, OwnCall
  <2>5. QED
    BY <1>7, <2>2, <2>3, <2>4 DEF sched_do_execve, context
<1>8. CASE wait_poll(t)
  <2>1. /\ cpu = t /\ state[t] = "RUNNING" /\ pc[t] = "poll" /\ halted # "stack" /\ op[t] = "wait"
        /\ UNCHANGED <<cpu, tstack>>
    BY <1>2, <1>8 DEF wait_poll, InCall, context, SchedIInv, Calling
  <2>2. CASE pc' = [pc EXCEPT ![t] = "again"] /\ UNCHANGED <<state, op, halted>>
    BY <1>1, <2>1, <2>2, OwnCall
  <2>3. CASE halted' = "panic" /\ UNCHANGED <<state, pc, op>>
    BY <1>1, <2>1, <2>3, OwnCall
  <2>4. ASSUME NEW z, state[z] = "ZOMBIE", state' = [state EXCEPT ![z] = "freed"],
               pc' = [pc EXCEPT ![t] = "user"], op' = [op EXCEPT ![t] = "none"], halted' = halted
        PROVE  OwnKept
    <3>1. \A u \in Tasks : state'[u] = state[u] \/ (state[u] = "ZOMBIE" /\ state'[u] = "freed")
      BY <1>1, <2>4
    <3>2. QED
      BY <1>1, <2>1, <2>4, <3>1, OwnCall
  <2>5. QED
    BY <1>8, <2>2, <2>3, <2>4, Zenon DEF wait_poll
<1>9. Calls(t) => cpu = t /\ state[t] = "RUNNING" /\ pc[t] = "user" /\ halted # "stack"
  BY <1>2 DEF Calls, InCall
<1>10. CASE sched_sleep(t)
  <2>1. cpu = t /\ state[t] = "RUNNING" /\ pc[t] = "user" /\ halted # "stack" /\ UNCHANGED <<cpu, tstack>>
    BY <1>9, <1>10 DEF sched_sleep, context
  <2>2. CASE halted' = "null event" /\ UNCHANGED <<state, pc, op>>
    BY <1>1, <2>1, <2>2, OwnCall
  <2>3. CASE /\ state' = [state EXCEPT ![t] = "WAITING"] /\ pc' = [pc EXCEPT ![t] = "again"]
             /\ op' = [op EXCEPT ![t] = "sleep"] /\ halted' = halted
    BY <1>1, <2>1, <2>3, OwnCall
  <2>4. QED
    BY <1>10, <2>2, <2>3 DEF sched_sleep
<1>11. CASE kevent_subscribe(t)
  <2>1. cpu = t /\ state[t] = "RUNNING" /\ pc[t] = "user" /\ halted # "stack"
    BY <1>9, <1>11 DEF kevent_subscribe
  <2>2. /\ pc' = [pc EXCEPT ![t] = "subscribed"] /\ op' = [op EXCEPT ![t] = "read"]
        /\ UNCHANGED <<state, cpu, tstack>> /\ halted' # "stack"
    BY <1>11 DEF kevent_subscribe, context, Touches
  <2>3. QED
    BY <1>1, <2>1, <2>2, OwnCall
<1>12. CASE sched_fork(t) \/ sched_spawn(t)
  <2>1. cpu = t /\ state[t] = "RUNNING" /\ pc[t] = "user" /\ halted # "stack"
    BY <1>9, <1>12 DEF sched_fork, sched_spawn
  <2>2. CASE UNCHANGED <<state, cpu, tstack, pc, op, halted>>
    BY <1>1, <2>1, <2>2, OwnCall
  <2>3. ASSUME NEW g, NEW f, Create(t, g, f) PROVE OwnKept
    <3>1. /\ state' = [state EXCEPT ![next_tid] = "READY"] /\ pc' = [pc EXCEPT ![t] = "add"]
          /\ UNCHANGED <<cpu, tstack, op, halted>>
      BY <2>3 DEF Create, context
    <3>2. state[next_tid] = "none"
      <4>1. next_tid \in Tasks /\ next_tid >= next_tid
        BY <2>3, TidTypes DEF Create
      <4>2. QED
        BY <4>1 DEF SchedIInv, Placed
    <3>3. \A u \in Tasks : state'[u] = state[u] \/ (state[u] = "none" /\ state'[u] = "READY")
      BY <1>1, <3>1, <3>2
    <3>4. QED
      BY <1>1, <2>1, <3>1, <3>3, OwnCall
  <2>4. QED
    BY <1>12, <2>2, <2>3 DEF sched_fork, sched_spawn, context
<1>13. CASE sched_exit(t)
  BY <1>6, <1>9, <1>13 DEF sched_exit
<1>14. CASE sched_wait(t)
  <2>1. cpu = t /\ state[t] = "RUNNING" /\ pc[t] = "user" /\ halted # "stack"
    BY <1>9, <1>14 DEF sched_wait
  <2>2. /\ pc' = [pc EXCEPT ![t] = "poll"] /\ op' = [op EXCEPT ![t] = "wait"]
        /\ UNCHANGED <<state, cpu, tstack, halted>>
    BY <1>14 DEF sched_wait, context
  <2>3. QED
    BY <1>1, <2>1, <2>2, OwnCall
<1>15. QED
  BY <1>3, <1>4, <1>5, <1>7, <1>8, <1>10, <1>11, <1>12, <1>13, <1>14

\* A switch that finds every context in its own place.
LEMMA OwnSwitch ==
  ASSUME SchedIInv, SchedIInv', NEW next \in Tasks \union {Idle}, NEW saved,
         saved \in [Tasks \union {Idle} -> Tasks \union {Idle, Stale, Old}],
         saved[Idle] = Idle, halted # "stack",
         \A u \in Tasks : state[u] \in {"none", "READY", "RUNNING", "WAITING"} => saved[u] = u,
         \A u \in Tasks : state[u] \in {"ZOMBIE", "freed"} => state'[u] = state[u],
         next \in Tasks => /\ state[next] \in {"READY", "RUNNING", "WAITING"}
                           /\ state'[next] \notin {"none", "freed"},
         \A u \in Tasks : ~(op'[u] = "execve" /\ pc'[u] \in {"again", "switch"}),
         \/ saved[next] \in {Stale, Old}
         \/ /\ halted' = halted /\ cpu' = saved[next]
            /\ tstack' = [saved EXCEPT ![next] = Stale]
  PROVE  OwnStacks' /\ Ends
<1>1. saved[next] = next /\ next \notin {Stale, Old}
  BY Distinct
<1>2. halted' # "stack" /\ cpu' = next /\ tstack' = [saved EXCEPT ![next] = Stale]
  BY <1>1
<1>3. \A n \in Tasks \union {Idle} : n # next => tstack'[n] = saved[n]
  BY <1>2
<1>4. \A u \in Tasks : state'[u] \in {"none", "READY", "RUNNING", "WAITING"} =>
                         state[u] \in {"none", "READY", "RUNNING", "WAITING"}
  <2>1. \A u \in Tasks : state[u] \in {"none", "READY", "RUNNING", "WAITING", "ZOMBIE", "freed"}
    BY DEF SchedIInv, TypeOK
  <2>2. QED
    BY <2>1
<1>5. OwnStacks'
  <2>1. \A u \in Tasks : u # cpu' /\ state'[u] \in {"none", "READY", "RUNNING", "WAITING"} =>
                           tstack'[u] = u
    BY <1>2, <1>3, <1>4
  <2>2. cpu' # Idle => tstack'[Idle] = Idle
    BY <1>2, <1>3
  <2>3. QED
    BY <1>2, <2>1, <2>2 DEF OwnStacks
<1>6. Ends
  BY <1>2 DEF Ends
<1>7. QED
  BY <1>5, <1>6

\* The switch of a task: it saves its own stack, has got a new one or has ended.
LEMMA OwnSwitchTo ==
  ASSUME SchedIInv, SchedIInv', OwnStacks, NEW t \in Tasks, switch_to(t)
  PROVE  OwnStacks' /\ Ends
<1>1. /\ TypeOK /\ Calling /\ Placed /\ Executing
      /\ cpu = t /\ pc[t] = "switch" /\ halted # "stack"
  BY DEF SchedIInv, Stacks, switch_to, At, Live
<1>2. /\ UNCHANGED <<state, running>>
      /\ pc' = [pc EXCEPT ![t] = After(op[t])] /\ op' = op
  BY DEF switch_to, queues
<1>3. \A u \in Tasks : ~(op'[u] = "execve" /\ pc'[u] \in {"again", "switch"})
  <2>1. pc'[t] = After(op[t]) /\ op'[t] = op[t]
    BY <1>1, <1>2 DEF TypeOK
  <2>2. ~(op'[t] = "execve" /\ pc'[t] \in {"again", "switch"})
    BY <2>1, AfterCases
  <2>3. \A u \in Tasks : u # t => /\ pc'[u] = pc[u] /\ op'[u] = op[u]
                                  /\ ~(op[u] = "execve" /\ pc[u] \in {"again", "switch"})
    BY <1>1, <1>2 DEF TypeOK, OwnStacks
  <2>4. QED
    BY <2>2, <2>3
<1>4. running \in Tasks \union {Idle}
  BY <1>1, Distinct DEF Executing, TypeOK
<1>5. running \in Tasks => state[running] \in {"READY", "RUNNING", "WAITING"}
  BY <1>1 DEF Placed
<1> DEFINE curr == IF op[t] \in {"exit", "fail"} THEN Null ELSE t
           sv == IF Saves(curr) THEN [tstack EXCEPT ![curr] = CpuStack] ELSE tstack
<1>6. \/ sv[running] \in {Stale, Old}
      \/ halted' = halted /\ cpu' = sv[running] /\ tstack' = [sv EXCEPT ![running] = Stale]
  BY DEF switch_to, SwitchTo
<1>7. /\ tstack \in [Tasks \union {Idle} -> Tasks \union {Idle, Stale, Old}]
      /\ tstack[Idle] = Idle
      /\ \A u \in Tasks : u # t /\ state[u] \in {"none", "READY", "RUNNING", "WAITING"} => tstack[u] = u
  BY <1>1, Distinct DEF TypeOK, OwnStacks
<1>8. /\ sv \in [Tasks \union {Idle} -> Tasks \union {Idle, Stale, Old}]
      /\ sv[Idle] = Idle
      /\ \A u \in Tasks : state[u] \in {"none", "READY", "RUNNING", "WAITING"} => sv[u] = u
  <2>1. CASE op[t] \in {"exit", "fail"}
    <3>1. sv = tstack /\ state[t] \in {"ZOMBIE", "freed"}
      BY <1>1, <2>1 DEF Saves, Calling
    <3> HIDE DEF sv
    <3>2. QED
      BY <1>7, <3>1
  <2>2. CASE op[t] = "execve"
    <3>1. sv = tstack /\ tstack[t] = t
      BY <1>1, <2>2 DEF Saves, OwnStacks
    <3> HIDE DEF sv
    <3>2. QED
      BY <1>7, <3>1
  <2>3. CASE op[t] \notin {"exit", "fail", "execve"}
    <3>1. sv = [tstack EXCEPT ![t] = t] /\ t # Idle
      BY <1>1, <2>3, Distinct DEF Saves, CpuStack
    <3> HIDE DEF sv
    <3>2. QED
      BY <1>7, <3>1
  <2>4. QED
    BY <2>1, <2>2, <2>3
<1> HIDE DEF sv
<1>9. PICK saved, next : saved = sv /\ next = running
  OBVIOUS
<1>10. next \in Tasks => /\ state[next] \in {"READY", "RUNNING", "WAITING"}
                         /\ state'[next] \notin {"none", "freed"}
  BY <1>2, <1>5, <1>9
<1>11. \A u \in Tasks : state[u] \in {"ZOMBIE", "freed"} => state'[u] = state[u]
  BY <1>2
<1>12. QED
  BY <1>1, <1>3, <1>4, <1>6, <1>8, <1>9, <1>10, <1>11, OwnSwitch

\* The tick, which does not come between the choice and the switch: it saves the
\* stack of the running task, or nothing.
LEMMA OwnTick ==
  ASSUME SchedIInv, SchedIInv', OwnStacks, ~torn', tick
  PROVE  OwnStacks' /\ Ends
<1>1. /\ TypeOK /\ Calling /\ Placed /\ Executing /\ halted # "stack"
      /\ cpu \in Tasks => pc[cpu] \notin {"start", "switch"}
  BY DEF SchedIInv, Stacks, tick, InterruptsOn, Live
<1>2. ChooseNext /\ op' = op
  BY DEF tick
<1>3. \A t \in Tasks : IF /\ t = cpu
                          /\ \/ op[t] = "execve" /\ pc[t] \in {"again", "switch"}
                             \/ op[t] = "exit" /\ pc[t] = "again"
                       THEN pc'[t] \in {"start", "gone"} ELSE pc'[t] = pc[t]
  BY AfterCases DEF tick
<1>4. \A u \in Tasks : ~(op'[u] = "execve" /\ pc'[u] \in {"again", "switch"})
  BY <1>2, <1>3 DEF OwnStacks
<1>5. /\ running' \in Tasks \union {Idle}
      /\ \A u \in Tasks : running' = u => /\ state[u] \in {"READY", "RUNNING", "WAITING"}
                                          /\ state'[u] = "RUNNING"
      /\ \A u \in Tasks : state[u] \in {"ZOMBIE", "freed"} => state'[u] = state[u]
  <2>1. \A p \in Tasks : pc'[p] = "add" <=> pc[p] = "add"
    BY <1>3
  <2>2. QED
    BY <1>1, <1>2, <2>1, ChoosePlaced
<1> DEFINE sv == IF Saves(running) THEN [tstack EXCEPT ![running] = CpuStack] ELSE tstack
<1>6. \/ sv[running'] \in {Stale, Old}
      \/ halted' = halted /\ cpu' = sv[running'] /\ tstack' = [sv EXCEPT ![running'] = Stale]
  BY DEF tick, SwitchTo
<1>7. /\ tstack \in [Tasks \union {Idle} -> Tasks \union {Idle, Stale, Old}]
      /\ cpu # Idle => tstack[Idle] = Idle
      /\ \A u \in Tasks : u # cpu /\ state[u] \in {"none", "READY", "RUNNING", "WAITING"} => tstack[u] = u
  BY <1>1 DEF TypeOK, OwnStacks
<1>8. /\ sv \in [Tasks \union {Idle} -> Tasks \union {Idle, Stale, Old}]
      /\ sv[Idle] = Idle
      /\ \A u \in Tasks : state[u] \in {"none", "READY", "RUNNING", "WAITING"} => sv[u] = u
  <2>1. CASE running = Null
    <3>1. sv = tstack /\ cpu # Idle
      BY <1>1, <2>1, Distinct DEF Saves, Executing
    <3>2. cpu \in Tasks => state[cpu] \in {"ZOMBIE", "freed"}
      BY <1>1, <2>1, Distinct DEF Executing, Calling
    <3> HIDE DEF sv
    <3>3. QED
      BY <1>7, <3>1, <3>2
  <2>2. CASE running # Null
    <3>1. running = cpu /\ running \in Tasks \union {Idle}
      BY <1>1, <2>2 DEF Executing, TypeOK
    <3>2. CASE cpu \in Tasks /\ op[cpu] = "execve"
      <4>1. pc[cpu] = "again"
        BY <1>1, <3>2 DEF Calling, TypeOK
      <4>2. sv = tstack /\ tstack[cpu] = cpu /\ cpu # Idle
        BY <3>1, <3>2, <4>1, Distinct DEF Saves, OwnStacks
      <4> HIDE DEF sv
      <4>3. QED
        BY <1>7, <4>2
    <3>3. CASE ~(cpu \in Tasks /\ op[cpu] = "execve")
      <4>1. sv = [tstack EXCEPT ![cpu] = cpu]
        BY <2>2, <3>1, <3>3 DEF Saves, CpuStack
      <4> HIDE DEF sv
      <4>2. QED
        BY <1>7, <3>1, <4>1
    <3>4. QED
      BY <3>2, <3>3
  <2>3. QED
    BY <2>1, <2>2
<1> HIDE DEF sv
<1>9. PICK saved, next : saved = sv /\ next = running'
  OBVIOUS
<1>10. next \in Tasks => /\ state[next] \in {"READY", "RUNNING", "WAITING"}
                         /\ state'[next] \notin {"none", "freed"}
  BY <1>5, <1>9
<1>11. QED
  BY <1>1, <1>4, <1>5, <1>6, <1>8, <1>9, <1>10, OwnSwitch

\* Every step keeps contexts in their own places, and ends stay ends.
LEMMA NextOwn ==
  ASSUME SchedIInv, SchedIInv', OwnStacks, ~torn', [Next]_vars
  PROVE  OwnStacks' /\ Ends
<1>1. CASE tick
  BY <1>1, OwnTick
<1>2. CASE keyboard_irq
  <2>1. /\ UNCHANGED <<cpu, tstack, pc, op>> /\ halted' # "stack"
        /\ \A u \in Tasks : \/ state'[u] = state[u]
                            \/ state[u] = "WAITING" /\ state'[u] = "READY"
    BY <1>2 DEF keyboard_irq, InterruptsOn, Live, context, Resumed, Touches
  <2>2. OwnKept
    BY <2>1 DEF OwnKept, OwnStacks
  <2>3. QED
    BY <2>2, OwnFrame
<1>3. ASSUME NEW t \in Tasks, TimePasses(t) \/ KernelStep(t) \/ SystemCall(t)
      PROVE  OwnStacks' /\ Ends
  <2>1. CASE TimePasses(t)
    <3>1. OwnKept
      BY <2>1 DEF TimePasses, context, OwnKept, OwnStacks
    <3>2. QED
      BY <3>1, OwnFrame
  <2>2. CASE sched_again(t)
    <3>1. /\ TypeOK /\ Placed /\ ChooseNext /\ cpu = t /\ pc[t] = "again" /\ halted' # "stack"
          /\ UNCHANGED <<cpu, tstack, op>> /\ pc' = [pc EXCEPT ![t] = "switch"]
      BY <2>2 DEF sched_again, At, Live, context, SchedIInv
    <3>2. \A u \in Tasks : pc'[u] = IF u = t THEN "switch" ELSE pc[u]
      BY <3>1 DEF TypeOK
    <3>3. \A p \in Tasks : pc'[p] = "add" <=> pc[p] = "add"
      BY <3>1, <3>2
    <3>4. \A u \in Tasks : /\ state[u] \in {"ZOMBIE", "freed"} => state'[u] = state[u]
                           /\ state'[u] \in {"none", "freed"} => state[u] = state'[u]
      BY <3>1, <3>3, ChoosePlaced
    <3>5. OwnKept
      BY <3>1, <3>2, <3>4 DEF OwnKept, OwnStacks
    <3>6. QED
      BY <3>5, OwnFrame
  <2>3. CASE switch_to(t)
    BY <2>3, OwnSwitchTo
  <2>4. CASE sched_execve(t)
    <3>1. /\ cpu = t /\ state[t] = "RUNNING" /\ pc[t] = "user"
          /\ \A n \in Tasks \union {Idle} : tstack[n] # t
      BY <2>4, AtRuns DEF sched_execve, Calls, InCall
    <3>2. /\ state' = [state EXCEPT ![t] = "READY"] /\ tstack' = [tstack EXCEPT ![t] = t]
          /\ pc' = [pc EXCEPT ![t] = "again"] /\ op' = [op EXCEPT ![t] = "execve"]
          /\ UNCHANGED <<cpu, halted>>
      BY <2>4 DEF sched_execve
    <3>3. /\ \A u \in Tasks : u # t => pc'[u] = pc[u] /\ op'[u] = op[u] /\ state'[u] = state[u]
          /\ state'[t] = "READY"
      <4>1. /\ state \in [Tasks -> {"none", "READY", "RUNNING", "WAITING", "ZOMBIE", "freed"}]
            /\ pc \in [Tasks -> {"start", "user", "again", "switch", "slept", "subscribed", "woken",
                                 "add", "poll", "gone"}]
            /\ op \in [Tasks -> {"none", "sleep", "read", "execve", "exit", "fail", "wait"}]
        BY DEF SchedIInv, TypeOK
      <4>2. QED
        BY <3>2, <4>1
    <3>4. \A n \in Tasks \union {Idle} : tstack'[n] = IF n = t THEN t ELSE tstack[n]
      BY <3>2 DEF SchedIInv, TypeOK
    <3>5. OwnStacks'
      BY <3>1, <3>2, <3>3, <3>4, Distinct DEF OwnStacks
    <3>6. Ends
      BY <3>1, <3>2, <3>3 DEF Ends
    <3>7. QED
      BY <3>5, <3>6
  <2>5. QED
    BY <1>3, <2>1, <2>2, <2>3, <2>4, OwnTask, OwnFrame DEF KernelStep, SystemCall
<1>4. CASE UNCHANGED vars
  BY <1>4 DEF vars, OwnStacks, Ends
<1>5. QED
  BY <1>1, <1>2, <1>3, <1>4 DEF Next

\* Before the first switch the fresh stacks are in their tasks' tstack.
LEMMA InitOwn == Init => OwnStacks
BY Distinct DEF Init, OwnStacks

\* The model goes no further than a tick between the choice and the switch.
LEMMA TornIsLast ==
  ASSUME torn, [Next]_vars
  PROVE  UNCHANGED vars
<1>1. ~Live /\ ~InterruptsOn /\ (\A t \in Tasks : \A l : ~At(t, l)) /\ (\A t \in Tasks : ~Calls(t))
  BY DEF Live, InterruptsOn, At, Calls
<1>2. ~tick /\ ~keyboard_irq
  BY <1>1 DEF tick, keyboard_irq
<1>3. ASSUME NEW t \in Tasks PROVE ~TimePasses(t) /\ ~KernelStep(t) /\ ~SystemCall(t)
  <2>1. ~TimePasses(t)
    BY <1>1 DEF TimePasses
  <2>2. ~KernelStep(t)
    BY <1>1 DEF KernelStep, sched_again, switch_to, sleep_return, sched_wait_event, event_return,
       sched_add, sched_do_execve, wait_poll
  <2>3. ~SystemCall(t)
    BY <1>1 DEF SystemCall, sched_sleep, kevent_subscribe, sched_fork, sched_spawn, sched_execve,
       sched_exit, sched_wait
  <2>4. QED
    BY <2>1, <2>2, <2>3
<1>4. QED
  BY <1>2, <1>3 DEF Next

\* Until then contexts stay in their own places, and ends stay ends.
LEMMA NextUntilTorn ==
  ASSUME SchedIInv, SchedIInv', torn \/ OwnStacks, [Next]_vars
  PROVE  (torn' \/ OwnStacks') /\ [~torn' => Ends]_vars
<1>1. CASE torn
  BY <1>1, TornIsLast DEF vars
<1>2. CASE OwnStacks
  BY <1>2, NextOwn
<1>3. QED
  BY <1>1, <1>2

\* Up to the first tick between spin_unlock_irq and cli, a context __switch_to
\* will restore is the task's own, and the processor is never on a freed stack.
THEOREM SchedOwnedUntilTorn == Spec => []OwnedUntilTorn
<1>1. SchedIInv /\ SchedIInv' /\ (torn \/ OwnStacks) /\ [Next]_vars => (torn \/ OwnStacks)'
  BY NextUntilTorn
<1>2. torn \/ OwnStacks => OwnedUntilTorn
  BY DEF OwnStacks, ContextsOwned, OwnedUntilTorn
<1>3. QED
  BY <1>1, <1>2, InitOwn, SchedInvariant, PTL DEF Spec

\* Up to that tick, a task that has ended never gets the processor back, and a
\* freed one is never a task again.
THEOREM SchedEndIsFinal == Spec => EndIsFinal
<1>1. SchedIInv /\ SchedIInv' /\ (torn \/ OwnStacks) /\ [Next]_vars =>
        (torn \/ OwnStacks)' /\ [~torn' => Ends]_vars
  BY NextUntilTorn
<1>2. Spec => [][~torn' => Ends]_vars
  BY <1>1, InitOwn, SchedInvariant, PTL DEF Spec
<1>3. QED
  BY <1>2 DEF EndIsFinal, Ends

=============================================================================
