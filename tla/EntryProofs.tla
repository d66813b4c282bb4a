---------------------------- MODULE EntryProofs -----------------------------
(***************************************************************************)
(* Proofs about the ways into the kernel, for any number of tasks and any  *)
(* values of the registers.                                                *)
(*                                                                         *)
(* SyscallEntry: the inductive invariant adds to TypeOK and                *)
(* KernelStacksOwned that cpu->ustack holds a user rsp while any task is   *)
(* in a system call, which is what the popped rsp's type needs.            *)
(*                                                                         *)
(* Isr: what the properties need beyond themselves: a handler's frame lies *)
(* on at most one other frame, and only the running task has one that has  *)
(* not been switched away from; that frame and the local APIC agree on     *)
(* what is in service; the boot sequence has done what the steps behind it *)
(* rely on; and a call that was left by the processor was left by          *)
(* sched_again, as was one that entered a section with interrupts off.     *)
(***************************************************************************)
EXTENDS SyscallEntry, Isr, SequenceTheorems, TLAPS

-----------------------------------------------------------------------------
(* System calls.                                                           *)

\* While a task is in a system call, cpu->ustack has been written.
UstackWritten == \A t \in Tasks : mode[t] = "kernel" => ustack # Null

\* The inductive invariant.
IInv == TypeOK /\ KernelStacksOwned /\ UstackWritten

\* A step of syscall_handler0, of the scheduler, of fork, execve or exit keeps
\* the types: a popped rip or rsp is one that was pushed.
LEMMA SyscallStep ==
  ASSUME IInv, [Next]_vars
  PROVE  IInv'
<1>1. CASE UNCHANGED vars
  BY <1>1 DEF IInv, TypeOK, KernelStacksOwned, UstackWritten, vars
<1>2. ASSUME NEW t \in Tasks, user_step(t) PROVE IInv'
  BY <1>2 DEF IInv, TypeOK, KernelStacksOwned, UstackWritten, user_step, InUser
<1>3. ASSUME NEW t \in Tasks, syscall_entry(t) PROVE IInv'
  BY <1>3, SyscallAssumption DEF IInv, TypeOK, KernelStacksOwned, UstackWritten, syscall_entry,
     InUser, EntryStack
<1>4. ASSUME NEW t \in Tasks, syscall_return(t) PROVE IInv'
  BY <1>4 DEF IInv, TypeOK, KernelStacksOwned, UstackWritten, syscall_return, InKernel
<1>5. ASSUME NEW t \in Tasks, execve(t) PROVE IInv'
  BY <1>5 DEF IInv, TypeOK, KernelStacksOwned, UstackWritten, execve, InKernel
<1>6. ASSUME NEW t \in Tasks, switch(t) PROVE IInv'
  BY <1>6 DEF IInv, TypeOK, KernelStacksOwned, UstackWritten, switch, KstackOf
<1>7. ASSUME NEW t \in Tasks, NEW n \in Tasks, task_fork(t, n) PROVE IInv'
  BY <1>7 DEF IInv, TypeOK, KernelStacksOwned, UstackWritten, task_fork, InKernel
<1>8. ASSUME NEW t \in Tasks, NEW n \in Tasks, exit(t, n) PROVE IInv'
  BY <1>8 DEF IInv, TypeOK, KernelStacksOwned, UstackWritten, exit, InKernel, KstackOf
<1>9. QED
  BY <1>1, <1>2, <1>3, <1>4, <1>5, <1>6, <1>7, <1>8 DEF Next

\* The invariant holds from the first user task on.
THEOREM SyscallInvariant == Spec => []IInv
<1>1. Init => IInv
  BY SyscallAssumption DEF Init, IInv, TypeOK, KernelStacksOwned, UstackWritten
<1>2. IInv /\ [Next]_vars => IInv'
  BY SyscallStep
<1>3. QED
  BY <1>1, <1>2, PTL DEF Spec

\* Every system call and interrupt lands on the running task's own kernel stack,
\* and a task in a system call finds on its stack the rip it pushed.
THEOREM SyscallStacksOwned == Spec => []KernelStacksOwned
<1>1. IInv => KernelStacksOwned
  BY DEF IInv
<1>2. QED
  BY <1>1, SyscallInvariant, PTL

\* A system call, and the child of a fork, continue at the caller's rip.
THEOREM SyscallRipKept == Spec => RipKept
<1>1. ASSUME IInv, NEW t \in Tasks, NEW n \in Tasks
      PROVE  /\ syscall_return(t) => rip'[t] = rip[t]
             /\ task_fork(t, n) => rip'[n] = rip[t]
  BY <1>1 DEF IInv, TypeOK, KernelStacksOwned, syscall_return, task_fork, InKernel
<1>2. IInv => [\A t, n \in Tasks :
                 /\ syscall_return(t) => rip'[t] = rip[t]
                 /\ task_fork(t, n) => rip'[n] = rip[t]]_vars
  BY <1>1
<1>3. QED
  BY <1>2, SyscallInvariant, PTL DEF RipKept

-----------------------------------------------------------------------------
(* Interrupts.                                                             *)

Everyone == AllTasks \union {Boot}

\* What interrupts come on top of, and what a handler leaves on the stack.
Base == {"kernel", "kernel_start", "start", "call"}
Handler == {Keyboard, Timer, "read", "switched"}

\* The boot sequence behind its first k steps.
Rest(k) == [i \in 1 .. 8 - k |-> BootOrder[i + k]]

IsrTypes ==
  /\ rte \in [set : BOOLEAN, masked : BOOLEAN]
  /\ isr_handler \in [{Keyboard, Timer} -> {"unhandled", Keyboard, Timer}]
  /\ port_on \in BOOLEAN /\ obf \in BOOLEAN /\ timer_on \in BOOLEAN
  /\ iflag \in BOOLEAN /\ unhandled \in BOOLEAN
  /\ section \in {"none", "new", "wait", "execve", "exit"} /\ irq_flags \in BOOLEAN
  /\ gs \in {"user", "kernel"}
  /\ on_cpu \in Everyone
  /\ frames \in [Everyone -> Seq(Base \union Handler)]

\* A base frame is the only one of its stack, and a handler's frame lies on at
\* most a base frame.
Nested ==
  \A t \in Everyone :
    /\ Len(frames[t]) <= 2
    /\ Top(t) \in Base => Len(frames[t]) = 1
    /\ Len(frames[t]) = 2 => frames[t][1] \in Base

\* A task without the processor waits in the kernel, in no handler but the
\* timer's, behind the switch.
OthersSwitched ==
  \A t \in Everyone : t # on_cpu => Top(t) \in Base \union {"switched"}

\* What is in service is what the running task's handler frame says.
InService ==
  /\ isr = IF Top(on_cpu) \in {Keyboard, "read"} THEN {Keyboard}
           ELSE IF Top(on_cpu) = Timer THEN {Timer} ELSE {}
  /\ Top(on_cpu) \in Handler => ~iflag

\* How far the boot sequence has come, and what holds from there on.
Booted(k) ==
  /\ booting = Rest(k)
  /\ k < 8 => on_cpu = Boot /\ frames[Boot] = <<"kernel">> /\ ~iflag
  /\ 1 <= k /\ k < 5 => ~port_on /\ ~obf
  /\ 3 <= k => isr_handler[Keyboard] = Keyboard
  /\ 6 <= k => isr_handler[Timer] = Timer
  /\ 4 <= k => ~rte.masked
  /\ 5 <= k => (port_on /\ obf => Keyboard \in irr \/ Top(on_cpu) = Keyboard)

\* A section under spin_lock_irq belongs to a call or to a task that starts, with
\* interrupts off; if they were off before in a call, that has been blocked.
InSection ==
  section # "none" =>
    /\ ~iflag /\ InCall(on_cpu)
    /\ ~irq_flags /\ Top(on_cpu) = "call" => on_cpu \in blocked

\* A call that runs with interrupts off outside such a section, or will be resumed
\* with interrupts off, has been blocked.
OffOnlyBehindSwitch ==
  /\ \A t \in Everyone : t # on_cpu /\ t \notin ended /\ Top(t) = "call" => t \in blocked
  /\ ~iflag /\ Top(on_cpu) = "call" /\ section = "none" => on_cpu \in blocked

CpuInv ==
  /\ IsrTypes /\ Nested /\ OthersSwitched /\ InService /\ InSection /\ OffOnlyBehindSwitch
  /\ GsMatchesMode
  /\ ~unhandled

\* The inductive invariant.
IsrIInv == CpuInv /\ \E k \in 0 .. 8 : Booted(k)

-----------------------------------------------------------------------------
(* The operators on stacks of frames.                                      *)

\* A frame that is pushed is the top one; the rest of the stack stays.
LEMMA PushTop ==
  ASSUME frames \in [Everyone -> Seq(Base \union Handler)],
         NEW t \in Everyone, NEW f \in Base \union Handler,
         frames' = [frames EXCEPT ![t] = Append(@, f)]
  PROVE  /\ frames' \in [Everyone -> Seq(Base \union Handler)]
         /\ Top(t)' = f
         /\ Len(frames'[t]) = Len(frames[t]) + 1
         /\ Len(frames[t]) = 1 => frames'[t][1] = Top(t)
         /\ \A u \in Everyone : u # t => frames'[u] = frames[u] /\ Top(u)' = Top(u)
BY DEF Top

\* A stack without its top frame.
LEMMA BelowTop ==
  ASSUME NEW S, NEW s \in Seq(S), s # <<>>
  PROVE  LET below == SubSeq(s, 1, Len(s) - 1)
         IN /\ below \in Seq(S)
            /\ Len(below) = Len(s) - 1
            /\ \A i \in 1 .. Len(s) - 1 : below[i] = s[i]
<1>1. Len(s) \in Nat /\ Len(s) >= 1
  OBVIOUS
<1>2. \A i \in 1 .. Len(s) - 1 : s[i] \in S
  BY <1>1
<1>3. QED
  <2> DEFINE n == Len(s) - 1
  <2>1. n \in Nat /\ 1 \in Int /\ n \in Int
    BY <1>1
  <2>2. \A i \in 1 .. n : s[i] \in S
    BY <1>2
  <2> HIDE DEF n
  <2>3. /\ SubSeq(s, 1, n) \in Seq(S)
        /\ Len(SubSeq(s, 1, n)) = IF 1 <= n THEN n - 1 + 1 ELSE 0
        /\ \A i \in 1 .. n - 1 + 1 : SubSeq(s, 1, n)[i] = s[1 + i - 1]
    BY <2>1, <2>2, SubSeqProperties
  <2>4. /\ Len(SubSeq(s, 1, n)) = n
        /\ \A i \in 1 .. n : SubSeq(s, 1, n)[i] = s[i]
    BY <2>1, <2>3
  <2>5. QED
    BY <2>3, <2>4 DEF n

\* What keyboard_callback and __timer_switch_context do to their own frame.
LEMMA ReplaceTop ==
  ASSUME frames \in [Everyone -> Seq(Base \union Handler)],
         NEW t \in Everyone, NEW f \in Base \union Handler,
         Top(t) # "user",
         frames' = [frames EXCEPT ![t] = Append(SubSeq(@, 1, Len(@) - 1), f)]
  PROVE  /\ frames' \in [Everyone -> Seq(Base \union Handler)]
         /\ Top(t)' = f
         /\ Len(frames'[t]) = Len(frames[t])
         /\ Len(frames[t]) = 2 => frames'[t][1] = frames[t][1]
         /\ \A u \in Everyone : u # t => frames'[u] = frames[u] /\ Top(u)' = Top(u)
<1> DEFINE below == SubSeq(frames[t], 1, Len(frames[t]) - 1)
<1>1. frames[t] \in Seq(Base \union Handler) /\ frames[t] # <<>>
  BY DEF Top
<1>2. /\ below \in Seq(Base \union Handler)
      /\ Len(below) = Len(frames[t]) - 1
      /\ \A i \in 1 .. Len(frames[t]) - 1 : below[i] = frames[t][i]
  BY <1>1, BelowTop
<1> HIDE DEF below
<1>3. frames' = [frames EXCEPT ![t] = Append(below, f)]
  BY DEF below
<1>4. QED
  BY <1>1, <1>2, <1>3 DEF Top

\* An iretq or sysretq uncovers the frame below, or user mode.
LEMMA PopTop ==
  ASSUME frames \in [Everyone -> Seq(Base \union Handler)],
         NEW t \in Everyone,
         Top(t) # "user", Len(frames[t]) <= 2, Pop(t)
  PROVE  /\ frames' \in [Everyone -> Seq(Base \union Handler)]
         /\ Len(frames'[t]) = Len(frames[t]) - 1
         /\ Len(frames[t]) = 1 => Top(t)' = "user"
         /\ Len(frames[t]) = 2 => Top(t)' = frames[t][1]
         /\ \A u \in Everyone : u # t => frames'[u] = frames[u] /\ Top(u)' = Top(u)
<1> DEFINE below == SubSeq(frames[t], 1, Len(frames[t]) - 1)
<1>1. frames[t] \in Seq(Base \union Handler) /\ frames[t] # <<>>
  BY DEF Top
<1>2. /\ below \in Seq(Base \union Handler)
      /\ Len(below) = Len(frames[t]) - 1
      /\ \A i \in 1 .. Len(frames[t]) - 1 : below[i] = frames[t][i]
  BY <1>1, BelowTop
<1> HIDE DEF below
<1>3. frames' = [frames EXCEPT ![t] = below]
  BY DEF below, Pop
<1>4. Len(below) = 0 => below = <<>>
  BY <1>2
<1>5. QED
  BY <1>1, <1>2, <1>3, <1>4 DEF Top

\* A stack that is made anew.
LEMMA FreshTop ==
  ASSUME frames \in [Everyone -> Seq(Base \union Handler)],
         NEW t \in Everyone, NEW f \in Base,
         frames' = [frames EXCEPT ![t] = <<f>>]
  PROVE  /\ frames' \in [Everyone -> Seq(Base \union Handler)]
         /\ Top(t)' = f
         /\ Len(frames'[t]) = 1
         /\ \A u \in Everyone : u # t => frames'[u] = frames[u] /\ Top(u)' = Top(u)
BY DEF Top

\* An empty stack, and no other, is user mode: no frame is called so.
LEMMA TopKind ==
  ASSUME frames \in [Everyone -> Seq(Base \union Handler)], NEW t \in Everyone
  PROVE  /\ Len(frames[t]) \in Nat
         /\ Top(t) \in Base \union Handler \union {"user"}
         /\ Top(t) = "user" <=> Len(frames[t]) = 0
BY DEF Top, Base, Handler, Keyboard, Timer

\* The boot sequence: what its next step is called, and what is left behind it.
LEMMA RestFacts ==
  /\ Rest(0) = BootOrder
  /\ Rest(8) = <<>>
  /\ \A k \in 0 .. 7 : Rest(k) # <<>> /\ Head(Rest(k)) = BootOrder[k + 1] /\ Tail(Rest(k)) = Rest(k + 1)
  /\ \A k \in 0 .. 8 : "enable" \notin {Rest(k)[i] : i \in 1 .. Len(Rest(k))} => 5 <= k
<1>1. Rest(0) = BootOrder
  BY DEF Rest, BootOrder
<1>2. Rest(8) = <<>>
  BY DEF Rest, BootOrder
<1>3. ASSUME NEW k \in 0 .. 7
      PROVE  Rest(k) # <<>> /\ Head(Rest(k)) = BootOrder[k + 1] /\ Tail(Rest(k)) = Rest(k + 1)
  BY DEF Rest
<1>4. ASSUME NEW k \in 0 .. 8, k < 5
      PROVE  "enable" \in {Rest(k)[i] : i \in 1 .. Len(Rest(k))}
  <2>1. Len(Rest(k)) = 8 - k
    BY DEF Rest
  <2>2. Rest(k)[5 - k] = "enable"
    BY <1>4 DEF Rest, BootOrder
  <2>3. QED
    BY <1>4, <2>1, <2>2
<1>5. \A k \in 0 .. 8 : "enable" \notin {Rest(k)[i] : i \in 1 .. Len(Rest(k))} => ~(k < 5)
  BY <1>4
<1>6. \A k \in 0 .. 8 : ~(k < 5) => 5 <= k
  OBVIOUS
<1>7. QED
  BY <1>1, <1>2, <1>3, <1>5, <1>6

-----------------------------------------------------------------------------
(* The steps.                                                              *)

\* Past boot every handler is registered and the keyboard's pin is open.
LEMMA RunningBooted ==
  ASSUME IsrIInv, Running
  PROVE  Booted(8)
<1>1. PICK k \in 0 .. 8 : Booted(k)
  BY DEF IsrIInv
<1>2. k = 8
  <2>1. booting = <<>> /\ booting = Rest(k)
    BY <1>1 DEF Running, Booted
  <2>2. ~(k \in 0 .. 7)
    BY <2>1, RestFacts
  <2>3. QED
    BY <2>2
<1>3. QED
  BY <1>1, <1>2

\* The steps that leave every stack alone leave every top frame alone.
LEMMA SameTops ==
  ASSUME frames' = frames
  PROVE  \A t : Top(t)' = Top(t)
BY DEF Top

\* A step of the boot sequence: its name says how far the sequence has come.
LEMMA BootSteps ==
  ASSUME NEW name, NEW n \in 0 .. 7, BootOrder[n + 1] = name,
         \A i \in 1 .. 8 : BootOrder[i] = name => i = n + 1,
         IsrIInv, Step(name)
  PROVE  Booted(n) /\ booting' = Rest(n + 1)
<1>1. PICK k \in 0 .. 8 : Booted(k)
  BY DEF IsrIInv
<1>2. k \in 0 .. 7
  BY <1>1, RestFacts DEF Booted, Step
<1>3. BootOrder[k + 1] = name /\ booting' = Rest(k + 1)
  BY <1>1, <1>2, RestFacts DEF Booted, Step
<1>4. k = n
  BY <1>2, <1>3
<1>5. QED
  BY <1>1, <1>3, <1>4

\* keyboard_init, sched_init and the end of kernel_main.
LEMMA BootStep ==
  ASSUME IsrIInv
  PROVE  /\ ps2_disable => IsrIInv'
         /\ isr_setup_irq => IsrIInv'
         /\ isr_register_handler(Keyboard, "register") => IsrIInv'
         /\ isr_enable_irq => IsrIInv'
         /\ ps2_enable => IsrIInv'
         /\ isr_register_handler(Timer, "timer_handler") => IsrIInv'
         /\ apic_timer_start => IsrIInv'
         /\ isr_enable_interrupts => IsrIInv'
<1>1. ASSUME ps2_disable PROVE IsrIInv'
  <2>1. Booted(0) /\ booting' = Rest(1)
    <3>1. Step("disable") /\ 0 \in 0 .. 7
      BY <1>1 DEF ps2_disable
    <3>2. BootOrder[0 + 1] = "disable" /\ \A i \in 1 .. 8 : BootOrder[i] = "disable" => i = 0 + 1
      BY DEF BootOrder
    <3>3. Booted(0) /\ booting' = Rest(0 + 1)
      BY <3>1, <3>2, BootSteps
    <3>4. QED
      BY <3>3
  <2>2. \A t : Top(t)' = Top(t)
    BY <1>1, SameTops DEF ps2_disable, cpuVars
  <2>3. Booted(1)'
    BY <1>1, <2>1, <2>2 DEF ps2_disable, IsrIInv, CpuInv, IsrTypes, Booted, apicVars, cpuVars,
       Keyboard, Timer, Top
  <2>4. (\E k \in 0 .. 8 : Booted(k))'
    BY <2>3
  <2>5. CpuInv'
    BY <1>1, <2>1, <2>2, IsrAssumption DEF ps2_disable, Step, IsrIInv, CpuInv, IsrTypes, Nested,
       OthersSwitched, InService, InSection, InCall, sectionVars, OffOnlyBehindSwitch,
       GsMatchesMode, Booted, apicVars, cpuVars, Keyboard, Timer, Top, Handler
  <2>6. QED
    BY <2>4, <2>5 DEF IsrIInv
<1>2. ASSUME isr_setup_irq PROVE IsrIInv'
  <2>1. Booted(1) /\ booting' = Rest(2)
    <3>1. Step("setup") /\ 1 \in 0 .. 7
      BY <1>2 DEF isr_setup_irq
    <3>2. BootOrder[1 + 1] = "setup" /\ \A i \in 1 .. 8 : BootOrder[i] = "setup" => i = 1 + 1
      BY DEF BootOrder
    <3>3. Booted(1) /\ booting' = Rest(1 + 1)
      BY <3>1, <3>2, BootSteps
    <3>4. QED
      BY <3>3
  <2>2. \A t : Top(t)' = Top(t)
    BY <1>2, SameTops DEF isr_setup_irq, cpuVars
  <2>3. Booted(2)'
    BY <1>2, <2>1, <2>2 DEF isr_setup_irq, IsrIInv, CpuInv, IsrTypes, Booted, apicVars, cpuVars,
       Keyboard, Timer, Top
  <2>4. (\E k \in 0 .. 8 : Booted(k))'
    BY <2>3
  <2>5. CpuInv'
    BY <1>2, <2>1, <2>2, IsrAssumption DEF isr_setup_irq, Step, IsrIInv, CpuInv, IsrTypes, Nested,
       OthersSwitched, InService, InSection, InCall, sectionVars, OffOnlyBehindSwitch,
       GsMatchesMode, Booted, apicVars, cpuVars, Keyboard, Timer, Top, Handler
  <2>6. QED
    BY <2>4, <2>5 DEF IsrIInv
<1>3. ASSUME isr_register_handler(Keyboard, "register") PROVE IsrIInv'
  <2>1. Booted(2) /\ booting' = Rest(3)
    <3>1. Step("register") /\ 2 \in 0 .. 7
      BY <1>3 DEF isr_register_handler
    <3>2. BootOrder[2 + 1] = "register" /\ \A i \in 1 .. 8 : BootOrder[i] = "register" => i = 2 + 1
      BY DEF BootOrder
    <3>3. Booted(2) /\ booting' = Rest(2 + 1)
      BY <3>1, <3>2, BootSteps
    <3>4. QED
      BY <3>3
  <2>2. \A t : Top(t)' = Top(t)
    BY <1>3, SameTops DEF isr_register_handler, cpuVars
  <2>3. Booted(3)'
    BY <1>3, <2>1, <2>2 DEF isr_register_handler, IsrIInv, CpuInv, IsrTypes, Booted, apicVars,
       cpuVars, Keyboard, Timer, Top
  <2>4. (\E k \in 0 .. 8 : Booted(k))'
    BY <2>3
  <2>5. CpuInv'
    BY <1>3, <2>1, <2>2, IsrAssumption DEF isr_register_handler, Step, IsrIInv, CpuInv, IsrTypes,
       Nested, OthersSwitched, InService, InSection, InCall, sectionVars, OffOnlyBehindSwitch,
       GsMatchesMode, Booted, apicVars, cpuVars, Keyboard, Timer, Top, Handler
  <2>6. QED
    BY <2>4, <2>5 DEF IsrIInv
<1>4. ASSUME isr_enable_irq PROVE IsrIInv'
  <2>1. Booted(3) /\ booting' = Rest(4)
    <3>1. Step("unmask") /\ 3 \in 0 .. 7
      BY <1>4 DEF isr_enable_irq
    <3>2. BootOrder[3 + 1] = "unmask" /\ \A i \in 1 .. 8 : BootOrder[i] = "unmask" => i = 3 + 1
      BY DEF BootOrder
    <3>3. Booted(3) /\ booting' = Rest(3 + 1)
      BY <3>1, <3>2, BootSteps
    <3>4. QED
      BY <3>3
  <2>2. \A t : Top(t)' = Top(t)
    BY <1>4, SameTops DEF isr_enable_irq, cpuVars
  <2>3. Booted(4)'
    BY <1>4, <2>1, <2>2 DEF isr_enable_irq, IsrIInv, CpuInv, IsrTypes, Booted, apicVars, cpuVars,
       Keyboard, Timer, Top
  <2>4. (\E k \in 0 .. 8 : Booted(k))'
    BY <2>3
  <2>5. CpuInv'
    BY <1>4, <2>1, <2>2, IsrAssumption DEF isr_enable_irq, Step, IsrIInv, CpuInv, IsrTypes, Nested,
       OthersSwitched, InService, InSection, InCall, sectionVars, OffOnlyBehindSwitch,
       GsMatchesMode, Booted, apicVars, cpuVars, Keyboard, Timer, Top, Handler
  <2>6. QED
    BY <2>4, <2>5 DEF IsrIInv
<1>5. ASSUME ps2_enable PROVE IsrIInv'
  <2>1. Booted(4) /\ booting' = Rest(5)
    <3>1. Step("enable") /\ 4 \in 0 .. 7
      BY <1>5 DEF ps2_enable
    <3>2. BootOrder[4 + 1] = "enable" /\ \A i \in 1 .. 8 : BootOrder[i] = "enable" => i = 4 + 1
      BY DEF BootOrder
    <3>3. Booted(4) /\ booting' = Rest(4 + 1)
      BY <3>1, <3>2, BootSteps
    <3>4. QED
      BY <3>3
  <2>2. \A t : Top(t)' = Top(t)
    BY <1>5, SameTops DEF ps2_enable, cpuVars
  <2>3. Booted(5)'
    BY <1>5, <2>1, <2>2 DEF ps2_enable, IsrIInv, CpuInv, IsrTypes, Booted, apicVars, cpuVars,
       Keyboard, Timer, Top
  <2>4. (\E k \in 0 .. 8 : Booted(k))'
    BY <2>3
  <2>5. CpuInv'
    BY <1>5, <2>1, <2>2, IsrAssumption DEF ps2_enable, Step, IsrIInv, CpuInv, IsrTypes, Nested,
       OthersSwitched, InService, InSection, InCall, sectionVars, OffOnlyBehindSwitch,
       GsMatchesMode, Booted, apicVars, cpuVars, Keyboard, Timer, Top, Handler
  <2>6. QED
    BY <2>4, <2>5 DEF IsrIInv
<1>6. ASSUME isr_register_handler(Timer, "timer_handler") PROVE IsrIInv'
  <2>1. Booted(5) /\ booting' = Rest(6)
    <3>1. Step("timer_handler") /\ 5 \in 0 .. 7
      BY <1>6 DEF isr_register_handler
    <3>2. BootOrder[5 + 1] = "timer_handler" /\ \A i \in 1 .. 8 : BootOrder[i] = "timer_handler" => i = 5 + 1
      BY DEF BootOrder
    <3>3. Booted(5) /\ booting' = Rest(5 + 1)
      BY <3>1, <3>2, BootSteps
    <3>4. QED
      BY <3>3
  <2>2. \A t : Top(t)' = Top(t)
    BY <1>6, SameTops DEF isr_register_handler, cpuVars
  <2>3. Booted(6)'
    BY <1>6, <2>1, <2>2 DEF isr_register_handler, IsrIInv, CpuInv, IsrTypes, Booted, apicVars,
       cpuVars, Keyboard, Timer, Top
  <2>4. (\E k \in 0 .. 8 : Booted(k))'
    BY <2>3
  <2>5. CpuInv'
    BY <1>6, <2>1, <2>2, IsrAssumption DEF isr_register_handler, Step, IsrIInv, CpuInv, IsrTypes,
       Nested, OthersSwitched, InService, InSection, InCall, sectionVars, OffOnlyBehindSwitch,
       GsMatchesMode, Booted, apicVars, cpuVars, Keyboard, Timer, Top, Handler
  <2>6. QED
    BY <2>4, <2>5 DEF IsrIInv
<1>7. ASSUME apic_timer_start PROVE IsrIInv'
  <2>1. Booted(6) /\ booting' = Rest(7)
    <3>1. Step("timer_start") /\ 6 \in 0 .. 7
      BY <1>7 DEF apic_timer_start
    <3>2. BootOrder[6 + 1] = "timer_start" /\ \A i \in 1 .. 8 : BootOrder[i] = "timer_start" => i = 6 + 1
      BY DEF BootOrder
    <3>3. Booted(6) /\ booting' = Rest(6 + 1)
      BY <3>1, <3>2, BootSteps
    <3>4. QED
      BY <3>3
  <2>2. \A t : Top(t)' = Top(t)
    BY <1>7, SameTops DEF apic_timer_start, cpuVars
  <2>3. Booted(7)'
    BY <1>7, <2>1, <2>2 DEF apic_timer_start, IsrIInv, CpuInv, IsrTypes, Booted, apicVars,
       cpuVars, Keyboard, Timer, Top
  <2>4. (\E k \in 0 .. 8 : Booted(k))'
    BY <2>3
  <2>5. CpuInv'
    BY <1>7, <2>1, <2>2, IsrAssumption DEF apic_timer_start, Step, IsrIInv, CpuInv, IsrTypes,
       Nested, OthersSwitched, InService, InSection, InCall, sectionVars, OffOnlyBehindSwitch,
       GsMatchesMode, Booted, apicVars, cpuVars, Keyboard, Timer, Top, Handler
  <2>6. QED
    BY <2>4, <2>5 DEF IsrIInv
<1>8. ASSUME isr_enable_interrupts PROVE IsrIInv'
  <2>1. Booted(7) /\ booting' = Rest(8)
    <3>1. Step("sti") /\ 7 \in 0 .. 7
      BY <1>8 DEF isr_enable_interrupts
    <3>2. BootOrder[7 + 1] = "sti" /\ \A i \in 1 .. 8 : BootOrder[i] = "sti" => i = 7 + 1
      BY DEF BootOrder
    <3>3. Booted(7) /\ booting' = Rest(7 + 1)
      BY <3>1, <3>2, BootSteps
    <3>4. QED
      BY <3>3
  <2>2. \A t : Top(t)' = Top(t)
    BY <1>8, SameTops DEF isr_enable_interrupts
  <2>3. Booted(8)'
    BY <1>8, <2>1, <2>2 DEF isr_enable_interrupts, IsrIInv, CpuInv, IsrTypes, Booted, apicVars,
       Keyboard, Timer, Top
  <2>4. (\E k \in 0 .. 8 : Booted(k))'
    BY <2>3
  <2>5. CpuInv'
    BY <1>8, <2>1, <2>2, IsrAssumption DEF isr_enable_interrupts, Step, IsrIInv, CpuInv, IsrTypes,
       Nested, OthersSwitched, InService, InSection, InCall, sectionVars, OffOnlyBehindSwitch,
       GsMatchesMode, Booted, apicVars, Keyboard, Timer, Top, Handler
  <2>6. QED
    BY <2>4, <2>5 DEF IsrIInv
<1>9. QED
  BY <1>1, <1>2, <1>3, <1>4, <1>5, <1>6, <1>7, <1>8

\* The keyboard sends a byte, the timer ticks, at any time.
LEMMA DeviceStep ==
  ASSUME IsrIInv, key \/ tick
  PROVE  IsrIInv'
<1>1. PICK k \in 0 .. 8 : Booted(k)
  BY DEF IsrIInv, CpuInv
<1>2. \A t : Top(t)' = Top(t)
  BY SameTops DEF key, tick, cpuVars
<1>3. Booted(k)'
  BY <1>1, <1>2 DEF Booted, IsrIInv, CpuInv, IsrTypes, key, tick, cpuVars
<1>4. CpuInv'
  <2>1. UNCHANGED <<rte, isr_handler, port_on, timer_on, isr, cpuVars, unhandled>> /\ obf' \in BOOLEAN
    BY DEF key, tick, IsrIInv, CpuInv, IsrTypes
  <2>2. QED
    BY <1>2, <2>1 DEF IsrIInv, CpuInv, IsrTypes, Nested, OthersSwitched, InService,
       InSection, InCall, sectionVars, OffOnlyBehindSwitch, GsMatchesMode, Booted, cpuVars
<1>5. QED
  BY <1>3, <1>4 DEF IsrIInv, CpuInv

\* The processor takes an interrupt.
LEMMA Step_intr_common_handler ==
  ASSUME IsrIInv, NEW v \in {Keyboard, Timer}, intr_common_handler(v)
  PROVE  IsrIInv'
<1>1. Booted(8) /\ IsrTypes
  BY RunningBooted DEF IsrIInv, CpuInv, intr_common_handler, Push
<1>2. /\ frames' \in [Everyone -> Seq(Base \union Handler)]
      /\ Len(frames'[on_cpu]) = Len(frames[on_cpu]) + 1
      /\ Top(on_cpu)' = v
      /\ Len(frames[on_cpu]) = 1 => frames'[on_cpu][1] = Top(on_cpu)
      /\ \A u \in Everyone : u # on_cpu => frames'[u] = frames[u] /\ Top(u)' = Top(u)
  BY <1>1, PushTop DEF intr_common_handler, Push, IsrIInv, CpuInv, IsrTypes, Nested, Base,
     Keyboard, Timer, Handler, Everyone, AllTasks
<1>3. Booted(8)'
  BY <1>1, <1>2 DEF Booted, IsrIInv, CpuInv, IsrTypes, InService, OthersSwitched,
     intr_common_handler, Push, Running, swapgs, SwapIfUser, deviceVars, Keyboard, Timer, Handler,
     Base, Everyone, AllTasks
<1>4. IsrTypes'
  BY <1>1, <1>2, TopKind DEF IsrIInv, CpuInv, IsrTypes, Nested, OthersSwitched, InService,
     InSection, InCall, sectionVars, OffOnlyBehindSwitch, GsMatchesMode, Booted,
     intr_common_handler, Push, Running, swapgs, SwapIfUser, deviceVars, Keyboard, Timer, Handler,
     Base, Everyone, AllTasks
<1>5. Nested'
  BY <1>1, <1>2, TopKind DEF IsrIInv, CpuInv, IsrTypes, Nested, OthersSwitched, InService,
     InSection, InCall, sectionVars, OffOnlyBehindSwitch, GsMatchesMode, Booted,
     intr_common_handler, Push, Running, swapgs, SwapIfUser, deviceVars, Keyboard, Timer, Handler,
     Base, Everyone, AllTasks
<1>6. OthersSwitched'
  BY <1>1, <1>2, TopKind DEF IsrIInv, CpuInv, IsrTypes, Nested, OthersSwitched, InService,
     InSection, InCall, sectionVars, OffOnlyBehindSwitch, GsMatchesMode, Booted,
     intr_common_handler, Push, Running, swapgs, SwapIfUser, deviceVars, Keyboard, Timer, Handler,
     Base, Everyone, AllTasks
<1>7. InService'
  BY <1>1, <1>2, TopKind DEF IsrIInv, CpuInv, IsrTypes, Nested, OthersSwitched, InService,
     InSection, InCall, sectionVars, OffOnlyBehindSwitch, GsMatchesMode, Booted,
     intr_common_handler, Push, Running, swapgs, SwapIfUser, deviceVars, Keyboard, Timer, Handler,
     Base, Everyone, AllTasks
<1>8. OffOnlyBehindSwitch'
  BY <1>1, <1>2, TopKind DEF IsrIInv, CpuInv, IsrTypes, Nested, OthersSwitched, InService,
     InSection, InCall, sectionVars, OffOnlyBehindSwitch, GsMatchesMode, Booted,
     intr_common_handler, Push, Running, swapgs, SwapIfUser, deviceVars, Keyboard, Timer, Handler,
     Base, Everyone, AllTasks
<1>9. GsMatchesMode'
  BY <1>1, <1>2, TopKind DEF IsrIInv, CpuInv, IsrTypes, Nested, OthersSwitched, InService,
     InSection, InCall, sectionVars, OffOnlyBehindSwitch, GsMatchesMode, Booted,
     intr_common_handler, Push, Running, swapgs, SwapIfUser, deviceVars, Keyboard, Timer, Handler,
     Base, Everyone, AllTasks
<1>9a. InSection'
  BY <1>1, <1>2, TopKind DEF IsrIInv, CpuInv, IsrTypes, Nested, OthersSwitched, InService,
     InSection, InCall, sectionVars, OffOnlyBehindSwitch, GsMatchesMode, Booted,
     intr_common_handler, Push, Running, swapgs, SwapIfUser, deviceVars, Keyboard, Timer, Handler,
     Base, Everyone, AllTasks
<1>10. ~unhandled'
  BY <1>1, <1>2 DEF IsrIInv, CpuInv, IsrTypes, Nested, OthersSwitched, InService, InSection, InCall,
     sectionVars, OffOnlyBehindSwitch, GsMatchesMode, Booted, intr_common_handler, Push, Running,
     swapgs, SwapIfUser, deviceVars, Keyboard, Timer, Handler, Base, Everyone, AllTasks
<1>11. QED
  BY <1>3, <1>4, <1>5, <1>6, <1>7, <1>8, <1>9, <1>9a, <1>10 DEF IsrIInv, CpuInv

\* keyboard_callback has read the byte.
LEMMA Step_keyboard_callback ==
  ASSUME IsrIInv, keyboard_callback
  PROVE  IsrIInv'
<1>1. Booted(8) /\ IsrTypes
  BY RunningBooted DEF IsrIInv, CpuInv, keyboard_callback
<1>2. /\ frames' \in [Everyone -> Seq(Base \union Handler)]
      /\ Top(on_cpu)' = "read"
      /\ Len(frames'[on_cpu]) = Len(frames[on_cpu])
      /\ Len(frames[on_cpu]) = 2 => frames'[on_cpu][1] = frames[on_cpu][1]
      /\ \A u \in Everyone : u # on_cpu => frames'[u] = frames[u] /\ Top(u)' = Top(u)
  BY <1>1, ReplaceTop DEF keyboard_callback, IsrIInv, CpuInv, IsrTypes, Nested, Base, Keyboard,
     Timer, Handler, Everyone, AllTasks
<1>3. Booted(8)'
  BY <1>1, <1>2 DEF Booted, IsrIInv, CpuInv, IsrTypes, InService, OthersSwitched,
     keyboard_callback, Running, apicVars, Keyboard, Timer, Handler, Base, Everyone, AllTasks
<1>4. CpuInv'
  BY <1>1, <1>2, TopKind DEF IsrIInv, CpuInv, IsrTypes, Nested, OthersSwitched, InService,
     InSection, InCall, sectionVars, OffOnlyBehindSwitch, GsMatchesMode, Booted, keyboard_callback,
     Running, apicVars, Keyboard, Timer, Handler, Base, Everyone, AllTasks
<1>5. QED
  BY <1>3, <1>4 DEF IsrIInv, CpuInv

\* The keyboard's handler ends its interrupt and returns.
LEMMA Step_keyboard_eoi ==
  ASSUME IsrIInv, keyboard_eoi
  PROVE  IsrIInv'
<1>1. Booted(8) /\ IsrTypes
  BY RunningBooted DEF IsrIInv, CpuInv, keyboard_eoi, Iretq, AfterEoi, FlagInFrame
<1>2. /\ frames' \in [Everyone -> Seq(Base \union Handler)]
      /\ Len(frames'[on_cpu]) = Len(frames[on_cpu]) - 1
      /\ Len(frames[on_cpu]) = 1 => Top(on_cpu)' = "user"
      /\ Len(frames[on_cpu]) = 2 => Top(on_cpu)' = frames[on_cpu][1]
      /\ \A u \in Everyone : u # on_cpu => frames'[u] = frames[u] /\ Top(u)' = Top(u)
  BY <1>1, PopTop DEF keyboard_eoi, Iretq, AfterEoi, FlagInFrame, IsrIInv, CpuInv, IsrTypes,
     Nested, Base, Keyboard, Timer, Handler, Everyone, AllTasks
<1>3. Booted(8)'
  BY <1>1, <1>2 DEF Booted, IsrIInv, CpuInv, IsrTypes, InService, OthersSwitched, keyboard_eoi,
     Iretq, AfterEoi, FlagInFrame, Running, swapgs, SwapIfUser, deviceVars, Keyboard, Timer,
     Handler, Base, Everyone, AllTasks
<1>2a. /\ (Len(frames[on_cpu]) = 1 \/ Len(frames[on_cpu]) = 2)
       /\ Top(on_cpu)' \in Base \union {"user"}
       /\ Top(on_cpu)' = "user" <=> Len(frames[on_cpu]) = 1
       /\ (Len(frames'[on_cpu]) = 0 \/ Len(frames'[on_cpu]) = 1) /\ (Top(on_cpu)' \in Base => Len(frames'[on_cpu]) = 1)
  <2>1. Len(frames[on_cpu]) = 1 \/ Len(frames[on_cpu]) = 2
    <3>1. on_cpu \in Everyone /\ Len(frames[on_cpu]) <= 2 /\ Top(on_cpu) # "user"
      BY DEF IsrIInv, CpuInv, IsrTypes, Nested, keyboard_eoi, Iretq, AfterEoi, FlagInFrame
    <3>2. Len(frames[on_cpu]) \in Nat /\ Len(frames[on_cpu]) # 0
      BY <1>1, <3>1, TopKind DEF IsrTypes
    <3>3. \A n \in Nat : n # 0 /\ n <= 2 => n = 1 \/ n = 2
      OBVIOUS
    <3>4. QED
      BY <3>1, <3>2, <3>3, Zenon
  <2>2. Len(frames[on_cpu]) = 2 => frames[on_cpu][1] \in Base /\ frames[on_cpu][1] # "user"
    BY <1>1 DEF IsrIInv, CpuInv, IsrTypes, Nested, Base
  <2>3. QED
    BY <1>2, <2>1, <2>2 DEF Base
<1>4. IsrTypes'
  BY <1>1, <1>2, <1>2a, TopKind DEF IsrIInv, CpuInv, IsrTypes, Nested, OthersSwitched, InService,
     InSection, InCall, sectionVars, OffOnlyBehindSwitch, GsMatchesMode, Booted, keyboard_eoi,
     Iretq, AfterEoi, FlagInFrame, Running, swapgs, SwapIfUser, deviceVars, Keyboard, Timer,
     Handler, Base, Everyone, AllTasks
<1>5. Nested'
  <2> SUFFICES ASSUME NEW t \in Everyone
               PROVE  /\ Len(frames'[t]) <= 2
                      /\ Top(t)' \in Base => Len(frames'[t]) = 1
                      /\ Len(frames'[t]) = 2 => frames'[t][1] \in Base
    BY DEF Nested
  <2>1. CASE t = on_cpu
    <3>1. 0 <= 2 /\ 1 <= 2 /\ 0 # 2 /\ 1 # 2 /\ on_cpu' = on_cpu
      BY DEF keyboard_eoi
    <3>2. QED
      BY <1>2a, <2>1, <3>1, Zenon DEF Top
  <2>2. CASE t # on_cpu
    BY <1>2, <2>2 DEF IsrIInv, CpuInv, Nested
  <2>3. QED
    BY <2>1, <2>2
<1>6. OthersSwitched'
  BY <1>1, <1>2, <1>2a, TopKind DEF IsrIInv, CpuInv, IsrTypes, Nested, OthersSwitched, InService,
     InSection, InCall, sectionVars, OffOnlyBehindSwitch, GsMatchesMode, Booted, keyboard_eoi,
     Iretq, AfterEoi, FlagInFrame, Running, swapgs, SwapIfUser, deviceVars, Keyboard, Timer,
     Handler, Base, Everyone, AllTasks
<1>7. InService'
  BY <1>1, <1>2, <1>2a, TopKind DEF IsrIInv, CpuInv, IsrTypes, Nested, OthersSwitched, InService,
     InSection, InCall, sectionVars, OffOnlyBehindSwitch, GsMatchesMode, Booted, keyboard_eoi,
     Iretq, AfterEoi, FlagInFrame, Running, swapgs, SwapIfUser, deviceVars, Keyboard, Timer,
     Handler, Base, Everyone, AllTasks
<1>8. OffOnlyBehindSwitch'
  BY <1>1, <1>2, <1>2a, TopKind DEF IsrIInv, CpuInv, IsrTypes, Nested, OthersSwitched, InService,
     InSection, InCall, sectionVars, OffOnlyBehindSwitch, GsMatchesMode, Booted, keyboard_eoi,
     Iretq, AfterEoi, FlagInFrame, Running, swapgs, SwapIfUser, deviceVars, Keyboard, Timer,
     Handler, Base, Everyone, AllTasks
<1>9. GsMatchesMode'
  BY <1>1, <1>2, <1>2a, TopKind DEF IsrIInv, CpuInv, IsrTypes, Nested, OthersSwitched, InService,
     InSection, InCall, sectionVars, OffOnlyBehindSwitch, GsMatchesMode, Booted, keyboard_eoi,
     Iretq, AfterEoi, FlagInFrame, Running, swapgs, SwapIfUser, deviceVars, Keyboard, Timer,
     Handler, Base, Everyone, AllTasks
<1>9a. InSection'
  BY <1>1, <1>2, <1>2a, TopKind DEF IsrIInv, CpuInv, IsrTypes, Nested, OthersSwitched, InService,
     InSection, InCall, sectionVars, OffOnlyBehindSwitch, GsMatchesMode, Booted, keyboard_eoi,
     Iretq, AfterEoi, FlagInFrame, Running, swapgs, SwapIfUser, deviceVars, Keyboard, Timer,
     Handler, Base, Everyone, AllTasks
<1>10. ~unhandled'
  BY <1>1, <1>2 DEF IsrIInv, CpuInv, IsrTypes, Nested, OthersSwitched, InService, InSection, InCall,
     sectionVars, OffOnlyBehindSwitch, GsMatchesMode, Booted, keyboard_eoi, Iretq, AfterEoi,
     FlagInFrame, Running, swapgs, SwapIfUser, deviceVars, Keyboard, Timer, Handler, Base, Everyone,
     AllTasks
<1>11. QED
  BY <1>3, <1>4, <1>5, <1>6, <1>7, <1>8, <1>9, <1>9a, <1>10 DEF IsrIInv, CpuInv

\* The timer's handler ends its interrupt and switches.
LEMMA Step_timer_switch_context ==
  ASSUME IsrIInv, NEW n \in AllTasks, timer_switch_context(n)
  PROVE  IsrIInv'
<1> PICK c : c = on_cpu
  OBVIOUS
<1>1. Booted(8) /\ IsrTypes
  BY RunningBooted DEF IsrIInv, CpuInv, timer_switch_context, switch_to, TimerEoi, AfterEoi
<1>2. /\ frames' \in [Everyone -> Seq(Base \union Handler)]
      /\ Top(c)' = "switched"
      /\ Len(frames'[c]) = Len(frames[c])
      /\ Len(frames[c]) = 2 => frames'[c][1] = frames[c][1]
      /\ \A u \in Everyone : u # c => frames'[u] = frames[u] /\ Top(u)' = Top(u)
  BY <1>1, ReplaceTop DEF timer_switch_context, switch_to, TimerEoi, AfterEoi, IsrIInv, CpuInv,
     IsrTypes, Nested, Base, Keyboard, Timer, Handler, Everyone, AllTasks
<1>3. Booted(8)'
  BY <1>1, <1>2 DEF Booted, IsrIInv, CpuInv, IsrTypes, InService, OthersSwitched,
     timer_switch_context, switch_to, TimerEoi, AfterEoi, Running, deviceVars, Keyboard, Timer,
     Handler, Base, Everyone, AllTasks
<1>4. IsrTypes'
  BY <1>1, <1>2, TopKind DEF IsrIInv, CpuInv, IsrTypes, Nested, OthersSwitched, InService,
     InSection, InCall, sectionVars, OffOnlyBehindSwitch, GsMatchesMode, Booted,
     timer_switch_context, switch_to, TimerEoi, AfterEoi, Running, deviceVars, Keyboard, Timer,
     Handler, Base, Everyone, AllTasks
<1>5. Nested'
  BY <1>1, <1>2, TopKind DEF IsrIInv, CpuInv, IsrTypes, Nested, OthersSwitched, InService,
     InSection, InCall, sectionVars, OffOnlyBehindSwitch, GsMatchesMode, Booted,
     timer_switch_context, switch_to, TimerEoi, AfterEoi, Running, deviceVars, Keyboard, Timer,
     Handler, Base, Everyone, AllTasks
<1>6. OthersSwitched'
  BY <1>1, <1>2, TopKind DEF IsrIInv, CpuInv, IsrTypes, Nested, OthersSwitched, InService,
     InSection, InCall, sectionVars, OffOnlyBehindSwitch, GsMatchesMode, Booted,
     timer_switch_context, switch_to, TimerEoi, AfterEoi, Running, deviceVars, Keyboard, Timer,
     Handler, Base, Everyone, AllTasks
<1>7. InService'
  BY <1>1, <1>2, TopKind DEF IsrIInv, CpuInv, IsrTypes, Nested, OthersSwitched, InService,
     InSection, InCall, sectionVars, OffOnlyBehindSwitch, GsMatchesMode, Booted,
     timer_switch_context, switch_to, TimerEoi, AfterEoi, Running, deviceVars, Keyboard, Timer,
     Handler, Base, Everyone, AllTasks
<1>8. OffOnlyBehindSwitch'
  BY <1>1, <1>2, TopKind DEF IsrIInv, CpuInv, IsrTypes, Nested, OthersSwitched, InService,
     InSection, InCall, sectionVars, OffOnlyBehindSwitch, GsMatchesMode, Booted,
     timer_switch_context, switch_to, TimerEoi, AfterEoi, Running, deviceVars, Keyboard, Timer,
     Handler, Base, Everyone, AllTasks
<1>9. GsMatchesMode'
  BY <1>1, <1>2, TopKind DEF IsrIInv, CpuInv, IsrTypes, Nested, OthersSwitched, InService,
     InSection, InCall, sectionVars, OffOnlyBehindSwitch, GsMatchesMode, Booted,
     timer_switch_context, switch_to, TimerEoi, AfterEoi, Running, deviceVars, Keyboard, Timer,
     Handler, Base, Everyone, AllTasks
<1>9a. InSection'
  BY <1>1, <1>2, TopKind DEF IsrIInv, CpuInv, IsrTypes, Nested, OthersSwitched, InService,
     InSection, InCall, sectionVars, OffOnlyBehindSwitch, GsMatchesMode, Booted,
     timer_switch_context, switch_to, TimerEoi, AfterEoi, Running, deviceVars, Keyboard, Timer,
     Handler, Base, Everyone, AllTasks
<1>10. ~unhandled'
  BY <1>1, <1>2 DEF IsrIInv, CpuInv, IsrTypes, Nested, OthersSwitched, InService, InSection, InCall,
     sectionVars, OffOnlyBehindSwitch, GsMatchesMode, Booted, timer_switch_context, switch_to,
     TimerEoi, AfterEoi, Running, deviceVars, Keyboard, Timer, Handler, Base, Everyone, AllTasks
<1>11. QED
  BY <1>3, <1>4, <1>5, <1>6, <1>7, <1>8, <1>9, <1>9a, <1>10 DEF IsrIInv, CpuInv

\* A task resumed behind the switch returns from its timer interrupt.
LEMMA Step_timer_return ==
  ASSUME IsrIInv, timer_return
  PROVE  IsrIInv'
<1>1. Booted(8) /\ IsrTypes
  BY RunningBooted DEF IsrIInv, CpuInv, timer_return, Iretq, FlagInFrame
<1>2. /\ frames' \in [Everyone -> Seq(Base \union Handler)]
      /\ Len(frames'[on_cpu]) = Len(frames[on_cpu]) - 1
      /\ Len(frames[on_cpu]) = 1 => Top(on_cpu)' = "user"
      /\ Len(frames[on_cpu]) = 2 => Top(on_cpu)' = frames[on_cpu][1]
      /\ \A u \in Everyone : u # on_cpu => frames'[u] = frames[u] /\ Top(u)' = Top(u)
  BY <1>1, PopTop DEF timer_return, Iretq, FlagInFrame, IsrIInv, CpuInv, IsrTypes, Nested, Base,
     Keyboard, Timer, Handler, Everyone, AllTasks
<1>3. Booted(8)'
  BY <1>1, <1>2 DEF Booted, IsrIInv, CpuInv, IsrTypes, InService, OthersSwitched, timer_return,
     Iretq, FlagInFrame, Running, swapgs, SwapIfUser, deviceVars, apicVars, Keyboard, Timer,
     Handler, Base, Everyone, AllTasks
<1>2a. /\ (Len(frames[on_cpu]) = 1 \/ Len(frames[on_cpu]) = 2)
       /\ Top(on_cpu)' \in Base \union {"user"}
       /\ Top(on_cpu)' = "user" <=> Len(frames[on_cpu]) = 1
       /\ (Len(frames'[on_cpu]) = 0 \/ Len(frames'[on_cpu]) = 1) /\ (Top(on_cpu)' \in Base => Len(frames'[on_cpu]) = 1)
  <2>1. Len(frames[on_cpu]) = 1 \/ Len(frames[on_cpu]) = 2
    <3>1. on_cpu \in Everyone /\ Len(frames[on_cpu]) <= 2 /\ Top(on_cpu) # "user"
      BY DEF IsrIInv, CpuInv, IsrTypes, Nested, timer_return, Iretq, FlagInFrame
    <3>2. Len(frames[on_cpu]) \in Nat /\ Len(frames[on_cpu]) # 0
      BY <1>1, <3>1, TopKind DEF IsrTypes
    <3>3. \A n \in Nat : n # 0 /\ n <= 2 => n = 1 \/ n = 2
      OBVIOUS
    <3>4. QED
      BY <3>1, <3>2, <3>3, Zenon
  <2>2. Len(frames[on_cpu]) = 2 => frames[on_cpu][1] \in Base /\ frames[on_cpu][1] # "user"
    BY <1>1 DEF IsrIInv, CpuInv, IsrTypes, Nested, Base
  <2>3. QED
    BY <1>2, <2>1, <2>2 DEF Base
<1>4. IsrTypes'
  BY <1>1, <1>2, <1>2a, TopKind DEF IsrIInv, CpuInv, IsrTypes, Nested, OthersSwitched, InService,
     InSection, InCall, sectionVars, OffOnlyBehindSwitch, GsMatchesMode, Booted, timer_return,
     Iretq, FlagInFrame, Running, swapgs, SwapIfUser, deviceVars, apicVars, Keyboard, Timer,
     Handler, Base, Everyone, AllTasks
<1>5. Nested'
  <2> SUFFICES ASSUME NEW t \in Everyone
               PROVE  /\ Len(frames'[t]) <= 2
                      /\ Top(t)' \in Base => Len(frames'[t]) = 1
                      /\ Len(frames'[t]) = 2 => frames'[t][1] \in Base
    BY DEF Nested
  <2>1. CASE t = on_cpu
    <3>1. 0 <= 2 /\ 1 <= 2 /\ 0 # 2 /\ 1 # 2 /\ on_cpu' = on_cpu
      BY DEF timer_return
    <3>2. QED
      BY <1>2a, <2>1, <3>1, Zenon DEF Top
  <2>2. CASE t # on_cpu
    BY <1>2, <2>2 DEF IsrIInv, CpuInv, Nested
  <2>3. QED
    BY <2>1, <2>2
<1>6. OthersSwitched'
  BY <1>1, <1>2, <1>2a, TopKind DEF IsrIInv, CpuInv, IsrTypes, Nested, OthersSwitched, InService,
     InSection, InCall, sectionVars, OffOnlyBehindSwitch, GsMatchesMode, Booted, timer_return,
     Iretq, FlagInFrame, Running, swapgs, SwapIfUser, deviceVars, apicVars, Keyboard, Timer,
     Handler, Base, Everyone, AllTasks
<1>7. InService'
  BY <1>1, <1>2, <1>2a, TopKind DEF IsrIInv, CpuInv, IsrTypes, Nested, OthersSwitched, InService,
     InSection, InCall, sectionVars, OffOnlyBehindSwitch, GsMatchesMode, Booted, timer_return,
     Iretq, FlagInFrame, Running, swapgs, SwapIfUser, deviceVars, apicVars, Keyboard, Timer,
     Handler, Base, Everyone, AllTasks
<1>8. OffOnlyBehindSwitch'
  BY <1>1, <1>2, <1>2a, TopKind DEF IsrIInv, CpuInv, IsrTypes, Nested, OthersSwitched, InService,
     InSection, InCall, sectionVars, OffOnlyBehindSwitch, GsMatchesMode, Booted, timer_return,
     Iretq, FlagInFrame, Running, swapgs, SwapIfUser, deviceVars, apicVars, Keyboard, Timer,
     Handler, Base, Everyone, AllTasks
<1>9. GsMatchesMode'
  BY <1>1, <1>2, <1>2a, TopKind DEF IsrIInv, CpuInv, IsrTypes, Nested, OthersSwitched, InService,
     InSection, InCall, sectionVars, OffOnlyBehindSwitch, GsMatchesMode, Booted, timer_return,
     Iretq, FlagInFrame, Running, swapgs, SwapIfUser, deviceVars, apicVars, Keyboard, Timer,
     Handler, Base, Everyone, AllTasks
<1>9a. InSection'
  BY <1>1, <1>2, <1>2a, TopKind DEF IsrIInv, CpuInv, IsrTypes, Nested, OthersSwitched, InService,
     InSection, InCall, sectionVars, OffOnlyBehindSwitch, GsMatchesMode, Booted, timer_return,
     Iretq, FlagInFrame, Running, swapgs, SwapIfUser, deviceVars, apicVars, Keyboard, Timer,
     Handler, Base, Everyone, AllTasks
<1>10. ~unhandled'
  BY <1>1, <1>2 DEF IsrIInv, CpuInv, IsrTypes, Nested, OthersSwitched, InService, InSection, InCall,
     sectionVars, OffOnlyBehindSwitch, GsMatchesMode, Booted, timer_return, Iretq, FlagInFrame,
     Running, swapgs, SwapIfUser, deviceVars, apicVars, Keyboard, Timer, Handler, Base, Everyone,
     AllTasks
<1>11. QED
  BY <1>3, <1>4, <1>5, <1>6, <1>7, <1>8, <1>9, <1>9a, <1>10 DEF IsrIInv, CpuInv

\* A kernel task starts.
LEMMA Step_sched_task_start ==
  ASSUME IsrIInv, sched_task_start
  PROVE  IsrIInv'
<1>1. Booted(8) /\ IsrTypes
  BY RunningBooted DEF IsrIInv, CpuInv, sched_task_start
<1>2. /\ frames' \in [Everyone -> Seq(Base \union Handler)]
      /\ Top(on_cpu)' = "kernel"
      /\ Len(frames'[on_cpu]) = 1
      /\ \A u \in Everyone : u # on_cpu => frames'[u] = frames[u] /\ Top(u)' = Top(u)
  BY <1>1, FreshTop DEF sched_task_start, IsrIInv, CpuInv, IsrTypes, Nested, Base, Keyboard,
     Timer, Handler, Everyone, AllTasks
<1>3. Booted(8)'
  BY <1>1, <1>2 DEF Booted, IsrIInv, CpuInv, IsrTypes, InService, OthersSwitched,
     sched_task_start, Running, deviceVars, apicVars, Keyboard, Timer, Handler, Base, Everyone,
     AllTasks
<1>4. CpuInv'
  BY <1>1, <1>2, TopKind DEF IsrIInv, CpuInv, IsrTypes, Nested, OthersSwitched, InService,
     InSection, InCall, sectionVars, OffOnlyBehindSwitch, GsMatchesMode, Booted, sched_task_start,
     Running, deviceVars, apicVars, Keyboard, Timer, Handler, Base, Everyone, AllTasks
<1>5. QED
  BY <1>3, <1>4 DEF IsrIInv, CpuInv

\* A system call.
LEMMA Step_syscall_enter ==
  ASSUME IsrIInv, syscall_enter
  PROVE  IsrIInv'
<1>1. Booted(8) /\ IsrTypes
  BY RunningBooted DEF IsrIInv, CpuInv, syscall_enter, Push
<1>2. /\ frames' \in [Everyone -> Seq(Base \union Handler)]
      /\ Len(frames'[on_cpu]) = Len(frames[on_cpu]) + 1
      /\ Top(on_cpu)' = "call"
      /\ Len(frames[on_cpu]) = 1 => frames'[on_cpu][1] = Top(on_cpu)
      /\ \A u \in Everyone : u # on_cpu => frames'[u] = frames[u] /\ Top(u)' = Top(u)
  BY <1>1, PushTop DEF syscall_enter, Push, IsrIInv, CpuInv, IsrTypes, Nested, Base, Keyboard,
     Timer, Handler, Everyone, AllTasks
<1>3. Booted(8)'
  BY <1>1, <1>2 DEF Booted, IsrIInv, CpuInv, IsrTypes, InService, OthersSwitched, syscall_enter,
     Push, Running, swapgs, deviceVars, apicVars, Keyboard, Timer, Handler, Base, Everyone,
     AllTasks
<1>4. CpuInv'
  BY <1>1, <1>2, TopKind DEF IsrIInv, CpuInv, IsrTypes, Nested, OthersSwitched, InService,
     InSection, InCall, sectionVars, OffOnlyBehindSwitch, GsMatchesMode, Booted, syscall_enter,
     Push, Running, swapgs, deviceVars, apicVars, Keyboard, Timer, Handler, Base, Everyone, AllTasks
<1>5. QED
  BY <1>3, <1>4 DEF IsrIInv, CpuInv

\* The return of a system call, and the start of a user task.
LEMMA Step_syscall_leave ==
  ASSUME IsrIInv, syscall_leave
  PROVE  IsrIInv'
<1>1. Booted(8) /\ IsrTypes
  BY RunningBooted DEF IsrIInv, CpuInv, syscall_leave, InCall
<1>2. /\ frames' \in [Everyone -> Seq(Base \union Handler)]
      /\ Len(frames'[on_cpu]) = Len(frames[on_cpu]) - 1
      /\ Len(frames[on_cpu]) = 1 => Top(on_cpu)' = "user"
      /\ Len(frames[on_cpu]) = 2 => Top(on_cpu)' = frames[on_cpu][1]
      /\ \A u \in Everyone : u # on_cpu => frames'[u] = frames[u] /\ Top(u)' = Top(u)
  BY <1>1, PopTop DEF syscall_leave, InCall, IsrIInv, CpuInv, IsrTypes, Nested, Base, Keyboard,
     Timer, Handler, Everyone, AllTasks
<1>3. Booted(8)'
  BY <1>1, <1>2 DEF Booted, IsrIInv, CpuInv, IsrTypes, InService, OthersSwitched, syscall_leave,
     InCall, Running, swapgs, deviceVars, apicVars, Keyboard, Timer, Handler, Base, Everyone,
     AllTasks
<1>4. CpuInv'
  BY <1>1, <1>2, TopKind DEF IsrIInv, CpuInv, IsrTypes, Nested, OthersSwitched, InService,
     InSection, InCall, sectionVars, OffOnlyBehindSwitch, GsMatchesMode, Booted, syscall_leave,
     InCall, Running, swapgs, deviceVars, apicVars, Keyboard, Timer, Handler, Base, Everyone,
     AllTasks
<1>5. QED
  BY <1>3, <1>4 DEF IsrIInv, CpuInv

\* A call that blocks.
LEMMA Step_sched_block ==
  ASSUME IsrIInv, NEW n \in AllTasks, sched_block(n)
  PROVE  IsrIInv'
<1>1. Booted(8) /\ IsrTypes
  BY RunningBooted DEF IsrIInv, CpuInv, sched_block, switch_to
<1>2. \A t : Top(t)' = Top(t)
  BY SameTops DEF sched_block, switch_to
<1>3. Booted(8)'
  BY <1>1, <1>2 DEF Booted, IsrIInv, CpuInv, IsrTypes, InService, OthersSwitched, sched_block,
     switch_to, Running, deviceVars, apicVars, Keyboard, Timer, Handler, Base, Everyone, AllTasks
<1>4. CpuInv'
  BY <1>1, <1>2, TopKind DEF IsrIInv, CpuInv, IsrTypes, Nested, OthersSwitched, InService,
     InSection, InCall, sectionVars, OffOnlyBehindSwitch, GsMatchesMode, Booted, sched_block,
     switch_to, Running, deviceVars, apicVars, Keyboard, Timer, Handler, Base, Everyone, AllTasks
<1>5. QED
  BY <1>3, <1>4 DEF IsrIInv, CpuInv

\* fork and spawn.
LEMMA Step_sched_new ==
  ASSUME IsrIInv, NEW n \in AllTasks, sched_new(n)
  PROVE  IsrIInv'
<1>1. Booted(8) /\ IsrTypes
  BY RunningBooted DEF IsrIInv, CpuInv, EndOf, sched_new
<1>2. /\ frames' \in [Everyone -> Seq(Base \union Handler)]
      /\ Top(n)' = "start"
      /\ Len(frames'[n]) = 1
      /\ \A u \in Everyone : u # n => frames'[u] = frames[u] /\ Top(u)' = Top(u)
  BY <1>1, FreshTop DEF sched_new, IsrIInv, CpuInv, IsrTypes, Nested, Base, Keyboard, Timer,
     Handler, Everyone, AllTasks
<1>3. Booted(8)'
  BY <1>1, <1>2 DEF Booted, InSection, InCall, IsrIInv, CpuInv, IsrTypes, InService, OthersSwitched,
     sched_new, EndOf, Running, deviceVars, apicVars, Keyboard, Timer, Handler, Base, Everyone,
     AllTasks
<1>4. CpuInv'
  <2>1. IsrTypes'
    BY <1>1, <1>2, TopKind DEF IsrIInv, CpuInv, IsrTypes, Nested, OthersSwitched, InService,
       InSection, InCall, sectionVars, OffOnlyBehindSwitch, GsMatchesMode, Booted, sched_new, EndOf,
       Running, deviceVars, apicVars, Keyboard, Timer, Handler, Base, Everyone, AllTasks
  <2>2. Nested'
    BY <1>1, <1>2, TopKind DEF IsrIInv, CpuInv, IsrTypes, Nested, OthersSwitched, InService,
       InSection, InCall, sectionVars, OffOnlyBehindSwitch, GsMatchesMode, Booted, sched_new, EndOf,
       Running, deviceVars, apicVars, Keyboard, Timer, Handler, Base, Everyone, AllTasks
  <2>3. OthersSwitched'
    BY <1>1, <1>2, TopKind DEF IsrIInv, CpuInv, IsrTypes, Nested, OthersSwitched, InService,
       InSection, InCall, sectionVars, OffOnlyBehindSwitch, GsMatchesMode, Booted, sched_new, EndOf,
       Running, deviceVars, apicVars, Keyboard, Timer, Handler, Base, Everyone, AllTasks
  <2>4. InService'
    BY <1>1, <1>2, TopKind DEF IsrIInv, CpuInv, IsrTypes, Nested, OthersSwitched, InService,
       InSection, InCall, sectionVars, OffOnlyBehindSwitch, GsMatchesMode, Booted, sched_new, EndOf,
       Running, deviceVars, apicVars, Keyboard, Timer, Handler, Base, Everyone, AllTasks
  <2>5. InSection'
    BY <1>1, <1>2, TopKind DEF IsrIInv, CpuInv, IsrTypes, Nested, OthersSwitched, InService,
       InSection, InCall, sectionVars, OffOnlyBehindSwitch, GsMatchesMode, Booted, sched_new, EndOf,
       Running, deviceVars, apicVars, Keyboard, Timer, Handler, Base, Everyone, AllTasks
  <2>6. OffOnlyBehindSwitch'
    BY <1>1, <1>2, TopKind DEF IsrIInv, CpuInv, IsrTypes, Nested, OthersSwitched, InService,
       InSection, InCall, sectionVars, OffOnlyBehindSwitch, GsMatchesMode, Booted, sched_new, EndOf,
       Running, deviceVars, apicVars, Keyboard, Timer, Handler, Base, Everyone, AllTasks
  <2>7. GsMatchesMode'
    BY <1>1, <1>2, TopKind DEF IsrIInv, CpuInv, IsrTypes, Nested, OthersSwitched, InService,
       InSection, InCall, sectionVars, OffOnlyBehindSwitch, GsMatchesMode, Booted, sched_new, EndOf,
       Running, deviceVars, apicVars, Keyboard, Timer, Handler, Base, Everyone, AllTasks
  <2>8. ~unhandled'
    BY <1>1, <1>2, TopKind DEF IsrIInv, CpuInv, IsrTypes, Nested, OthersSwitched, InService,
       InSection, InCall, sectionVars, OffOnlyBehindSwitch, GsMatchesMode, Booted, sched_new, EndOf,
       Running, deviceVars, apicVars, Keyboard, Timer, Handler, Base, Everyone, AllTasks
  <2>9. QED
    BY <2>1, <2>2, <2>3, <2>4, <2>5, <2>6, <2>7, <2>8 DEF CpuInv
<1>5. QED
  BY <1>3, <1>4 DEF IsrIInv, CpuInv

\* execve.
LEMMA Step_sched_execve ==
  ASSUME IsrIInv, NEW n \in AllTasks, sched_execve(n)
  PROVE  IsrIInv'
<1> PICK c : c = on_cpu
  OBVIOUS
<1>1. Booted(8) /\ IsrTypes
  BY RunningBooted DEF IsrIInv, CpuInv, EndOf, sched_execve, switch_to
<1>2. /\ frames' \in [Everyone -> Seq(Base \union Handler)]
      /\ Top(c)' = "start"
      /\ Len(frames'[c]) = 1
      /\ \A u \in Everyone : u # c => frames'[u] = frames[u] /\ Top(u)' = Top(u)
  BY <1>1, FreshTop DEF sched_execve, switch_to, IsrIInv, CpuInv, IsrTypes, Nested, Base,
     Keyboard, Timer, Handler, Everyone, AllTasks
<1>3. Booted(8)'
  BY <1>1, <1>2 DEF Booted, InSection, InCall, IsrIInv, CpuInv, IsrTypes, InService, OthersSwitched,
     sched_execve, switch_to, EndOf, Running, deviceVars, apicVars, Keyboard, Timer, Handler, Base,
     Everyone, AllTasks
<1>4. IsrTypes'
  BY <1>1, <1>2, TopKind DEF IsrIInv, CpuInv, IsrTypes, Nested, OthersSwitched, InService,
     InSection, InCall, sectionVars, OffOnlyBehindSwitch, GsMatchesMode, Booted, sched_execve,
     switch_to, EndOf, Running, deviceVars, apicVars, Keyboard, Timer, Handler, Base, Everyone,
     AllTasks
<1>5. Nested'
  BY <1>1, <1>2, TopKind DEF IsrIInv, CpuInv, IsrTypes, Nested, OthersSwitched, InService,
     InSection, InCall, sectionVars, OffOnlyBehindSwitch, GsMatchesMode, Booted, sched_execve,
     switch_to, EndOf, Running, deviceVars, apicVars, Keyboard, Timer, Handler, Base, Everyone,
     AllTasks
<1>6. OthersSwitched'
  BY <1>1, <1>2, TopKind DEF IsrIInv, CpuInv, IsrTypes, Nested, OthersSwitched, InService,
     InSection, InCall, sectionVars, OffOnlyBehindSwitch, GsMatchesMode, Booted, sched_execve,
     switch_to, EndOf, Running, deviceVars, apicVars, Keyboard, Timer, Handler, Base, Everyone,
     AllTasks
<1>7. InService'
  BY <1>1, <1>2, TopKind DEF IsrIInv, CpuInv, IsrTypes, Nested, OthersSwitched, InService,
     InSection, InCall, sectionVars, OffOnlyBehindSwitch, GsMatchesMode, Booted, sched_execve,
     switch_to, EndOf, Running, deviceVars, apicVars, Keyboard, Timer, Handler, Base, Everyone,
     AllTasks
<1>8. OffOnlyBehindSwitch'
  BY <1>1, <1>2, TopKind DEF IsrIInv, CpuInv, IsrTypes, Nested, OthersSwitched, InService,
     InSection, InCall, sectionVars, OffOnlyBehindSwitch, GsMatchesMode, Booted, sched_execve,
     switch_to, EndOf, Running, deviceVars, apicVars, Keyboard, Timer, Handler, Base, Everyone,
     AllTasks
<1>9. GsMatchesMode'
  BY <1>1, <1>2, TopKind DEF IsrIInv, CpuInv, IsrTypes, Nested, OthersSwitched, InService,
     InSection, InCall, sectionVars, OffOnlyBehindSwitch, GsMatchesMode, Booted, sched_execve,
     switch_to, EndOf, Running, deviceVars, apicVars, Keyboard, Timer, Handler, Base, Everyone,
     AllTasks
<1>9a. InSection'
  BY <1>1, <1>2, TopKind DEF IsrIInv, CpuInv, IsrTypes, Nested, OthersSwitched, InService,
     InSection, InCall, sectionVars, OffOnlyBehindSwitch, GsMatchesMode, Booted, sched_execve,
     switch_to, EndOf, Running, deviceVars, apicVars, Keyboard, Timer, Handler, Base, Everyone,
     AllTasks
<1>10. ~unhandled'
  BY <1>1, <1>2 DEF IsrIInv, CpuInv, IsrTypes, Nested, OthersSwitched, InService, InSection, InCall,
     sectionVars, OffOnlyBehindSwitch, GsMatchesMode, Booted, sched_execve, switch_to, EndOf,
     Running, deviceVars, apicVars, Keyboard, Timer, Handler, Base, Everyone, AllTasks
<1>11. QED
  BY <1>3, <1>4, <1>5, <1>6, <1>7, <1>8, <1>9, <1>9a, <1>10 DEF IsrIInv, CpuInv

\* exit.
LEMMA Step_sched_exit ==
  ASSUME IsrIInv, NEW n \in AllTasks, sched_exit(n)
  PROVE  IsrIInv'
<1>1. Booted(8) /\ IsrTypes
  BY RunningBooted DEF IsrIInv, CpuInv, EndOf, sched_exit, switch_to
<1>2. \A t : Top(t)' = Top(t)
  BY SameTops DEF sched_exit, switch_to
<1>3. Booted(8)'
  BY <1>1, <1>2 DEF Booted, InSection, InCall, IsrIInv, CpuInv, IsrTypes, InService, OthersSwitched,
     sched_exit, switch_to, EndOf, Running, deviceVars, apicVars, Keyboard, Timer, Handler, Base,
     Everyone, AllTasks
<1>4. CpuInv'
  <2>1. IsrTypes'
    BY <1>1, <1>2, TopKind DEF IsrIInv, CpuInv, IsrTypes, Nested, OthersSwitched, InService,
       InSection, InCall, sectionVars, OffOnlyBehindSwitch, GsMatchesMode, Booted, sched_exit,
       switch_to, EndOf, Running, deviceVars, apicVars, Keyboard, Timer, Handler, Base, Everyone,
       AllTasks
  <2>2. Nested'
    BY <1>1, <1>2, TopKind DEF IsrIInv, CpuInv, IsrTypes, Nested, OthersSwitched, InService,
       InSection, InCall, sectionVars, OffOnlyBehindSwitch, GsMatchesMode, Booted, sched_exit,
       switch_to, EndOf, Running, deviceVars, apicVars, Keyboard, Timer, Handler, Base, Everyone,
       AllTasks
  <2>3. OthersSwitched'
    BY <1>1, <1>2, TopKind DEF IsrIInv, CpuInv, IsrTypes, Nested, OthersSwitched, InService,
       InSection, InCall, sectionVars, OffOnlyBehindSwitch, GsMatchesMode, Booted, sched_exit,
       switch_to, EndOf, Running, deviceVars, apicVars, Keyboard, Timer, Handler, Base, Everyone,
       AllTasks
  <2>4. InService'
    BY <1>1, <1>2, TopKind DEF IsrIInv, CpuInv, IsrTypes, Nested, OthersSwitched, InService,
       InSection, InCall, sectionVars, OffOnlyBehindSwitch, GsMatchesMode, Booted, sched_exit,
       switch_to, EndOf, Running, deviceVars, apicVars, Keyboard, Timer, Handler, Base, Everyone,
       AllTasks
  <2>5. InSection'
    BY <1>1, <1>2, TopKind DEF IsrIInv, CpuInv, IsrTypes, Nested, OthersSwitched, InService,
       InSection, InCall, sectionVars, OffOnlyBehindSwitch, GsMatchesMode, Booted, sched_exit,
       switch_to, EndOf, Running, deviceVars, apicVars, Keyboard, Timer, Handler, Base, Everyone,
       AllTasks
  <2>6. OffOnlyBehindSwitch'
    BY <1>1, <1>2, TopKind DEF IsrIInv, CpuInv, IsrTypes, Nested, OthersSwitched, InService,
       InSection, InCall, sectionVars, OffOnlyBehindSwitch, GsMatchesMode, Booted, sched_exit,
       switch_to, EndOf, Running, deviceVars, apicVars, Keyboard, Timer, Handler, Base, Everyone,
       AllTasks
  <2>7. GsMatchesMode'
    BY <1>1, <1>2, TopKind DEF IsrIInv, CpuInv, IsrTypes, Nested, OthersSwitched, InService,
       InSection, InCall, sectionVars, OffOnlyBehindSwitch, GsMatchesMode, Booted, sched_exit,
       switch_to, EndOf, Running, deviceVars, apicVars, Keyboard, Timer, Handler, Base, Everyone,
       AllTasks
  <2>8. ~unhandled'
    BY <1>1, <1>2, TopKind DEF IsrIInv, CpuInv, IsrTypes, Nested, OthersSwitched, InService,
       InSection, InCall, sectionVars, OffOnlyBehindSwitch, GsMatchesMode, Booted, sched_exit,
       switch_to, EndOf, Running, deviceVars, apicVars, Keyboard, Timer, Handler, Base, Everyone,
       AllTasks
  <2>9. QED
    BY <2>1, <2>2, <2>3, <2>4, <2>5, <2>6, <2>7, <2>8 DEF CpuInv
<1>5. QED
  BY <1>3, <1>4 DEF IsrIInv, CpuInv

\* The beginning of a section with interrupts off, and the end of one that
\* returns to its call.
LEMMA Step_section ==
  ASSUME IsrIInv, (\E s \in {"new", "wait", "execve", "exit"} : spin_lock_irq(s)) \/ spin_unlock_irq
  PROVE  IsrIInv'
<1>1. Booted(8) /\ IsrTypes
  BY RunningBooted DEF IsrIInv, CpuInv, spin_lock_irq, spin_unlock_irq, EndOf
<1>2. \A t : Top(t)' = Top(t)
  BY SameTops DEF spin_lock_irq, spin_unlock_irq
<1>3. Booted(8)'
  BY <1>1, <1>2 DEF Booted, IsrIInv, CpuInv, IsrTypes, spin_lock_irq, spin_unlock_irq, deviceVars,
     apicVars
<1>4. CpuInv'
  <2>1. IsrTypes'
    BY <1>1, <1>2, TopKind DEF IsrIInv, CpuInv, IsrTypes, Nested, OthersSwitched, InService,
       InSection, InCall, OffOnlyBehindSwitch, GsMatchesMode, spin_lock_irq, spin_unlock_irq, EndOf,
       Running, deviceVars, apicVars, Keyboard, Timer, Handler
  <2>2. Nested'
    BY <1>1, <1>2, TopKind DEF IsrIInv, CpuInv, IsrTypes, Nested, OthersSwitched, InService,
       InSection, InCall, OffOnlyBehindSwitch, GsMatchesMode, spin_lock_irq, spin_unlock_irq, EndOf,
       Running, deviceVars, apicVars, Keyboard, Timer, Handler
  <2>3. OthersSwitched'
    BY <1>1, <1>2, TopKind DEF IsrIInv, CpuInv, IsrTypes, Nested, OthersSwitched, InService,
       InSection, InCall, OffOnlyBehindSwitch, GsMatchesMode, spin_lock_irq, spin_unlock_irq, EndOf,
       Running, deviceVars, apicVars, Keyboard, Timer, Handler
  <2>4. InService'
    BY <1>1, <1>2, TopKind DEF IsrIInv, CpuInv, IsrTypes, Nested, OthersSwitched, InService,
       InSection, InCall, OffOnlyBehindSwitch, GsMatchesMode, spin_lock_irq, spin_unlock_irq, EndOf,
       Running, deviceVars, apicVars, Keyboard, Timer, Handler
  <2>5. InSection'
    BY <1>1, <1>2, TopKind DEF IsrIInv, CpuInv, IsrTypes, Nested, OthersSwitched, InService,
       InSection, InCall, OffOnlyBehindSwitch, GsMatchesMode, spin_lock_irq, spin_unlock_irq, EndOf,
       Running, deviceVars, apicVars, Keyboard, Timer, Handler
  <2>6. OffOnlyBehindSwitch'
    BY <1>1, <1>2, TopKind DEF IsrIInv, CpuInv, IsrTypes, Nested, OthersSwitched, InService,
       InSection, InCall, OffOnlyBehindSwitch, GsMatchesMode, spin_lock_irq, spin_unlock_irq, EndOf,
       Running, deviceVars, apicVars, Keyboard, Timer, Handler
  <2>7. GsMatchesMode'
    BY <1>1, <1>2, TopKind DEF IsrIInv, CpuInv, IsrTypes, Nested, OthersSwitched, InService,
       InSection, InCall, OffOnlyBehindSwitch, GsMatchesMode, spin_lock_irq, spin_unlock_irq, EndOf,
       Running, deviceVars, apicVars, Keyboard, Timer, Handler
  <2>8. ~unhandled'
    BY <1>1, <1>2, TopKind DEF IsrIInv, CpuInv, IsrTypes, Nested, OthersSwitched, InService,
       InSection, InCall, OffOnlyBehindSwitch, GsMatchesMode, spin_lock_irq, spin_unlock_irq, EndOf,
       Running, deviceVars, apicVars, Keyboard, Timer, Handler
  <2>9. QED
    BY <2>1, <2>2, <2>3, <2>4, <2>5, <2>6, <2>7, <2>8 DEF CpuInv
<1>5. QED
  BY <1>3, <1>4 DEF IsrIInv, CpuInv

\* The lock.
LEMMA Step_spin ==
  ASSUME IsrIInv, spin_reach \/ spin_acquire \/ spin_release
  PROVE  IsrIInv'
<1>1. Booted(8) /\ IsrTypes
  BY RunningBooted DEF IsrIInv, CpuInv, spin_reach, spin_acquire, spin_release
<1>2. \A t : Top(t)' = Top(t)
  BY SameTops DEF spin_reach, spin_acquire, spin_release
<1>3. Booted(8)'
  BY <1>1, <1>2 DEF Booted, IsrIInv, CpuInv, IsrTypes, InService, OthersSwitched, spin_reach,
     spin_acquire, spin_release, Running, deviceVars, apicVars, Keyboard, Timer, Handler, Base,
     Everyone, AllTasks
<1>4. CpuInv'
  BY <1>1, <1>2, TopKind DEF IsrIInv, CpuInv, IsrTypes, Nested, OthersSwitched, InService,
     InSection, InCall, sectionVars, OffOnlyBehindSwitch, GsMatchesMode, Booted, spin_reach,
     spin_acquire, spin_release, Running, deviceVars, apicVars, Keyboard, Timer, Handler, Base,
     Everyone, AllTasks
<1>5. QED
  BY <1>3, <1>4 DEF IsrIInv, CpuInv

-----------------------------------------------------------------------------
(* The theorems.                                                           *)

\* The invariant holds from the start of kernel_main on, through boot, keys,
\* ticks, system calls and switches.
THEOREM IsrInvariant == IsrSpec => []IsrIInv
<1>1. IsrInit => IsrIInv
  <2> SUFFICES ASSUME IsrInit PROVE IsrIInv
    OBVIOUS
  <2>1. /\ frames \in [Everyone -> Seq(Base \union Handler)]
        /\ \A t \in Everyone : Len(frames[t]) = 1 /\ Top(t) \in {"kernel", "kernel_start", "start"}
        /\ frames[Boot] = <<"kernel">> /\ Top(Boot) = "kernel"
    <3>1. \A t \in Everyone : frames[t] \in {<<"kernel">>, <<"kernel_start">>, <<"start">>}
      BY DEF IsrInit, Everyone
    <3>2. frames[Boot] = <<"kernel">>
      BY DEF IsrInit
    <3>3. frames \in [Everyone -> Seq(Base \union Handler)]
      <4>1. \A f \in Base : <<f>> \in Seq(Base \union Handler)
        OBVIOUS
      <4>2. \A t \in Everyone : frames[t] \in Seq(Base \union Handler)
        BY <3>1, <4>1 DEF Base
      <4>3. QED
        BY <4>2 DEF IsrInit, Everyone
    <3>4. ASSUME NEW t \in Everyone
          PROVE  Len(frames[t]) = 1 /\ Top(t) \in {"kernel", "kernel_start", "start"}
      <4>1. CASE frames[t] = <<"kernel">>
        BY <4>1 DEF Top
      <4>2. CASE frames[t] = <<"kernel_start">>
        BY <4>2 DEF Top
      <4>3. CASE frames[t] = <<"start">>
        BY <4>3 DEF Top
      <4>4. QED
        BY <3>1, <4>1, <4>2, <4>3
    <3>5. QED
      BY <3>2, <3>3, <3>4 DEF Top
  <2>2. Booted(0)
    BY <2>1, RestFacts DEF IsrInit, Booted
  <2>3. CpuInv
    <3>1. IsrTypes
      BY <2>1 DEF IsrInit, IsrTypes, Everyone
    <3>2. \A t \in Everyone : Len(frames[t]) <= 2 /\ Len(frames[t]) # 2
      <4>1. 1 <= 2 /\ 1 # 2
        OBVIOUS
      <4>2. QED
        BY <2>1, <4>1, Zenon
    <3>2a. Nested
      BY <2>1, <3>2 DEF Nested
    <3>2b. OthersSwitched
      BY <2>1 DEF OthersSwitched, Base
    <3>3. InService /\ InSection /\ OffOnlyBehindSwitch /\ GsMatchesMode /\ ~unhandled
      BY <2>1 DEF IsrInit, InService, InSection, InCall, sectionVars, OffOnlyBehindSwitch,
         GsMatchesMode, Handler, Keyboard, Timer
    <3>4. QED
      BY <3>1, <3>2a, <3>2b, <3>3 DEF CpuInv
  <2>4. QED
    BY <2>2, <2>3 DEF IsrIInv, CpuInv
<1>2. ASSUME IsrIInv, IsrNext PROVE IsrIInv'
  BY <1>2, BootStep, DeviceStep, Step_intr_common_handler, Step_keyboard_callback,
     Step_keyboard_eoi, Step_timer_switch_context, Step_timer_return, Step_sched_task_start,
     Step_syscall_enter, Step_syscall_leave, Step_sched_block, Step_sched_new, Step_sched_execve,
     Step_sched_exit, Step_section, Step_spin DEF IsrNext
<1>3. ASSUME IsrIInv, UNCHANGED isrVars PROVE IsrIInv'
  BY <1>3 DEF isrVars, IsrIInv, CpuInv, IsrTypes, Nested, OthersSwitched, InService,
     InSection, InCall, sectionVars, OffOnlyBehindSwitch, GsMatchesMode, Booted, Top
<1>4. QED
  BY <1>1, <1>2, <1>3, PTL DEF IsrSpec

\* In kernel mode it is always the kernel's gs base that is active.
THEOREM IsrGsMatchesMode == IsrSpec => []GsMatchesMode
<1>1. IsrIInv => GsMatchesMode
  BY DEF IsrIInv, CpuInv
<1>2. QED
  BY <1>1, IsrInvariant, PTL

\* Whoever runs with interrupts on can be interrupted: apic_send_eoi has ended
\* what was in service before the handler switched or returned.
THEOREM IsrServiceEnds == IsrSpec => []ServiceEnds
<1>1. IsrIInv => ServiceEnds
  BY DEF IsrIInv, CpuInv, InService, ServiceEnds, Handler
<1>2. QED
  BY <1>1, IsrInvariant, PTL

\* No key stops the keyboard, and no interrupt is without a handler.
THEOREM IsrKeysArrive == IsrSpec => []KeysArrive
<1>1. ASSUME IsrIInv PROVE KeysArrive
  <2>1. PICK k \in 0 .. 8 : Booted(k)
    BY <1>1 DEF IsrIInv, CpuInv
  <2>2. ASSUME "enable" \notin {booting[i] : i \in 1 .. Len(booting)} PROVE 5 <= k
    BY <2>1, <2>2, RestFacts DEF Booted
  <2>3. QED
    BY <1>1, <2>1, <2>2 DEF KeysArrive, Booted, IsrIInv, CpuInv, IsrTypes, Everyone
<1>2. QED
  BY <1>1, IsrInvariant, PTL

\* A task that spins on vfs_lock with interrupts off is behind a switch or in a
\* section under spin_lock_irq.
THEOREM IsrSpinsAreInterrupted == IsrSpec => []SpinsAreInterrupted
<1>1. IsrIInv => SpinsAreInterrupted
  BY DEF IsrIInv, CpuInv, OffOnlyBehindSwitch, SpinsAreInterrupted, InCall
<1>2. QED
  BY <1>1, IsrInvariant, PTL

=============================================================================
