--------------------------- MODULE SyscallEntry ----------------------------
(***************************************************************************)
(* Entering and leaving the kernel: syscall_handler0 (proc/                *)
(* syscall_support.S), the user-mode start of a task (sched_support.S),    *)
(* and what task_fork and sched_again do to the same state.                *)
(*                                                                         *)
(* The handler's first and last instructions run with interrupts off       *)
(* (SFMASK, cli) and are one step each; in between, and in user mode, any  *)
(* other task may be given the processor.                                  *)
(***************************************************************************)
CONSTANTS
  Tasks,    \* user tasks
  First,    \* the one that runs first
  Rips,     \* user instruction pointers
  Rsps,     \* user stack pointers
  Null

ASSUME SyscallAssumption == First \in Tasks /\ Null \notin Tasks \union Rips \union Rsps

VARIABLES
  mode,     \* "none" before a task is created and after it ends, "user", "kernel"
  running,  \* running_tasks[cpu->id]
  kstack,   \* cpu->kstack: the task whose kernel stack a system call uses
  rsp0,     \* cpu->tss->rsp0: the task whose kernel stack an interrupt uses
  ustack,   \* cpu->ustack: the user rsp of the last system call
  rip, rsp, \* per task: its user registers; in the kernel, as they were on entry
  frame     \* per task: the user rip at the top of its kernel stack

vars == <<mode, running, kstack, rsp0, ustack, rip, rsp, frame>>

Init ==
  /\ mode = [t \in Tasks |-> IF t = First THEN "user" ELSE "none"]
  /\ running = First
  /\ kstack = First /\ rsp0 = First
  /\ ustack = Null
  /\ rip \in [Tasks -> Rips] /\ rsp \in [Tasks -> Rsps]
  /\ frame = [t \in Tasks |-> Null]

InUser(t) == running = t /\ mode[t] = "user"
InKernel(t) == running = t /\ mode[t] = "kernel"

\* The task computes: calls and jumps change its registers.
user_step(t) ==
  /\ InUser(t)
  /\ \E i \in Rips : rip' = [rip EXCEPT ![t] = i]
  /\ \E s \in Rsps : rsp' = [rsp EXCEPT ![t] = s]
  /\ UNCHANGED <<mode, running, kstack, rsp0, ustack, frame>>

\* Mutant: the user rip is saved in the processor's block, like the user rsp.
EntryStack_shared == First

\* The stack the handler switches to: movq %gs:PERCPU_KSTACK, %rsp.
EntryStack == kstack

\* syscall_handler0 up to sti: save the user rsp in cpu->ustack, push rip.
syscall_entry(t) ==
  /\ InUser(t)
  /\ ustack' = rsp[t]
  /\ frame' = [frame EXCEPT ![EntryStack] = rip[t]]
  /\ mode' = [mode EXCEPT ![t] = "kernel"]
  /\ UNCHANGED <<running, kstack, rsp0, rip, rsp>>

\* syscall_handler0 from cli on: pop rip, note the kernel rsp, restore the user
\* rsp from cpu->ustack.
syscall_return(t) ==
  /\ InKernel(t)
  /\ rip' = [rip EXCEPT ![t] = frame[t]]
  /\ rsp' = [rsp EXCEPT ![t] = ustack]
  /\ kstack' = t
  /\ frame' = [frame EXCEPT ![t] = Null]
  /\ mode' = [mode EXCEPT ![t] = "user"]
  /\ UNCHANGED <<running, rsp0, ustack>>

\* Mutant: sched_again leaves the system-call stack of the previous task.
KstackOf_previous(n) == kstack

\* cpu->kstack = next->klimit + TASK_STACK_SIZE_32KB in sched_again.
KstackOf(n) == n

\* sched_again hands the processor to n, from an interrupt or a system call.
switch(n) ==
  /\ mode[n] # "none" /\ n # running
  /\ running' = n
  /\ kstack' = KstackOf(n)
  /\ rsp0' = n
  /\ UNCHANGED <<mode, ustack, rip, rsp, frame>>

\* task_fork in a system call of t: the child n returns to user mode with the
\* rip on its parent's kernel stack and the rsp in cpu->ustack.
task_fork(t, n) ==
  /\ InKernel(t) /\ mode[n] = "none"
  /\ mode' = [mode EXCEPT ![n] = "user"]
  /\ rip' = [rip EXCEPT ![n] = frame[t]]
  /\ rsp' = [rsp EXCEPT ![n] = ustack]
  /\ UNCHANGED <<running, kstack, rsp0, ustack, frame>>

\* execve: the task starts again in user mode on a new kernel stack, with the
\* entry point and the fresh user stack in its trap frame.
execve(t) ==
  /\ InKernel(t)
  /\ mode' = [mode EXCEPT ![t] = "user"]
  /\ \E i \in Rips : rip' = [rip EXCEPT ![t] = i]
  /\ \E s \in Rsps : rsp' = [rsp EXCEPT ![t] = s]
  /\ frame' = [frame EXCEPT ![t] = Null]
  /\ UNCHANGED <<running, kstack, rsp0, ustack>>

\* exit: the task ends and sched_again gives the processor to n.
exit(t, n) ==
  /\ InKernel(t) /\ mode[n] # "none" /\ n # t
  /\ mode' = [mode EXCEPT ![t] = "none"]
  /\ frame' = [frame EXCEPT ![t] = Null]
  /\ running' = n
  /\ kstack' = KstackOf(n)
  /\ rsp0' = n
  /\ UNCHANGED <<ustack, rip, rsp>>

Next ==
  \E t \in Tasks :
    \/ user_step(t) \/ syscall_entry(t) \/ syscall_return(t) \/ execve(t)
    \/ switch(t)
    \/ \E n \in Tasks : task_fork(t, n) \/ exit(t, n)

Spec == Init /\ [][Next]_vars

-----------------------------------------------------------------------------
(* Properties.                                                             *)

\* Registers, stacks and modes have values of their kinds.
TypeOK ==
  /\ mode \in [Tasks -> {"none", "user", "kernel"}]
  /\ running \in Tasks /\ kstack \in Tasks /\ rsp0 \in Tasks
  /\ ustack \in Rsps \union {Null}
  /\ rip \in [Tasks -> Rips] /\ rsp \in [Tasks -> Rsps]
  /\ frame \in [Tasks -> Rips \union {Null}]

\* A system call or an interrupt always lands on the running task's own kernel
\* stack, so that no task's frame is overwritten by another's: through every
\* switch, the frame of a task in a system call is the one it pushed.
KernelStacksOwned ==
  /\ kstack = running /\ rsp0 = running
  /\ \A t \in Tasks : frame[t] = IF mode[t] = "kernel" THEN rip[t] ELSE Null

\* A system call returns to the instruction after it, and the child of a fork
\* starts there too, whoever else made system calls in the meantime.
RipKept ==
  [][\A t, n \in Tasks :
       /\ syscall_return(t) => rip'[t] = rip[t]
       /\ task_fork(t, n) => rip'[n] = rip[t]]_vars

\* A system call returns on the user stack it was made from, and the child of
\* a fork starts on its copy of it.
RspKept ==
  [][\A t, n \in Tasks :
       /\ syscall_return(t) => rsp'[t] = rsp[t]
       /\ task_fork(t, n) => rsp'[n] = rsp[t]]_vars
=============================================================================
