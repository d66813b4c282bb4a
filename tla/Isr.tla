-------------------------------- MODULE Isr ---------------------------------
(***************************************************************************)
(* Interrupts: the setup of the keyboard's pin and of the timer            *)
(* (system/isr.c, apic.c, timer.c, keyboard_init), their way to a handler  *)
(* (intr_common_handler), and what the handlers, system calls and          *)
(* __switch_to do to the interrupt flag, the gs base and the interrupts in *)
(* service.                                                                *)
(*                                                                         *)
(* One processor.  A task in user mode has an empty stack of frames; a     *)
(* system call, the start of a task and an interrupt push one.  vfs_lock   *)
(* stands for the locks that are taken with spin_lock, which leaves        *)
(* interrupts as they are.  Keys and ticks arrive at any time.             *)
(***************************************************************************)
EXTENDS Integers, Sequences

CONSTANTS
  ITasks,          \* user tasks
  IFirst, Core,    \* the shell, and the kernel's own task: both made by kernel_main
  Overridden       \* does the firmware describe the keyboard's pin in the MADT?

ASSUME IsrAssumption == IFirst \in ITasks /\ Core \notin ITasks /\ Overridden \in BOOLEAN

Boot == "kernel_main"   \* runs until the first tick, and never again
AllTasks == ITasks \union {Core}

Keyboard == "keyboard"
Timer == "timer"

VARIABLES
  booting,     \* the steps of the boot sequence still to be made
  rte,         \* the keyboard's redirection entry: is it set up, is it masked?
  isr_handler, \* per interrupt: the handler in isr_registers
  port_on,     \* does the PS/2 controller let the keyboard send?
  obf,         \* its output buffer is full
  timer_on,    \* the timer is not masked
  irr, isr,    \* local APIC: interrupts requested and in service
  iflag,       \* the interrupt flag
  gs,          \* "user" or "kernel": which gs base is active
  on_cpu,      \* the task that has the processor
  frames,      \* per task: its stack of frames
  ended,       \* tasks that have ended or have not been made
  lock,        \* who holds vfs_lock, or {}
  wants,       \* the tasks that are at spin_lock(&vfs_lock)
  section,     \* which section under spin_lock_irq the task on the processor is in, or "none"
  irq_flags,   \* the interrupt flag spin_lock_irq has saved for it
  blocked,     \* ghost: tasks that have been switched away from in this call by sched_again
  unhandled    \* unhandled_interrupt_handler has run: panic

isrVars == <<booting, rte, isr_handler, port_on, obf, timer_on, irr, isr, iflag, gs, on_cpu,
             frames, ended, lock, wants, section, irq_flags, blocked, unhandled>>

\* Mutant: the port is enabled before the pin is.
BootOrder_early ==
  <<"disable", "setup", "register", "enable", "unmask", "timer_handler", "timer_start", "sti">>

\* keyboard_init, sched_init and the end of kernel_main, in their order.
BootOrder ==
  <<"disable", "setup", "register", "unmask", "enable", "timer_handler", "timer_start", "sti">>

IsrInit ==
  /\ booting = BootOrder
  /\ rte = [set |-> FALSE, masked |-> TRUE]
  /\ isr_handler = [v \in {Keyboard, Timer} |-> "unhandled"]
  /\ port_on = TRUE /\ obf \in BOOLEAN
  /\ timer_on = FALSE
  /\ irr = {} /\ isr = {}
  /\ iflag = FALSE /\ gs = "kernel"
  /\ on_cpu = Boot
  /\ frames = [t \in AllTasks \union {Boot} |->
                 IF t = Boot THEN <<"kernel">> ELSE IF t = Core THEN <<"kernel_start">> ELSE <<"start">>]
  /\ ended = ITasks \ {IFirst}
  /\ lock = {} /\ wants = {} /\ blocked = {}
  /\ section = "none" /\ irq_flags = FALSE
  /\ unhandled = FALSE

sectionVars == <<section, irq_flags>>
cpuVars == <<iflag, gs, on_cpu, frames, ended, lock, wants, sectionVars, blocked>>
apicVars == <<irr, isr>>
Running == ~unhandled /\ booting = <<>>

-----------------------------------------------------------------------------
(* Boot.                                                                   *)

\* The next step of the boot sequence, with what it changes.
Step(name) == ~unhandled /\ booting # <<>> /\ Head(booting) = name /\ booting' = Tail(booting)

\* keyboard_init: no more bytes, and the old ones are dropped.
ps2_disable ==
  /\ Step("disable")
  /\ port_on' = FALSE /\ obf' = FALSE
  /\ UNCHANGED <<rte, isr_handler, timer_on, apicVars, cpuVars, unhandled>>

\* isr_setup_irq: the vector; with an override also the flags, and the mask.
isr_setup_irq ==
  /\ Step("setup")
  /\ rte' = [set |-> TRUE, masked |-> IF Overridden THEN TRUE ELSE rte.masked]
  /\ UNCHANGED <<isr_handler, port_on, obf, timer_on, apicVars, cpuVars, unhandled>>

\* isr_register_handler.
isr_register_handler(v, step) ==
  /\ Step(step)
  /\ isr_handler' = [isr_handler EXCEPT ![v] = v]
  /\ UNCHANGED <<rte, port_on, obf, timer_on, apicVars, cpuVars, unhandled>>

\* isr_enable_irq: clears the mask of the pin.
isr_enable_irq ==
  /\ Step("unmask")
  /\ rte' = [rte EXCEPT !.masked = FALSE]
  /\ UNCHANGED <<isr_handler, port_on, obf, timer_on, apicVars, cpuVars, unhandled>>

ps2_enable ==
  /\ Step("enable")
  /\ port_on' = TRUE
  /\ UNCHANGED <<rte, isr_handler, obf, timer_on, apicVars, cpuVars, unhandled>>

apic_timer_start ==
  /\ Step("timer_start")
  /\ timer_on' = TRUE
  /\ UNCHANGED <<rte, isr_handler, port_on, obf, apicVars, cpuVars, unhandled>>

\* isr_enable_interrupts in kernel_main, which then waits for the first tick.
isr_enable_interrupts ==
  /\ Step("sti")
  /\ iflag' = TRUE
  /\ UNCHANGED <<rte, isr_handler, port_on, obf, timer_on, apicVars, gs, on_cpu, frames, ended, lock,
                 wants, sectionVars, blocked, unhandled>>

-----------------------------------------------------------------------------
(* Devices.                                                                *)

\* The keyboard sends a byte: an edge on the pin, lost if the pin is masked.
key ==
  /\ ~unhandled /\ port_on /\ ~obf
  /\ obf' = TRUE
  /\ irr' = IF rte.masked THEN irr ELSE irr \union {Keyboard}
  /\ UNCHANGED <<booting, rte, isr_handler, port_on, timer_on, isr, cpuVars, unhandled>>

tick ==
  /\ ~unhandled /\ timer_on
  /\ irr' = irr \union {Timer}
  /\ UNCHANGED <<booting, rte, isr_handler, port_on, obf, timer_on, isr, cpuVars, unhandled>>

deviceVars == <<booting, rte, isr_handler, port_on, obf, timer_on>>

-----------------------------------------------------------------------------
(* Interrupts.                                                             *)

Top(t) == IF frames[t] = <<>> THEN "user" ELSE frames[t][Len(frames[t])]
Push(t, f) == frames' = [frames EXCEPT ![t] = Append(@, f)]
Pop(t) == frames' = [frames EXCEPT ![t] = SubSeq(@, 1, Len(@) - 1)]
swapgs == IF gs = "user" THEN "kernel" ELSE "user"

\* Mutant: the test of cs is left out.
SwapIfUser_always(user) == swapgs

\* if (trap_frame->cs == USER_CODE_SELECTOR) swapgs.
SwapIfUser(user) == IF user THEN swapgs ELSE gs

\* The processor takes an interrupt, the timer's before the keyboard's, and
\* intr_common_handler calls its handler.
intr_common_handler(v) ==
  /\ Running /\ iflag /\ v \in irr
  /\ isr \cap {v, Timer} = {} /\ (v = Keyboard => Timer \notin irr)
  /\ irr' = irr \ {v} /\ isr' = isr \union {v}
  /\ iflag' = FALSE
  /\ gs' = SwapIfUser(Top(on_cpu) = "user")
  /\ Push(on_cpu, v)
  /\ unhandled' = (isr_handler[v] = "unhandled")
  /\ UNCHANGED <<on_cpu, ended, lock, wants, sectionVars, blocked, deviceVars>>

\* apic_send_eoi ends what is in service with the highest priority.
AfterEoi == isr \ (IF Timer \in isr THEN {Timer} ELSE {Keyboard})

\* keyboard_callback reads the byte; a new one may come before the EOI.
keyboard_callback ==
  /\ Running /\ Top(on_cpu) = Keyboard
  /\ obf' = FALSE
  /\ frames' = [frames EXCEPT ![on_cpu] = Append(SubSeq(@, 1, Len(@) - 1), "read")]
  /\ UNCHANGED <<booting, rte, isr_handler, port_on, timer_on, apicVars, iflag, gs, on_cpu, ended,
                 lock, wants, sectionVars, blocked, unhandled>>

\* Mutant: the flags in the trap frame are left there.
FlagInFrame_left == FALSE

\* The saved interrupt flag: an interrupt only comes with interrupts on.
FlagInFrame == TRUE

\* The iretq behind a handler, to user mode or to what was interrupted.
Iretq(t) ==
  /\ iflag' = FlagInFrame
  /\ gs' = SwapIfUser(Len(frames[t]) = 1)
  /\ Pop(t)

\* The end of keyboard_callback, and back.
keyboard_eoi ==
  /\ Running /\ Top(on_cpu) = "read"
  /\ isr' = AfterEoi
  /\ Iretq(on_cpu)
  /\ UNCHANGED <<irr, on_cpu, ended, lock, wants, sectionVars, blocked, deviceVars, unhandled>>

\* Mutant: the EOI comes after sched_again, when the task is resumed.
TimerEoi_late == isr

\* __timer_switch_context: the EOI comes before sched_again.
TimerEoi == AfterEoi

-----------------------------------------------------------------------------
(* Tasks.                                                                  *)

\* __switch_to n: cli comes before the flags are saved, and a new task's saved
\* flags are 0, so that whatever is resumed has interrupts off.
switch_to(n) ==
  /\ n \notin ended
  /\ on_cpu' = n
  /\ iflag' = FALSE

\* The timer handler; sched_again may also keep the task it interrupted.
timer_switch_context(n) ==
  /\ Running /\ Top(on_cpu) = Timer
  /\ isr' = TimerEoi
  /\ frames' = [frames EXCEPT ![on_cpu] = Append(SubSeq(@, 1, Len(@) - 1), "switched")]
  /\ switch_to(n)
  /\ UNCHANGED <<irr, gs, ended, lock, wants, sectionVars, blocked, deviceVars, unhandled>>

\* A task is resumed behind the switch in its timer interrupt, and returns.
timer_return ==
  /\ Running /\ Top(on_cpu) = "switched"
  /\ Iretq(on_cpu)
  /\ UNCHANGED <<apicVars, on_cpu, ended, lock, wants, sectionVars, blocked, deviceVars, unhandled>>

\* __sched_task_start: a kernel task begins with sti, and stays in the kernel.
sched_task_start ==
  /\ Running /\ Top(on_cpu) = "kernel_start"
  /\ iflag' = TRUE
  /\ frames' = [frames EXCEPT ![on_cpu] = <<"kernel">>]
  /\ UNCHANGED <<apicVars, gs, on_cpu, ended, lock, wants, sectionVars, blocked, deviceVars, unhandled>>

\* syscall_handler0 up to the call, sti included.
syscall_enter ==
  /\ Running /\ Top(on_cpu) = "user"
  /\ gs' = swapgs /\ iflag' = TRUE
  /\ Push(on_cpu, "call")
  /\ UNCHANGED <<apicVars, on_cpu, ended, lock, wants, sectionVars, blocked, deviceVars, unhandled>>

InCall(t) == Top(t) \in {"call", "start"}
Free(t) == t \notin lock \union wants

\* syscall_handler0 from cli on: sysretq restores the user's flags; or the
\* iretq of __sched_task_start_user.
syscall_leave ==
  /\ Running /\ InCall(on_cpu) /\ section = "none" /\ Free(on_cpu)
  /\ gs' = swapgs /\ iflag' = TRUE
  /\ Pop(on_cpu)
  /\ blocked' = blocked \ {on_cpu}
  /\ UNCHANGED <<apicVars, on_cpu, ended, lock, wants, sectionVars, deviceVars, unhandled>>

\* sched_sleep, sched_wait, sched_wait_event, in a call: sched_again.
sched_block(n) ==
  /\ Running /\ Top(on_cpu) = "call" /\ section = "none" /\ Free(on_cpu) /\ n # on_cpu
  /\ blocked' = blocked \union {on_cpu}
  /\ switch_to(n)
  /\ UNCHANGED <<apicVars, gs, frames, ended, lock, wants, sectionVars, deviceVars, unhandled>>

\* spin_lock_irq(&sched_lock) of sched_fork, sched_spawn, sched_execve and
\* __sched_kernel_end, and spin_lock_irq(&cleanup_tasks_lock) of sched_wait: behind
\* it these copy and close files and free memory, with interrupts off.
spin_lock_irq(s) ==
  /\ Running /\ section = "none" /\ Free(on_cpu)
  /\ Top(on_cpu) = "call" \/ (Top(on_cpu) = "start" /\ s = "exit")
  /\ section' = s
  /\ irq_flags' = iflag /\ iflag' = FALSE
  /\ UNCHANGED <<apicVars, gs, on_cpu, frames, ended, lock, wants, blocked, deviceVars, unhandled>>

\* The task stands at the end of section s.
EndOf(s) == Running /\ section = s /\ Free(on_cpu)

\* spin_unlock_irq: of sched_wait, and of a fork that makes no task.
spin_unlock_irq ==
  /\ EndOf("new") \/ EndOf("wait")
  /\ section' = "none" /\ iflag' = irq_flags
  /\ UNCHANGED <<apicVars, irq_flags, gs, on_cpu, frames, ended, lock, wants, blocked, deviceVars,
                 unhandled>>

\* The end of sched_fork and sched_spawn, spin_unlock_irq included.
sched_new(n) ==
  /\ EndOf("new") /\ n \in ended
  /\ ended' = ended \ {n}
  /\ frames' = [frames EXCEPT ![n] = <<"start">>]
  /\ section' = "none" /\ iflag' = irq_flags
  /\ UNCHANGED <<apicVars, irq_flags, gs, on_cpu, lock, wants, blocked, deviceVars, unhandled>>

\* The end of sched_execve: the task starts again on a new stack, from sched_again.
sched_execve(n) ==
  /\ EndOf("execve")
  /\ frames' = [frames EXCEPT ![on_cpu] = <<"start">>]
  /\ blocked' = blocked \ {on_cpu}
  /\ section' = "none"
  /\ switch_to(n)
  /\ UNCHANGED <<apicVars, irq_flags, gs, ended, lock, wants, deviceVars, unhandled>>

\* The end of sched_exit.
sched_exit(n) ==
  /\ EndOf("exit") /\ n # on_cpu
  /\ ended' = ended \union {on_cpu}
  /\ blocked' = blocked \ {on_cpu}
  /\ section' = "none"
  /\ switch_to(n)
  /\ UNCHANGED <<apicVars, irq_flags, gs, frames, lock, wants, deviceVars, unhandled>>

\* spin_lock(&vfs_lock): reached, and taken.
spin_reach ==
  /\ Running /\ InCall(on_cpu) /\ Free(on_cpu)
  /\ wants' = wants \union {on_cpu}
  /\ UNCHANGED <<apicVars, iflag, gs, on_cpu, frames, ended, lock, sectionVars, blocked, deviceVars, unhandled>>

spin_acquire ==
  /\ Running /\ InCall(on_cpu) /\ on_cpu \in wants /\ lock = {}
  /\ lock' = {on_cpu} /\ wants' = wants \ {on_cpu}
  /\ UNCHANGED <<apicVars, iflag, gs, on_cpu, frames, ended, sectionVars, blocked, deviceVars, unhandled>>

spin_release ==
  /\ Running /\ InCall(on_cpu) /\ on_cpu \in lock
  /\ lock' = {}
  /\ UNCHANGED <<apicVars, iflag, gs, on_cpu, frames, ended, wants, sectionVars, blocked, deviceVars, unhandled>>

IsrNext ==
  \/ ps2_disable \/ isr_setup_irq \/ isr_enable_irq \/ ps2_enable \/ apic_timer_start
  \/ isr_enable_interrupts
  \/ isr_register_handler(Keyboard, "register") \/ isr_register_handler(Timer, "timer_handler")
  \/ key \/ tick
  \/ \E v \in {Keyboard, Timer} : intr_common_handler(v)
  \/ keyboard_callback \/ keyboard_eoi \/ timer_return
  \/ sched_task_start
  \/ syscall_enter \/ syscall_leave
  \/ \E n \in AllTasks : \/ timer_switch_context(n) \/ sched_block(n) \/ sched_new(n)
                         \/ sched_execve(n) \/ sched_exit(n)
  \/ \E s \in {"new", "wait", "execve", "exit"} : spin_lock_irq(s)
  \/ spin_unlock_irq
  \/ spin_reach \/ spin_acquire \/ spin_release

IsrSpec == IsrInit /\ [][IsrNext]_isrVars

-----------------------------------------------------------------------------
(* Properties.                                                             *)

\* percpu() reads through gs: in kernel mode it is always the kernel's gs base
\* that is active and in user mode the user's, whatever mixture of interrupts,
\* system calls and switches led there.
GsMatchesMode == gs = IF Top(on_cpu) = "user" THEN "user" ELSE "kernel"

\* Whoever runs with interrupts on can be interrupted: nothing is left in service
\* by a handler that switched away, so that neither ticks nor keys stop coming.
ServiceEnds == iflag => isr = {}

\* No key stops the keyboard: once keyboard_init has enabled the port, a byte in
\* the output buffer is on its way to keyboard_callback ("First register irq and
\* then enable"): the controller makes no further edge until it is read.  And
\* no interrupt finds its vector without a handler.
KeysArrive ==
  /\ ~unhandled
  /\ port_on /\ obf /\ "enable" \notin {booting[i] : i \in 1 .. Len(booting)}
       => Keyboard \in irr \/ \E t \in AllTasks \union {Boot} : Top(t) = Keyboard

\* On one processor a task that finds vfs_lock taken must be interrupted to let
\* its holder go on.  So it is, with three exceptions, and only these can wait for
\* ever: a call that has been blocked and a task that starts, which run on with
\* interrupts off behind __switch_to, and a section under spin_lock_irq that
\* copies or closes files (fork, execve, exit) or frees memory (wait).
SpinsAreInterrupted ==
  Running /\ on_cpu \in wants /\ lock # {} /\ ~iflag /\ InCall(on_cpu) =>
    on_cpu \in blocked \/ Top(on_cpu) = "start" \/ section # "none"
=============================================================================
