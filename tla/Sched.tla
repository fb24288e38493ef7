------------------------------- MODULE Sched -------------------------------
(***************************************************************************)
(* The task table and the preemptive round-robin scheduler of the kernel   *)
(* (kernel/sched.c, cpu/sched.asm) with its callers: the shell, which is   *)
(* task 0 and runs with interrupts enabled, and user tasks, whose system   *)
(* calls run with interrupts disabled (every IDT gate is an interrupt      *)
(* gate) and are therefore one atomic step each.                           *)
(*                                                                         *)
(* tasks[i].sleep_until is kept as the number of ticks still to pass,      *)
(* ticksLeft[i] = max(0, sleep_until - tick_count): the code only ever     *)
(* compares the two.  sched_pending_cr3, TSS.rsp0 and the saved RSP follow *)
(* current_idx and carry no control; they are left out.                    *)
(***************************************************************************)
EXTENDS Integers

CONSTANTS
    MAX_TASKS,     \* size of the task table
    SleepArgs,     \* arguments programs pass to task_sleep, as signed numbers
    Sleepers,      \* slots of the tasks that call task_sleep
    StdinReaders   \* slots of the tasks that read file descriptor 0

(* At least one slot, for the boot thread. *)
ASSUME MaxTasksAssumption == MAX_TASKS \in Nat \ {0}
ASSUME ArgsAssumption == SleepArgs \subseteq Int

VARIABLES
    num_tasks,     \* slots in use
    current_idx,   \* slot of the task that is executing
    state,         \* tasks[i].state
    pid,           \* tasks[i].pid
    ticksLeft,     \* tasks[i].sleep_until - tick_count
    next_pid,      \* next pid to hand out
    pc,            \* where each task's own code is
    newSlot,       \* `t' of the shell's task_create_user: the slot it fills
    waitFor,       \* pid the shell passed to sched_wait_pid
    given,         \* pids returned to creators (history)
    overlapped,    \* a system call created a task inside the shell's own
                   \* task_create_user (history)
    irqOn,         \* RFLAGS.IF of the executing code
    keys           \* is a key waiting in the keyboard ring

vars == <<num_tasks, current_idx, state, pid, ticksLeft, next_pid, pc,
          newSlot, waitFor, given, overlapped, irqOn, keys>>

(* The table, and one slot more: what the linker put behind it. *)
Slots == 0 .. MAX_TASKS
Table == 0 .. num_tasks - 1
TaskState == {"RUNNING", "READY", "SLEEPING", "DEAD"}
Spawning == {"reserve", "fill", "publish"}
-----------------------------------------------------------------------------
(* sched_init: the boot thread is task 0; the rest of the table is zeroed, *)
(* and state 0 is TASK_RUNNING.  Memory past the table holds anything.     *)
Init ==
    /\ num_tasks = 1
    /\ current_idx = 0
    /\ \E s \in TaskState :
         state = [i \in Slots |-> IF i = MAX_TASKS THEN s ELSE "RUNNING"]
    /\ pid = [i \in Slots |-> IF i = 0 THEN 1 ELSE 0]
    /\ ticksLeft = [i \in Slots |-> 0]
    /\ next_pid = 2
    /\ pc = [i \in Slots |-> "run"]
    /\ newSlot = 0
    /\ waitFor = 0
    /\ given = {1}
    /\ overlapped = FALSE
    /\ irqOn = TRUE
    /\ keys = FALSE

Mark(s, i, v) == [j \in Slots |-> IF j = i THEN v ELSE s[j]]

Least(S) == CHOOSE x \in S : \A y \in S : x <= y

(* Mutant: the interrupted task keeps TASK_RUNNING. *)
Requeued_Mutant(s) == s

(* do_switch: the interrupted task, if still RUNNING, becomes READY; the   *)
(* scan starts behind it and ends with it.  With no READY task at all it   *)
(* returns 0 and the interrupted task goes on, whatever its state.         *)
Requeued(s) ==
    IF s[current_idx] = "RUNNING" THEN Mark(s, current_idx, "READY") ELSE s

ScanHits(s) ==
    {k \in 1 .. num_tasks : s[(current_idx + k) % num_tasks] = "READY"}

(* Mutant: the scan starts at slot 0 instead of behind the current task. *)
Next_idx_Mutant(s) == Least({i \in Table : s[i] = "READY"})

Next_idx(s) == (current_idx + Least(ScanHits(s))) % num_tasks

SwitchFrom(q) ==
    \/ /\ ScanHits(q) = {}
       /\ state' = IF q[current_idx] = "READY"
                   THEN Mark(q, current_idx, "RUNNING") ELSE q
       /\ UNCHANGED current_idx
    \/ /\ ScanHits(q) # {}
       /\ current_idx' = Next_idx(q)
       /\ state' = Mark(q, Next_idx(q), "RUNNING")

do_switch(s) == SwitchFrom(Requeued(s))

(* The timer interrupt: one tick, wake the sleepers that are due, switch.  *)
Ticked(i) == IF i \in Table /\ ticksLeft[i] > 0 THEN ticksLeft[i] - 1
                                                ELSE ticksLeft[i]

(* Mutants: the wake-up loop forgets to test for TASK_SLEEPING, or stops   *)
(* one slot short.                                                         *)
Woken_AnyState ==
    [i \in Slots |-> IF i \in Table /\ state[i] # "RUNNING" /\ Ticked(i) = 0
                     THEN "READY" ELSE state[i]]

Woken_LastMissed ==
    [i \in Slots |-> IF /\ i \in Table /\ i < num_tasks - 1
                        /\ state[i] = "SLEEPING" /\ Ticked(i) = 0
                     THEN "READY" ELSE state[i]]

Woken ==
    [i \in Slots |-> IF i \in Table /\ state[i] = "SLEEPING" /\ Ticked(i) = 0
                     THEN "READY" ELSE state[i]]

sched_timer_c ==
    /\ irqOn
    /\ ticksLeft' = [i \in Slots |-> Ticked(i)]
    /\ do_switch(Woken)
    /\ UNCHANGED <<num_tasks, pid, next_pid, pc, newSlot, waitFor, given,
                   overlapped, irqOn, keys>>

(* INT 0x81 from ordinary code: the shell's readline loop while no key     *)
(* waits, or any kernel thread.                                            *)
sched_yield ==
    /\ irqOn /\ pc[current_idx] = "run"
    /\ do_switch(state)
    /\ UNCHANGED <<num_tasks, pid, ticksLeft, next_pid, pc, newSlot, waitFor,
                   given, overlapped, irqOn, keys>>

(* task_sleep: mark and yield under cli (sti delays interrupts by one      *)
(* instruction, so nothing comes between).  tick_count + ms wraps at 2^64: *)
(* a negative argument gives a deadline that has already passed.           *)
task_sleep(ms) ==
    /\ irqOn /\ pc[current_idx] = "run"
    /\ current_idx \in Sleepers
    /\ ticksLeft' = [ticksLeft EXCEPT ![current_idx] =
                                            IF ms < 0 THEN 0 ELSE ms]
    /\ do_switch(Mark(state, current_idx, "SLEEPING"))
    /\ UNCHANGED <<num_tasks, pid, next_pid, pc, newSlot, waitFor, given,
                   overlapped, irqOn, keys>>

(* task_exit (SYS_EXIT, SYS_EXIT_GROUP): the shell never calls it.  If the *)
(* yield returns the task only executes hlt.                               *)
task_exit ==
    /\ irqOn /\ pc[current_idx] = "run"
    /\ current_idx # 0
    /\ pc' = [pc EXCEPT ![current_idx] = "hlt"]
    /\ do_switch(Mark(state, current_idx, "DEAD"))
    /\ UNCHANGED <<num_tasks, pid, ticksLeft, next_pid, newSlot, waitFor,
                   given, overlapped, irqOn, keys>>
-----------------------------------------------------------------------------
(* Creating a task.  From a system call: one atomic step.                  *)
sys_task_create ==
    /\ irqOn /\ pc[current_idx] = "run"
    /\ current_idx # 0
    /\ num_tasks < MAX_TASKS
    /\ state' = [state EXCEPT ![num_tasks] = "READY"]
    /\ pid' = [pid EXCEPT ![num_tasks] = next_pid]
    /\ ticksLeft' = [ticksLeft EXCEPT ![num_tasks] = 0]
    /\ pc' = [pc EXCEPT ![num_tasks] = "run"]
    /\ next_pid' = next_pid + 1
    /\ num_tasks' = num_tasks + 1
    /\ given' = given \cup {next_pid}
    /\ overlapped' = (overlapped \/ pc[0] \in Spawning)
    /\ UNCHANGED <<current_idx, newSlot, waitFor, irqOn, keys>>

(* From the shell (vnl_spawn_elf_path, ring3): interrupts are on, so the   *)
(* timer may come between the bound check, the choice of the slot, filling *)
(* it and num_tasks++.                                                     *)
spawn_check ==
    /\ irqOn /\ current_idx = 0 /\ pc[0] = "run"
    /\ num_tasks < MAX_TASKS
    /\ pc' = [pc EXCEPT ![0] = "reserve"]
    /\ UNCHANGED <<num_tasks, current_idx, state, pid, ticksLeft, next_pid,
                   newSlot, waitFor, given, overlapped, irqOn, keys>>

(* Mutant: the new task takes the last slot in use. *)
spawn_reserve_Mutant ==
    /\ irqOn /\ current_idx = 0 /\ pc[0] = "reserve"
    /\ pc' = [pc EXCEPT ![0] = "fill"]
    /\ newSlot' = num_tasks - 1
    /\ UNCHANGED <<num_tasks, current_idx, state, pid, ticksLeft, next_pid,
                   waitFor, given, overlapped, irqOn, keys>>

(* kmalloc of the kernel stack succeeds, and t = &tasks[num_tasks], or it  *)
(* fails and the call returns -1.                                          *)
spawn_reserve ==
    /\ irqOn /\ current_idx = 0 /\ pc[0] = "reserve"
    /\ \/ /\ pc' = [pc EXCEPT ![0] = "fill"]
          /\ newSlot' = num_tasks
       \/ /\ pc' = [pc EXCEPT ![0] = "run"]
          /\ UNCHANGED newSlot
    /\ UNCHANGED <<num_tasks, current_idx, state, pid, ticksLeft, next_pid,
                   waitFor, given, overlapped, irqOn, keys>>

spawn_fill ==
    /\ irqOn /\ current_idx = 0 /\ pc[0] = "fill"
    /\ state' = [state EXCEPT ![newSlot] = "READY"]
    /\ pid' = [pid EXCEPT ![newSlot] = next_pid]
    /\ ticksLeft' = [ticksLeft EXCEPT ![newSlot] = 0]
    /\ pc' = [pc EXCEPT ![0] = "publish", ![newSlot] = "run"]
    /\ next_pid' = next_pid + 1
    /\ UNCHANGED <<num_tasks, current_idx, newSlot, waitFor, given,
                   overlapped, irqOn, keys>>

(* num_tasks++; the pid returned is read back from the slot.  The caller   *)
(* waits for it (run_external, desktop, gui) or goes on (ring3).           *)
spawn_publish ==
    /\ irqOn /\ current_idx = 0 /\ pc[0] = "publish"
    /\ num_tasks' = num_tasks + 1
    /\ given' = given \cup {pid[newSlot]}
    /\ \/ /\ pc' = [pc EXCEPT ![0] = "wait"]
          /\ waitFor' = pid[newSlot]
       \/ /\ pc' = [pc EXCEPT ![0] = "run"]
          /\ UNCHANGED waitFor
    /\ UNCHANGED <<current_idx, state, pid, ticksLeft, next_pid, newSlot,
                   overlapped, irqOn, keys>>
-----------------------------------------------------------------------------
(* sched_pid_alive looks at the first slot with that pid.                  *)
SlotsOf(p) == {i \in Table : pid[i] = p}

(* Mutant: a dead task counts as alive as long as its slot is found. *)
sched_pid_alive_Mutant(p) == SlotsOf(p) # {}

sched_pid_alive(p) ==
    SlotsOf(p) # {} /\ state[Least(SlotsOf(p))] # "DEAD"

(* sched_wait_pid: one round of its loop, or its return.                   *)
wait_again ==
    /\ irqOn /\ current_idx = 0 /\ pc[0] = "wait"
    /\ sched_pid_alive(waitFor)
    /\ do_switch(state)
    /\ UNCHANGED <<num_tasks, pid, ticksLeft, next_pid, pc, newSlot, waitFor,
                   given, overlapped, irqOn, keys>>

wait_return ==
    /\ irqOn /\ current_idx = 0 /\ pc[0] = "wait"
    /\ ~ sched_pid_alive(waitFor)
    /\ pc' = [pc EXCEPT ![0] = "run"]
    /\ UNCHANGED <<num_tasks, current_idx, state, pid, ticksLeft, next_pid,
                   newSlot, waitFor, given, overlapped, irqOn, keys>>

(* Mutant: kill does not refuse the shell itself. *)
cmd_kill_Mutant(p) ==
    /\ irqOn /\ current_idx = 0 /\ pc[0] = "run"
    /\ SlotsOf(p) # {}
    /\ state' = [state EXCEPT ![Least(SlotsOf(p))] = "DEAD"]
    /\ UNCHANGED <<num_tasks, current_idx, pid, ticksLeft, next_pid, pc,
                   newSlot, waitFor, given, overlapped, irqOn, keys>>

(* The shell's kill command: any task but the shell itself.                *)
cmd_kill(p) ==
    /\ irqOn /\ current_idx = 0 /\ pc[0] = "run"
    /\ SlotsOf(p) # {}
    /\ Least(SlotsOf(p)) # current_idx
    /\ state' = [state EXCEPT ![Least(SlotsOf(p))] = "DEAD"]
    /\ UNCHANGED <<num_tasks, current_idx, pid, ticksLeft, next_pid, pc,
                   newSlot, waitFor, given, overlapped, irqOn, keys>>
-----------------------------------------------------------------------------
(* A key press: IRQ 1 puts it into the ring; the shell's readline polls it.*)
keyboard_irq ==
    /\ irqOn /\ ~keys
    /\ keys' = TRUE
    /\ UNCHANGED <<num_tasks, current_idx, state, pid, ticksLeft, next_pid,
                   pc, newSlot, waitFor, given, overlapped, irqOn>>

readline_key ==
    /\ irqOn /\ current_idx = 0 /\ pc[0] = "run" /\ keys
    /\ keys' = FALSE
    /\ UNCHANGED <<num_tasks, current_idx, state, pid, ticksLeft, next_pid,
                   pc, newSlot, waitFor, given, overlapped, irqOn>>

(* SYS_READ of fd 0 with nothing on the serial line: keyboard_getchar      *)
(* takes a key, or executes hlt, still with interrupts disabled.           *)
sys_read_stdin ==
    /\ irqOn /\ pc[current_idx] = "run"
    /\ current_idx # 0 /\ current_idx \in StdinReaders
    /\ \/ /\ keys
          /\ keys' = FALSE
          /\ UNCHANGED irqOn
       \/ /\ ~keys
          /\ irqOn' = FALSE
          /\ UNCHANGED keys
    /\ UNCHANGED <<num_tasks, current_idx, state, pid, ticksLeft, next_pid,
                   pc, newSlot, waitFor, given, overlapped>>

Next ==
    \/ sched_timer_c
    \/ sched_yield
    \/ \E ms \in SleepArgs : task_sleep(ms)
    \/ task_exit
    \/ sys_task_create
    \/ spawn_check
    \/ spawn_reserve
    \/ spawn_fill
    \/ spawn_publish
    \/ wait_again
    \/ wait_return
    \/ \E p \in 0 .. next_pid - 1 : cmd_kill(p)
    \/ keyboard_irq
    \/ readline_key
    \/ sys_read_stdin

Spec == Init /\ [][Next]_vars

(* The PIT interrupts every millisecond as long as interrupts are enabled, *)
(* and a time slice is long enough for one round of a two-call loop.       *)
Fairness == WF_vars(sched_timer_c) /\ SF_vars(wait_return)

FairSpec == Spec /\ Fairness
-----------------------------------------------------------------------------
(* Types of the task table and of the scheduler's variables (sched.c:16). *)
TypeOK ==
    /\ num_tasks \in 1 .. MAX_TASKS + 1
    /\ current_idx \in Table
    /\ state \in [Slots -> TaskState]
    /\ pid \in [Slots -> Nat]
    /\ ticksLeft \in [Slots -> Nat]
    /\ next_pid \in Nat \ {0}
    /\ pc \in [Slots -> {"run", "hlt", "wait"} \cup Spawning]
    /\ newSlot \in Slots
    /\ waitFor \in Nat
    /\ given \subseteq Nat
    /\ overlapped \in BOOLEAN
    /\ irqOn \in BOOLEAN
    /\ keys \in BOOLEAN

(* What keeps TypeOK inductive: the shell passed the bound check of        *)
(* task_create_user, and no system call takes the table beyond its end.    *)
TypeInv ==
    /\ TypeOK
    /\ pc[0] \in Spawning => num_tasks <= MAX_TASKS

(* What the code maintains as long as no task is created inside the        *)
(* shell's own task_create_user: the shell still owns the slot behind the  *)
(* table, that slot is complete before num_tasks++ shows it, and the shell *)
(* itself can always be picked unless it sleeps.                           *)
TableInv ==
    /\ num_tasks <= MAX_TASKS
    /\ pc[0] \in Spawning => num_tasks < MAX_TASKS
    /\ pc[0] \in {"fill", "publish"} => newSlot = num_tasks
    /\ \A i \in Table : pid[i] \in 1 .. next_pid - 1
    /\ \A i, j \in Table : pid[i] = pid[j] => i = j
    /\ \A p \in given : \E i \in Table : pid[i] = p
    /\ \A i \in Table : state[i] = "RUNNING" => i = current_idx
    /\ pc[0] = "publish" =>
         /\ state[newSlot] = "READY"
         /\ pid[newSlot] \in 1 .. next_pid - 1
         /\ \A i \in Table : pid[i] # pid[newSlot]
    /\ pc[0] # "hlt"
    /\ state[current_idx] = "DEAD" => pc[current_idx] = "hlt"
    /\ 0 \notin Sleepers =>
         /\ state[current_idx] = "RUNNING"
         /\ state[0] \in {"RUNNING", "READY"}

(* The inductive invariant of the scheduler (sched.c:67-193). *)
SchedInv == TypeInv /\ (~overlapped => TableInv)

(* As long as the shell does not itself sleep, the CPU never executes a    *)
(* task that is asleep or dead: do_switch (sched.c:67) always finds        *)
(* somebody to run, through every interleaving of ticks, sleeps, exits and *)
(* kills.                                                                  *)
CurrentRuns ==
    (0 \notin Sleepers /\ ~overlapped) => state[current_idx] = "RUNNING"

(* No task but the executing one is marked TASK_RUNNING: a second one      *)
(* would never be picked again by do_switch (sched.c:77).                  *)
OneRunner ==
    ~overlapped => \A i \in Table : state[i] = "RUNNING" => i = current_idx

(* Every pid handed to a creator names exactly one slot of the table, so   *)
(* that kill, ps and sched_wait_pid reach the task they mean               *)
(* (task_create, task_create_user, sched.c:146-193).                       *)
PidsKnown ==
    ~overlapped =>
        /\ \A p \in given : \E i \in Table : pid[i] = p
        /\ \A i, j \in Table : pid[i] = pid[j] => i = j

(* A dead task is never resurrected, and never gets the CPU again once it  *)
(* has lost it (sched.c:107-114: only sleepers are woken, only READY tasks *)
(* are picked).                                                            *)
DeadIsForever ==
    [][~overlapped => \A i \in Table :
          state[i] = "DEAD" => /\ state'[i] = "DEAD"
                               /\ current_idx' = i => current_idx = i]_vars

(* No starvation: a task that is ready eventually gets the CPU or is       *)
(* killed (do_switch scans from behind the current task, sched.c:75).      *)
ReadyRuns ==
    \A i \in Slots : (i \in Table /\ state[i] = "READY") ~> state[i] # "READY"

(* Every sleeping task is eventually woken or killed (sched.c:108-111),    *)
(* unless it is the one do_switch returned to, which executes already      *)
(* (sched.c:86) and may go to sleep again each time.                       *)
SleepersWake ==
    \A i \in Slots :
        (i \in Table /\ state[i] = "SLEEPING")
            ~> (state[i] # "SLEEPING" \/ i = current_idx)

(* Once the child the shell waits for is dead, the shell comes back from   *)
(* sched_wait_pid (sched.c:204).                                           *)
WaitReturns ==
    (pc[0] = "wait" /\ \E i \in Table : pid[i] = waitFor /\ state[i] = "DEAD")
        ~> pc[0] # "wait"
=============================================================================
