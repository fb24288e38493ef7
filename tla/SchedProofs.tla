----------------------------- MODULE SchedProofs -----------------------------
(***************************************************************************)
(* Proofs about the scheduler, for a task table of any size.               *)
(***************************************************************************)
EXTENDS Sched, WellFoundedInduction, TLAPS

(* A nonempty set of natural numbers has a least element: what the scans   *)
(* for the first READY slot and for the first slot with a pid return.      *)
LEMMA LeastIn ==
    ASSUME NEW S, S \subseteq Nat, S # {}
    PROVE  Least(S) \in S /\ \A y \in S : Least(S) <= y
<1>1. PICK x \in S : \A y \in S : ~ (<<y, x>> \in OpToRel(<, Nat))
  BY WFMin, NatLessThanWellFounded
<1>2. \A y \in S : x <= y
  <2>1. TAKE y \in S
  <2>2. ~ (y < x)
    BY <1>1, <2>1 DEF OpToRel
  <2>3. QED
    BY <2>2
<1>3. QED
  BY <1>2 DEF Least

(* The remainder stays below the divisor: do_switch's index is in the      *)
(* table.                                                                  *)
LEMMA ModRange ==
    ASSUME NEW a \in Nat, NEW n \in Nat \ {0}
    PROVE  a % n \in 0 .. n - 1
OBVIOUS

(* The slot picked by do_switch is a READY slot of the table. *)
LEMMA NextIdxReady ==
    ASSUME NEW q, num_tasks \in Nat \ {0}, current_idx \in Nat,
           ScanHits(q) # {}
    PROVE  Next_idx(q) \in Table /\ q[Next_idx(q)] = "READY"
<1> DEFINE k == Least(ScanHits(q))
<1>1. ScanHits(q) \subseteq Nat
  BY DEF ScanHits
<1>2. k \in ScanHits(q)
  BY <1>1, LeastIn
<1>3. k \in Nat /\ q[(current_idx + k) % num_tasks] = "READY"
  BY <1>2 DEF ScanHits
<1>4. current_idx + k \in Nat
  BY <1>3
<1>5. (current_idx + k) % num_tasks \in 0 .. num_tasks - 1
  BY <1>4, ModRange
<1>6. QED
  BY <1>3, <1>5 DEF Next_idx, Table

(* If some slot of the table is READY, the scan finds one. *)
LEMMA ScanFinds ==
    ASSUME NEW q, num_tasks \in Nat \ {0}, current_idx \in Table,
           NEW i \in Table, q[i] = "READY"
    PROVE  ScanHits(q) # {}
<1>1. CASE i > current_idx
  <2>1. i - current_idx \in 1 .. num_tasks
    BY <1>1 DEF Table
  <2>2. (current_idx + (i - current_idx)) % num_tasks = i
    BY <1>1 DEF Table
  <2>3. QED
    BY <2>1, <2>2 DEF ScanHits
<1>2. CASE i <= current_idx
  <2>1. i + num_tasks - current_idx \in 1 .. num_tasks
    BY <1>2 DEF Table
  <2>2. (current_idx + (i + num_tasks - current_idx)) % num_tasks = i
    <3>1. current_idx + (i + num_tasks - current_idx) = i + num_tasks
      BY DEF Table
    <3>2. (i + num_tasks) % num_tasks = i
      BY DEF Table
    <3>3. QED
      BY <3>1, <3>2
  <2>3. QED
    BY <2>1, <2>2 DEF ScanHits
<1>3. QED
  BY <1>1, <1>2 DEF Table
-----------------------------------------------------------------------------
(* What a switch does to the task table, whatever states s it starts from: *)
(* it picks a slot of the table, runs nothing but the picked task, leaves  *)
(* dead tasks and slots outside the table alone, and picks somebody        *)
(* whenever somebody can run.                                              *)
LEMMA SwitchEffect ==
    ASSUME num_tasks \in 1 .. MAX_TASKS + 1, current_idx \in Table,
           NEW s \in [Slots -> TaskState], do_switch(s)
    PROVE  /\ current_idx' \in Table
           /\ state' \in [Slots -> TaskState]
           /\ \A i \in Slots \ Table : state'[i] = s[i]
           /\ \A i \in Table : s[i] = "DEAD" => state'[i] = "DEAD"
           /\ s[current_idx'] = "DEAD" => current_idx' = current_idx
           /\ state'[current_idx'] = "DEAD" =>
                 current_idx' = current_idx /\ s[current_idx] = "DEAD"
           /\ (\A i \in Table : s[i] = "RUNNING" => i = current_idx)
                => \A i \in Table : state'[i] = "RUNNING" => i = current_idx'
           /\ (/\ s[0] \in {"RUNNING", "READY"}
               /\ \A i \in Table : s[i] = "RUNNING" => i = current_idx) =>
                 /\ state'[0] \in {"RUNNING", "READY"}
                 /\ state'[current_idx'] = "RUNNING"
<1> USE MaxTasksAssumption
<1> DEFINE q == Requeued(s)
<1>0. Table \subseteq Slots /\ 0 \in Table /\ num_tasks \in Nat \ {0}
      /\ current_idx \in Nat /\ current_idx \in Slots
  BY DEF Table, Slots
<1>1. q \in [Slots -> TaskState]
  BY <1>0 DEF Requeued, Mark, TaskState
<1>2. \A i \in Slots : i # current_idx => q[i] = s[i]
  BY DEF Requeued, Mark
<1>3. /\ q[current_idx] # "RUNNING"
      /\ s[current_idx] = "RUNNING" => q[current_idx] = "READY"
      /\ s[current_idx] # "RUNNING" => q[current_idx] = s[current_idx]
  BY <1>0 DEF Requeued, Mark
<1>4. SwitchFrom(q)
  BY DEF do_switch
<1>5. CASE ScanHits(q) = {}
  <2>1. \A i \in Table : q[i] # "READY"
    BY <1>0, <1>5, ScanFinds
  <2>2. state' = q /\ current_idx' = current_idx
    BY <1>0, <1>4, <1>5, <2>1 DEF SwitchFrom
  <2>3. s[0] \in {"RUNNING", "READY"} => s[0] = "RUNNING" /\ 0 # current_idx
    BY <1>0, <1>2, <1>3, <2>1
  <2>4. QED
    BY <1>0, <1>1, <1>2, <1>3, <2>2, <2>3
<1>6. CASE ScanHits(q) # {}
  <2> DEFINE n == Next_idx(q)
  <2>1. n \in Table /\ q[n] = "READY"
    BY <1>0, <1>6, NextIdxReady
  <2>2. current_idx' = n /\ state' = Mark(q, n, "RUNNING")
    BY <1>4, <1>6 DEF SwitchFrom
  <2> HIDE DEF n, q
  <2>3. /\ state' \in [Slots -> TaskState]
        /\ state'[n] = "RUNNING"
        /\ \A i \in Slots : i # n => state'[i] = q[i]
    BY <1>0, <1>1, <2>1, <2>2 DEF Mark, TaskState
  <2>4. QED
    BY <1>0, <1>1, <1>2, <1>3, <2>1, <2>2, <2>3
<1>7. QED
  BY <1>5, <1>6
-----------------------------------------------------------------------------
LEMMA SlotsOfLeast ==
    ASSUME NEW p, SlotsOf(p) # {}, num_tasks \in Nat
    PROVE  Least(SlotsOf(p)) \in Table
<1>1. SlotsOf(p) \subseteq Nat
  BY DEF SlotsOf, Table
<1>2. QED
  BY <1>1, LeastIn DEF SlotsOf

(* The states after the wake-up loop of the timer interrupt. *)
LEMMA WokenEffect ==
    ASSUME state \in [Slots -> TaskState], Table \subseteq Slots
    PROVE  /\ Woken \in [Slots -> TaskState]
           /\ \A i \in Slots : Woken[i] \in {state[i], "READY"}
           /\ \A i \in Slots : Woken[i] # state[i] => state[i] = "SLEEPING"
           /\ \A i \in Slots \ Table : Woken[i] = state[i]
BY DEF Woken, TaskState

LEMMA MarkEffect ==
    ASSUME NEW s \in [Slots -> TaskState], NEW i \in Slots,
           NEW v \in TaskState
    PROVE  /\ Mark(s, i, v) \in [Slots -> TaskState]
           /\ Mark(s, i, v)[i] = v
           /\ \A j \in Slots : j # i => Mark(s, i, v)[j] = s[j]
BY DEF Mark

LEMMA InitTypeInv == Init => TypeInv
<1> SUFFICES ASSUME Init PROVE TypeInv
  OBVIOUS
<1> USE MaxTasksAssumption
<1>1. state \in [Slots -> TaskState]
  BY DEF Init, TaskState
<1>2. /\ pid \in [Slots -> Nat] /\ ticksLeft \in [Slots -> Nat]
      /\ pc \in [Slots -> {"run", "hlt", "wait"} \cup Spawning]
  BY DEF Init
<1>3. num_tasks \in 1 .. MAX_TASKS + 1 /\ current_idx \in Table
      /\ newSlot \in Slots /\ num_tasks <= MAX_TASKS
  BY DEF Init, Table, Slots
<1>4. overlapped \in BOOLEAN /\ irqOn \in BOOLEAN /\ keys \in BOOLEAN
  BY DEF Init
<1>5. next_pid \in Nat \ {0} /\ waitFor \in Nat /\ given \subseteq Nat
  BY DEF Init
<1>6. QED
  BY <1>1, <1>2, <1>3, <1>4, <1>5 DEF TypeInv, TypeOK

LEMMA TypeInvStep == TypeInv /\ [Next]_vars => TypeInv'
<1> SUFFICES ASSUME TypeInv, [Next]_vars PROVE TypeInv'
  OBVIOUS
<1> USE MaxTasksAssumption, ArgsAssumption
<1>0. /\ Table \subseteq Slots /\ 0 \in Table /\ 0 \in Slots
      /\ current_idx \in Slots /\ num_tasks \in Nat \ {0}
      /\ num_tasks \in 1 .. MAX_TASKS + 1 /\ current_idx \in Table
      /\ state \in [Slots -> TaskState]
  BY DEF TypeInv, TypeOK, Table, Slots
<1>1. CASE sched_timer_c
  <2>1. Woken \in [Slots -> TaskState]
    BY <1>0, WokenEffect
  <2>2. current_idx' \in Table /\ state' \in [Slots -> TaskState]
    BY <1>0, <1>1, <2>1, SwitchEffect DEF sched_timer_c
  <2>3. ticksLeft' \in [Slots -> Nat]
    BY <1>1 DEF sched_timer_c, Ticked, TypeInv, TypeOK
  <2>4. QED
    BY <1>1, <2>2, <2>3 DEF sched_timer_c, TypeInv, TypeOK, Table
<1>2. CASE sched_yield
  <2>1. current_idx' \in Table /\ state' \in [Slots -> TaskState]
    BY <1>0, <1>2, SwitchEffect DEF sched_yield
  <2>2. QED
    BY <1>2, <2>1 DEF sched_yield, TypeInv, TypeOK, Table
<1>3. ASSUME NEW ms \in SleepArgs, task_sleep(ms) PROVE TypeInv'
  <2>1. Mark(state, current_idx, "SLEEPING") \in [Slots -> TaskState]
    BY <1>0, MarkEffect DEF TaskState
  <2>2. current_idx' \in Table /\ state' \in [Slots -> TaskState]
    BY <1>0, <1>3, <2>1, SwitchEffect DEF task_sleep
  <2>3. ticksLeft' \in [Slots -> Nat]
    BY <1>0, <1>3 DEF task_sleep, TypeInv, TypeOK
  <2>4. QED
    BY <1>3, <2>2, <2>3 DEF task_sleep, TypeInv, TypeOK, Table
<1>4. CASE task_exit
  <2>1. Mark(state, current_idx, "DEAD") \in [Slots -> TaskState]
    BY <1>0, MarkEffect DEF TaskState
  <2>2. current_idx' \in Table /\ state' \in [Slots -> TaskState]
    BY <1>0, <1>4, <2>1, SwitchEffect DEF task_exit
  <2>3. pc'[0] = pc[0] /\ pc' \in [Slots -> {"run", "hlt", "wait"} \cup Spawning]
    BY <1>0, <1>4 DEF task_exit, TypeInv, TypeOK
  <2>4. QED
    BY <1>4, <2>2, <2>3 DEF task_exit, TypeInv, TypeOK, Table
<1>5. CASE sys_task_create
  <2>1. num_tasks \in Slots /\ num_tasks # 0 /\ num_tasks + 1 <= MAX_TASKS
    BY <1>0, <1>5 DEF sys_task_create, Slots
  <2>2. QED
    BY <1>0, <1>5, <2>1
       DEF sys_task_create, TypeInv, TypeOK, Table, TaskState
<1>6. CASE spawn_check
  BY <1>0, <1>6 DEF spawn_check, TypeInv, TypeOK, Table, Spawning
<1>7. CASE spawn_reserve
  <2>1. num_tasks <= MAX_TASKS
    BY <1>7 DEF spawn_reserve, TypeInv, Spawning
  <2>2. /\ pc' \in [Slots -> {"run", "hlt", "wait"} \cup Spawning]
        /\ newSlot' \in Slots
    BY <1>0, <1>7, <2>1 DEF spawn_reserve, TypeInv, TypeOK, Spawning, Slots
  <2>3. QED
    BY <1>7, <2>1, <2>2 DEF spawn_reserve, TypeInv, TypeOK, Table
<1>8. CASE spawn_fill
  <2>1. num_tasks <= MAX_TASKS
    BY <1>8 DEF spawn_fill, TypeInv, Spawning
  <2>2. pc' \in [Slots -> {"run", "hlt", "wait"} \cup Spawning]
    BY <1>0, <1>8 DEF spawn_fill, TypeInv, TypeOK, Spawning
  <2>3. QED
    BY <1>0, <1>8, <2>1, <2>2
       DEF spawn_fill, TypeInv, TypeOK, Table, TaskState
<1>9. CASE spawn_publish
  <2>1. num_tasks <= MAX_TASKS
    BY <1>9 DEF spawn_publish, TypeInv, Spawning
  <2>2. /\ pc' \in [Slots -> {"run", "hlt", "wait"} \cup Spawning]
        /\ pc'[0] \notin Spawning
        /\ waitFor' \in Nat
    BY <1>0, <1>9 DEF spawn_publish, TypeInv, TypeOK, Spawning
  <2>3. num_tasks' \in 1 .. MAX_TASKS + 1 /\ current_idx' \in Table'
    BY <1>0, <1>9, <2>1 DEF spawn_publish, Table
  <2>4. pid[newSlot] \in Nat
    BY DEF TypeInv, TypeOK
  <2>5. QED
    BY <1>9, <2>2, <2>3, <2>4 DEF spawn_publish, TypeInv, TypeOK
<1>10. CASE wait_again
  <2>1. current_idx' \in Table /\ state' \in [Slots -> TaskState]
    BY <1>0, <1>10, SwitchEffect DEF wait_again
  <2>2. QED
    BY <1>10, <2>1 DEF wait_again, TypeInv, TypeOK, Table
<1>11. CASE wait_return
  BY <1>0, <1>11 DEF wait_return, TypeInv, TypeOK, Table, Spawning
<1>12. ASSUME NEW p \in 0 .. next_pid - 1, cmd_kill(p) PROVE TypeInv'
  <2>1. Least(SlotsOf(p)) \in Slots
    BY <1>0, <1>12, SlotsOfLeast DEF cmd_kill
  <2>2. QED
    BY <1>12, <2>1 DEF cmd_kill, TypeInv, TypeOK, Table, TaskState
<1>13. CASE keyboard_irq
  BY <1>13 DEF keyboard_irq, TypeInv, TypeOK, Table
<1>14. CASE readline_key
  BY <1>14 DEF readline_key, TypeInv, TypeOK, Table
<1>15. CASE sys_read_stdin
  BY <1>15 DEF sys_read_stdin, TypeInv, TypeOK, Table
<1>16. CASE UNCHANGED vars
  BY <1>16 DEF vars, TypeInv, TypeOK, Table
<1>17. QED
  BY <1>1, <1>2, <1>3, <1>4, <1>5, <1>6, <1>7, <1>8, <1>9, <1>10, <1>11,
     <1>12, <1>13, <1>14, <1>15, <1>16 DEF Next

(* The task table and the scheduler's variables keep their types, and the  *)
(* executing task is always a slot of the table, for every table size and  *)
(* every interleaving, the overlapping creations of sched.c:146-193        *)
(* included.                                                               *)
THEOREM SchedTypeCorrect == Spec => []TypeOK
<1>1. TypeInv => TypeOK
  BY DEF TypeInv
<1>2. QED
  BY <1>1, InitTypeInv, TypeInvStep, PTL DEF Spec
-----------------------------------------------------------------------------
(* A step that only switches, from states s that agree with the table's    *)
(* except where the executing task marked itself or a sleeper was woken,   *)
(* keeps the invariant of the table.                                       *)
LEMMA SwitchKeepsTable ==
    ASSUME TypeInv, TableInv,
           NEW s \in [Slots -> TaskState], do_switch(s),
           \A i \in Table : s[i] = "RUNNING" => state[i] = "RUNNING",
           \A i \in Slots \ Table : s[i] = state[i],
           0 \notin Sleepers => s[0] \in {"RUNNING", "READY"},
           s[current_idx] = "DEAD" => pc'[current_idx] = "hlt",
           UNCHANGED <<num_tasks, pid, next_pid, newSlot, given>>,
           pc'[0] = pc[0]
    PROVE  TableInv'
<1> USE MaxTasksAssumption
<1>0. /\ num_tasks \in 1 .. MAX_TASKS + 1 /\ current_idx \in Table
      /\ Table' = Table /\ 0 \in Table
  BY DEF TypeInv, TypeOK, Table
<1>1. \A i \in Table : s[i] = "RUNNING" => i = current_idx
  BY DEF TableInv
<1>2. /\ \A i \in Table : state'[i] = "RUNNING" => i = current_idx'
      /\ \A i \in Slots \ Table : state'[i] = state[i]
      /\ state'[current_idx'] = "DEAD" => pc'[current_idx'] = "hlt"
      /\ 0 \notin Sleepers => /\ state'[0] \in {"RUNNING", "READY"}
                              /\ state'[current_idx'] = "RUNNING"
  BY <1>0, <1>1, SwitchEffect
<1>3. pc[0] = "publish" => newSlot \in Slots \ Table
  BY DEF TableInv, TypeInv, TypeOK, Table
<1>4. QED
  BY <1>0, <1>2, <1>3 DEF TableInv

LEMMA InitTableInv == Init => TableInv
<1> SUFFICES ASSUME Init PROVE TableInv
  OBVIOUS
<1> USE MaxTasksAssumption
<1>1. Table = {0} /\ 0 \in Slots /\ 0 # MAX_TASKS
  BY DEF Init, Table, Slots
<1>2. state[0] = "RUNNING" /\ pid[0] = 1 /\ pc[0] = "run"
  BY <1>1 DEF Init
<1>3. QED
  BY <1>1, <1>2 DEF Init, TableInv, Spawning

(* Once overlapped, always overlapped. *)
LEMMA OverlapStays ==
    ASSUME TypeInv, [Next]_vars
    PROVE  ~overlapped' => ~overlapped
BY DEF Next, vars, sched_timer_c, sched_yield, task_sleep, task_exit,
       sys_task_create, spawn_check, spawn_reserve, spawn_fill,
       spawn_publish, wait_again, wait_return, cmd_kill, keyboard_irq,
       readline_key, sys_read_stdin

LEMMA TableInvStep ==
    ASSUME TypeInv, TableInv, [Next]_vars, ~overlapped'
    PROVE  TableInv'
<1> USE MaxTasksAssumption, ArgsAssumption
<1>0. /\ Table \subseteq Slots /\ 0 \in Table /\ 0 \in Slots
      /\ current_idx \in Slots /\ num_tasks \in Nat \ {0}
      /\ num_tasks \in 1 .. MAX_TASKS + 1 /\ current_idx \in Table
      /\ state \in [Slots -> TaskState]
      /\ pc \in [Slots -> {"run", "hlt", "wait"} \cup Spawning]
      /\ pid \in [Slots -> Nat]
      /\ next_pid \in Nat \ {0}
  BY DEF TypeInv, TypeOK, Table, Slots
<1>1. CASE sched_timer_c
  <2>1. /\ Woken \in [Slots -> TaskState]
        /\ \A i \in Table : Woken[i] = "RUNNING" => state[i] = "RUNNING"
        /\ \A i \in Slots \ Table : Woken[i] = state[i]
    BY <1>0, WokenEffect
  <2>2. /\ 0 \notin Sleepers => Woken[0] \in {"RUNNING", "READY"}
        /\ Woken[current_idx] = "DEAD" => pc[current_idx] = "hlt"
    BY <1>0, WokenEffect DEF TableInv
  <2>3. QED
    BY <1>1, <2>1, <2>2, SwitchKeepsTable DEF sched_timer_c
<1>2. CASE sched_yield
  BY <1>0, <1>2, SwitchKeepsTable DEF sched_yield, TableInv
<1>3. ASSUME NEW ms \in SleepArgs, task_sleep(ms) PROVE TableInv'
  <2> DEFINE s == Mark(state, current_idx, "SLEEPING")
  <2>1. /\ s \in [Slots -> TaskState]
        /\ s[current_idx] = "SLEEPING"
        /\ \A j \in Slots : j # current_idx => s[j] = state[j]
    BY <1>0, MarkEffect DEF TaskState
  <2>2. do_switch(s) /\ current_idx \in Sleepers
        /\ UNCHANGED <<num_tasks, pid, next_pid, newSlot, given, pc>>
    BY <1>3 DEF task_sleep
  <2> HIDE DEF s
  <2>3. 0 \notin Sleepers => s[0] \in {"RUNNING", "READY"}
    BY <1>0, <2>1, <2>2 DEF TableInv
  <2>4. /\ \A i \in Table : s[i] = "RUNNING" => state[i] = "RUNNING"
        /\ \A i \in Slots \ Table : s[i] = state[i]
    BY <1>0, <2>1
  <2>5. QED
    BY <2>1, <2>2, <2>3, <2>4, SwitchKeepsTable
<1>4. CASE task_exit
  <2> DEFINE s == Mark(state, current_idx, "DEAD")
  <2>1. /\ s \in [Slots -> TaskState]
        /\ s[current_idx] = "DEAD"
        /\ \A j \in Slots : j # current_idx => s[j] = state[j]
    BY <1>0, MarkEffect DEF TaskState
  <2>2. /\ do_switch(s) /\ current_idx # 0 /\ pc'[0] = pc[0]
        /\ pc'[current_idx] = "hlt"
        /\ UNCHANGED <<num_tasks, pid, next_pid, newSlot, given>>
    BY <1>0, <1>4 DEF task_exit
  <2> HIDE DEF s
  <2>3. 0 \notin Sleepers => s[0] \in {"RUNNING", "READY"}
    BY <1>0, <2>1, <2>2 DEF TableInv
  <2>4. /\ \A i \in Table : s[i] = "RUNNING" => state[i] = "RUNNING"
        /\ \A i \in Slots \ Table : s[i] = state[i]
    BY <1>0, <2>1
  <2>5. QED
    BY <2>1, <2>2, <2>3, <2>4, SwitchKeepsTable
<1>5. CASE sys_task_create
  <2>1. pc[0] \notin Spawning
    BY <1>5 DEF sys_task_create
  <2>2. /\ num_tasks \in Slots /\ num_tasks \notin Table
        /\ Table' = Table \cup {num_tasks}
        /\ num_tasks' <= MAX_TASKS
    BY <1>0, <1>5 DEF sys_task_create, Slots, Table
  <2>3. /\ state'[num_tasks] = "READY" /\ pid'[num_tasks] = next_pid
        /\ \A i \in Table : state'[i] = state[i] /\ pid'[i] = pid[i]
        /\ pc'[0] = pc[0] /\ current_idx' = current_idx
        /\ pc'[current_idx] = pc[current_idx]
        /\ given' = given \cup {next_pid} /\ next_pid' = next_pid + 1
    BY <1>0, <1>5, <2>2 DEF sys_task_create
  <2>4. \A i \in Table' : pid'[i] \in 1 .. next_pid' - 1
    BY <1>0, <2>2, <2>3 DEF TableInv
  <2>5. \A i, j \in Table' : pid'[i] = pid'[j] => i = j
    BY <1>0, <2>2, <2>3 DEF TableInv
  <2>6. \A p \in given' : \E i \in Table' : pid'[i] = p
    BY <1>0, <2>2, <2>3 DEF TableInv
  <2>7. /\ \A i \in Table' : state'[i] = "RUNNING" => i = current_idx'
        /\ state'[current_idx'] = "DEAD" => pc'[current_idx'] = "hlt"
        /\ 0 \notin Sleepers => /\ state'[current_idx'] = "RUNNING"
                                /\ state'[0] \in {"RUNNING", "READY"}
    BY <1>0, <2>2, <2>3 DEF TableInv
  <2>8. QED
    BY <2>1, <2>2, <2>3, <2>4, <2>5, <2>6, <2>7 DEF TableInv, Spawning
<1>6. CASE spawn_check
  <2>1. pc'[0] = "reserve" /\ num_tasks < MAX_TASKS /\ Table' = Table
    BY <1>0, <1>6 DEF spawn_check, Table
  <2>2. QED
    BY <1>6, <2>1 DEF spawn_check, TableInv
<1>7. CASE spawn_reserve
  <2>1. /\ pc'[0] \in {"fill", "run"} /\ Table' = Table
        /\ pc'[0] = "fill" => newSlot' = num_tasks
        /\ pc[0] = "reserve"
    BY <1>0, <1>7 DEF spawn_reserve, Table
  <2>2. QED
    BY <1>7, <2>1 DEF spawn_reserve, TableInv, Spawning
<1>8. CASE spawn_fill
  <2>1. /\ newSlot = num_tasks /\ num_tasks < MAX_TASKS
        /\ num_tasks \in Slots /\ num_tasks \notin Table
    BY <1>0, <1>8 DEF spawn_fill, TableInv, Spawning, Table, Slots
  <2>2. /\ state'[newSlot] = "READY" /\ pid'[newSlot] = next_pid
        /\ \A i \in Table : state'[i] = state[i] /\ pid'[i] = pid[i]
        /\ pc'[0] = "publish" /\ next_pid' = next_pid + 1 /\ Table' = Table
        /\ UNCHANGED <<num_tasks, current_idx, newSlot, given>>
    BY <1>0, <1>8, <2>1 DEF spawn_fill, Table
  <2>3. \A i \in Table : pid[i] \in 1 .. next_pid - 1
    BY DEF TableInv
  <2>4. /\ \A i \in Table : pid'[i] \in 1 .. next_pid' - 1
        /\ \A i \in Table : pid'[i] # pid'[newSlot]
        /\ pid'[newSlot] \in 1 .. next_pid' - 1
    BY <1>0, <2>2, <2>3
  <2>5. current_idx = 0 /\ state'[current_idx'] # "DEAD"
    BY <1>0, <1>8, <2>2 DEF spawn_fill, TableInv
  <2>6. /\ \A i, j \in Table' : pid'[i] = pid'[j] => i = j
        /\ \A p \in given' : \E i \in Table' : pid'[i] = p
        /\ \A i \in Table' : state'[i] = "RUNNING" => i = current_idx'
    BY <2>2 DEF TableInv
  <2>7. 0 \notin Sleepers => /\ state'[current_idx'] = "RUNNING"
                             /\ state'[0] \in {"RUNNING", "READY"}
    BY <1>0, <2>2, <2>5 DEF TableInv
  <2>8. QED
    BY <2>1, <2>2, <2>4, <2>5, <2>6, <2>7 DEF TableInv, Spawning
<1>9. CASE spawn_publish
  <2>1. /\ newSlot = num_tasks /\ num_tasks < MAX_TASKS
        /\ state[num_tasks] = "READY"
        /\ pid[num_tasks] \in 1 .. next_pid - 1
        /\ \A i \in Table : pid[i] # pid[num_tasks]
    BY <1>9 DEF spawn_publish, TableInv, Spawning
  <2>2. /\ Table' = Table \cup {num_tasks} /\ num_tasks \notin Table
        /\ num_tasks' <= MAX_TASKS
    BY <1>0, <1>9, <2>1 DEF spawn_publish, Table
  <2>3. /\ pc'[0] \in {"wait", "run"} /\ given' = given \cup {pid[num_tasks]}
        /\ UNCHANGED <<current_idx, state, pid, next_pid, newSlot>>
    BY <1>0, <1>9, <2>1 DEF spawn_publish
  <2>4. \A p \in given' : \E i \in Table' : pid'[i] = p
    BY <2>2, <2>3 DEF TableInv
  <2>5. \A i \in Table' : state'[i] = "RUNNING" => i = current_idx'
    BY <2>1, <2>2, <2>3 DEF TableInv
  <2>6. \A i, j \in Table' : pid'[i] = pid'[j] => i = j
    BY <2>1, <2>2, <2>3 DEF TableInv
  <2>7. \A i \in Table' : pid'[i] \in 1 .. next_pid' - 1
    BY <2>1, <2>2, <2>3 DEF TableInv
  <2>8. current_idx = 0 /\ state'[current_idx'] # "DEAD"
    BY <1>9, <2>3 DEF spawn_publish, TableInv
  <2>9. QED
    BY <2>2, <2>3, <2>4, <2>5, <2>6, <2>7, <2>8 DEF TableInv, Spawning
<1>10. CASE wait_again
  BY <1>0, <1>10, SwitchKeepsTable DEF wait_again, TableInv
<1>11. CASE wait_return
  <2>1. pc'[0] = "run" /\ Table' = Table
    BY <1>0, <1>11 DEF wait_return, Table
  <2>2. QED
    BY <1>11, <2>1 DEF wait_return, TableInv, Spawning
<1>12. ASSUME NEW p \in 0 .. next_pid - 1, cmd_kill(p) PROVE TableInv'
  <2> DEFINE k == Least(SlotsOf(p))
  <2>1. k \in Table /\ k # 0 /\ current_idx = 0
    BY <1>0, <1>12, SlotsOfLeast DEF cmd_kill
  <2>2. /\ state' = [state EXCEPT ![k] = "DEAD"]
        /\ Table' = Table
        /\ UNCHANGED <<num_tasks, current_idx, pid, next_pid, pc, newSlot, given>>
    BY <1>12 DEF cmd_kill, Table
  <2> HIDE DEF k
  <2>3. /\ \A i \in Slots : i # k => state'[i] = state[i]
        /\ state'[k] = "DEAD"
    BY <1>0, <2>1, <2>2
  <2>4. pc[0] = "publish" => newSlot \in Slots /\ newSlot # k
    BY <1>0, <2>1 DEF TableInv, TypeInv, TypeOK, Table
  <2>5. QED
    BY <1>0, <2>1, <2>2, <2>3, <2>4 DEF TableInv
<1>13. CASE keyboard_irq
  BY <1>13 DEF keyboard_irq, TableInv, Table
<1>14. CASE readline_key
  BY <1>14 DEF readline_key, TableInv, Table
<1>15. CASE sys_read_stdin
  BY <1>15 DEF sys_read_stdin, TableInv, Table
<1>16. CASE UNCHANGED vars
  BY <1>16 DEF vars, TableInv, Table
<1>17. QED
  BY <1>1, <1>2, <1>3, <1>4, <1>5, <1>6, <1>7, <1>8, <1>9, <1>10, <1>11,
     <1>12, <1>13, <1>14, <1>15, <1>16 DEF Next

(* The inductive invariant of the scheduler holds in every reachable       *)
(* state.                                                                  *)
THEOREM SchedInvariant == Spec => []SchedInv
<1>1. Init => SchedInv
  BY InitTypeInv, InitTableInv DEF SchedInv
<1>2. SchedInv /\ [Next]_vars => SchedInv'
  BY TypeInvStep, OverlapStays, TableInvStep DEF SchedInv
<1>3. QED
  BY <1>1, <1>2, PTL DEF Spec

(* Unless the shell sleeps, or a task is created inside the shell's own    *)
(* task_create_user, the CPU executes only a task marked TASK_RUNNING      *)
(* (do_switch, sched.c:67-99).                                             *)
THEOREM CurrentAlwaysRuns == Spec => []CurrentRuns
<1>1. SchedInv => CurrentRuns
  BY DEF SchedInv, TableInv, CurrentRuns
<1>2. QED
  BY <1>1, SchedInvariant, PTL

(* At most one task, the executing one, is marked TASK_RUNNING. *)
THEOREM SingleRunner == Spec => []OneRunner
<1>1. SchedInv => OneRunner
  BY DEF SchedInv, TableInv, OneRunner
<1>2. QED
  BY <1>1, SchedInvariant, PTL

(* Every pid handed out names exactly one slot of the table. *)
THEOREM PidsStayKnown == Spec => []PidsKnown
<1>1. SchedInv => PidsKnown
  BY DEF SchedInv, TableInv, PidsKnown
<1>2. QED
  BY <1>1, SchedInvariant, PTL
-----------------------------------------------------------------------------
(* A switch from states in which the dead are still dead. *)
LEMMA SwitchKeepsDead ==
    ASSUME TypeInv, NEW s \in [Slots -> TaskState], do_switch(s),
           NEW i \in Table, s[i] = "DEAD"
    PROVE  state'[i] = "DEAD" /\ (current_idx' = i => current_idx = i)
BY SwitchEffect DEF TypeInv, TypeOK

LEMMA DeadStep ==
    ASSUME TypeInv, TableInv, [Next]_vars, NEW i \in Table, state[i] = "DEAD"
    PROVE  state'[i] = "DEAD" /\ (current_idx' = i => current_idx = i)
<1> USE MaxTasksAssumption
<1> DEFINE Goal == state'[i] = "DEAD" /\ (current_idx' = i => current_idx = i)
<1>0. /\ Table \subseteq Slots /\ 0 \in Slots /\ num_tasks \in Nat
      /\ current_idx \in Slots /\ state \in [Slots -> TaskState]
      /\ num_tasks \notin Table
  BY DEF TypeInv, TypeOK, Table, Slots
<1>1. CASE sched_timer_c
  <2>1. Woken \in [Slots -> TaskState] /\ Woken[i] = "DEAD"
    BY <1>0, WokenEffect
  <2>2. QED
    BY <1>1, <2>1, SwitchKeepsDead DEF sched_timer_c
<1>2. CASE sched_yield
  BY <1>0, <1>2, SwitchKeepsDead DEF sched_yield
<1>3. ASSUME NEW ms \in SleepArgs, task_sleep(ms) PROVE Goal
  <2> DEFINE s == Mark(state, current_idx, "SLEEPING")
  <2>1. pc[current_idx] = "run"
    BY <1>3 DEF task_sleep
  <2>2. i # current_idx
    BY <2>1 DEF TableInv
  <2>3. s \in [Slots -> TaskState] /\ s[i] = "DEAD"
    BY <1>0, <2>2, MarkEffect DEF TaskState
  <2>4. QED
    BY <1>3, <2>3, SwitchKeepsDead DEF task_sleep
<1>4. CASE task_exit
  <2> DEFINE s == Mark(state, current_idx, "DEAD")
  <2>1. /\ s \in [Slots -> TaskState] /\ s[current_idx] = "DEAD"
        /\ \A j \in Slots : j # current_idx => s[j] = state[j]
    BY <1>0, MarkEffect DEF TaskState
  <2>2. s[i] = "DEAD"
    BY <1>0, <2>1
  <2>3. QED
    BY <1>4, <2>1, <2>2, SwitchKeepsDead DEF task_exit
<1>5. CASE sys_task_create
  BY <1>0, <1>5 DEF sys_task_create
<1>6. CASE spawn_fill
  <2>1. newSlot = num_tasks
    BY <1>6 DEF spawn_fill, TableInv
  <2>2. QED
    BY <1>0, <1>6, <2>1 DEF spawn_fill
<1>7. CASE wait_again
  BY <1>0, <1>7, SwitchKeepsDead DEF wait_again
<1>8. ASSUME NEW p \in 0 .. next_pid - 1, cmd_kill(p) PROVE Goal
  BY <1>0, <1>8 DEF cmd_kill
<1>9. CASE \/ spawn_check \/ spawn_reserve \/ spawn_publish \/ wait_return
           \/ keyboard_irq \/ readline_key \/ sys_read_stdin
           \/ UNCHANGED vars
  BY <1>9 DEF spawn_check, spawn_reserve, spawn_publish, wait_return,
              keyboard_irq, readline_key, sys_read_stdin, vars
<1>10. QED
  BY <1>1, <1>2, <1>3, <1>4, <1>5, <1>6, <1>7, <1>8, <1>9 DEF Next

(* Dead tasks stay dead and never get the CPU back, for every table size   *)
(* and every order of ticks, sleeps, exits, kills and creations that do    *)
(* not overlap.                                                            *)
THEOREM DeadStayDead == Spec => DeadIsForever
<1>1. SchedInv /\ [Next]_vars =>
        [~overlapped => \A i \in Table :
            state[i] = "DEAD" => /\ state'[i] = "DEAD"
                                 /\ current_idx' = i => current_idx = i]_vars
  BY DeadStep DEF SchedInv
<1>2. QED
  BY <1>1, SchedInvariant, PTL DEF Spec, DeadIsForever
=============================================================================
