----------------------------- MODULE TaskTable -----------------------------
(***************************************************************************)
(* RTTaskCreate and RTGo of arm/rtisan_task.c, on the allocator of Heap:   *)
(* main creates the first tasks and the idle task and starts the ticks;    *)
(* the tasks that run from then on create others.  Nothing locks the       *)
(* table.  A task is known by its function, which is created at most once, *)
(* and stands for the record that is allocated for it; the scheduler is    *)
(* reduced to: any task in the table may run, at any instruction.          *)
(***************************************************************************)
EXTENDS Heap

CONSTANTS
  TASK_MAX,
  RecordSize,   \* GetTaskAllocSize()
  Main, NULL,
  Creates,      \* the functions that each caller makes tasks of, in order
  Mallocs       \* the sizes that each asks the allocator for besides

ASSUME TableAssumption ==
  /\ TASK_MAX \in Nat \ {0}
  /\ Main \in Caller /\ NULL \notin Caller
  /\ Creates \in [Caller -> Seq(Caller \ {Main})]
  /\ RecordSize \in Sizes /\ Mallocs \in [Caller -> SUBSET Sizes]
ASSUME CreatesAssumption ==
  \A p, q \in Caller : \A m \in 1 .. Len(Creates[p]), n \in 1 .. Len(Creates[q]) :
    Creates[p][m] = Creates[q][n] => p = q /\ m = n

VARIABLES
  taskTable,    \* what each entry points to
  taskId, framed,   \* of each record: taskId, 0 before; the stack frame and the canary
  at,           \* where each caller is in RTTaskCreate
  func, i, task,    \* its argument and locals; task is reduced to whether it is not NULL
  todo, ask,    \* what is left of Creates and Mallocs
  ticking,      \* RTEnableSystick was called
  started,      \* the first task was switched to
  fault,        \* a write through NULL stopped the machine
  overlap       \* a history variable: the tasks whose RTTaskCreate met another's

table == <<taskTable, taskId, framed, at, func, i, task, todo, ask, ticking, started, fault, overlap>>

Slot == 1 .. TASK_MAX
Listed == {taskTable[s] : s \in Slot} \ {NULL}

TableInit ==
  /\ Init
  /\ taskTable = [s \in Slot |-> NULL]
  /\ taskId = [t \in Caller |-> 0] /\ framed = {}
  /\ at = [p \in Caller |-> "idle"]
  /\ func = [p \in Caller |-> NULL] /\ i = [p \in Caller |-> 0]
  /\ task = [p \in Caller |-> FALSE]
  /\ todo = Creates /\ ask = Mallocs
  /\ ticking = FALSE /\ started = FALSE /\ fault = FALSE /\ overlap = {}

\* Main runs until the first switch, the tasks that are listed from then on.
Runs(p) ==
  /\ ~fault /\ HeapSize # 0
  /\ IF p = Main THEN ~started ELSE started /\ p \in Listed

Idle(p) == Runs(p) /\ at[p] = "idle" /\ pc[p] = "idle"

\* A step inside RTTaskCreate that allocates nothing.
Step(p, from, to) ==
  /\ Runs(p) /\ pc[p] = "idle"
  /\ at[p] = from /\ at' = Set(at, p, to)

-----------------------------------------------------------------------------
(* RTTaskCreate.                                                           *)

Creating == {p \in Caller : at[p] # "idle"}

RTTaskCreate(p) ==
  /\ Idle(p) /\ todo[p] # <<>>
  /\ at' = Set(at, p, "scan")
  /\ func' = Set(func, p, Head(todo[p])) /\ i' = Set(i, p, 1)
  /\ todo' = Set(todo, p, Tail(todo[p]))
  /\ overlap' = IF Creating = {} THEN overlap
                ELSE overlap \cup {func[q] : q \in Creating} \cup {Head(todo[p])}
  /\ UNCHANGED <<vars, taskTable, taskId, framed, task, ask, ticking, started, fault>>

\* The search for a free entry; NULL is returned when there is none.
Scan(p) ==
  /\ \/ i[p] > TASK_MAX /\ Step(p, "scan", "idle") /\ UNCHANGED i
     \/ /\ i[p] \in Slot
        /\ \/ /\ taskTable[i[p]] # NULL
              /\ Step(p, "scan", "scan") /\ i' = Set(i, p, i[p] + 1)
           \/ /\ taskTable[i[p]] = NULL
              /\ Step(p, "scan", "malloc") /\ UNCHANGED i
  /\ UNCHANGED <<vars, taskTable, taskId, framed, func, task, todo, ask, ticking, started, fault, overlap>>

\* The record is allocated twice over, the first block for nothing.
Malloc(p) ==
  /\ \/ Step(p, "malloc", "again") \/ Step(p, "again", "fill")
  /\ Call(p, RecordSize)
  /\ UNCHANGED <<taskTable, taskId, framed, func, i, task, todo, ask, ticking, started, fault, overlap>>

\* What malloc returned is not looked at before it is written through.
Fill(p) ==
  /\ Step(p, "fill", "frame")
  /\ IF task[p] THEN taskId' = Set(taskId, func[p], i[p]) /\ UNCHANGED fault
                ELSE fault' = TRUE /\ UNCHANGED taskId
  /\ UNCHANGED <<vars, taskTable, framed, func, i, task, todo, ask, ticking, started, overlap>>

\* RTTaskCreateImpl.
RTTaskCreateImpl(p) ==
  /\ Step(p, "frame", "publish")
  /\ framed' = framed \cup {func[p]}
  /\ UNCHANGED <<vars, taskTable, taskId, func, i, task, todo, ask, ticking, started, fault, overlap>>

\* Mutant: the entry is set before the frame is made.
Publish_First(p) ==
  /\ \/ Step(p, "frame", "publish") /\ taskTable' = Set(taskTable, i[p], func[p]) /\ UNCHANGED framed
     \/ Step(p, "publish", "idle") /\ framed' = framed \cup {func[p]} /\ UNCHANGED taskTable
  /\ UNCHANGED <<vars, taskId, func, i, task, todo, ask, ticking, started, fault, overlap>>

\* taskTable[i] = task, behind a barrier.
Publish(p) ==
  /\ Step(p, "publish", "idle")
  /\ taskTable' = Set(taskTable, i[p], func[p])
  /\ UNCHANGED <<vars, taskId, framed, func, i, task, todo, ask, ticking, started, fault, overlap>>

\* The allocator's steps; task is what the last call returned.
MallocStep(p) ==
  /\ Runs(p)
  /\ \/ Load(p) /\ task' = Set(task, p, FALSE)
     \/ Swap(p) /\ task' = Set(task, p, pc'[p] = "idle")
  /\ UNCHANGED <<taskTable, taskId, framed, at, func, i, todo, ask, ticking, started, fault, overlap>>

CreateStep(p) ==
  Scan(p) \/ Malloc(p) \/ Fill(p) \/ RTTaskCreateImpl(p) \/ Publish(p) \/ MallocStep(p)

-----------------------------------------------------------------------------

\* A malloc of a task's own.
OwnMalloc(p) ==
  /\ Idle(p)
  /\ \E n \in ask[p] : Call(p, n) /\ ask' = Set(ask, p, ask[p] \ {n})
  /\ UNCHANGED <<taskTable, taskId, framed, at, func, i, task, todo, ticking, started, fault, overlap>>

\* Mutant: the ticks start before the idle task is there.
RTEnableSystick_First ==
  /\ Idle(Main) /\ Len(todo[Main]) = 1 /\ ~ticking
  /\ ticking' = TRUE
  /\ UNCHANGED <<vars, taskTable, taskId, framed, at, func, i, task, todo, ask, started, fault, overlap>>

\* RTGo, whose RTTaskCreate of the idle task is main's last.
RTEnableSystick ==
  /\ Idle(Main) /\ todo[Main] = <<>> /\ ~ticking
  /\ ticking' = TRUE
  /\ UNCHANGED <<vars, taskTable, taskId, framed, at, func, i, task, todo, ask, started, fault, overlap>>

\* The first systick leaves main for good.
FirstSwitch ==
  /\ ticking /\ ~started
  /\ started' = TRUE
  /\ UNCHANGED <<vars, taskTable, taskId, framed, at, func, i, task, todo, ask, ticking, fault, overlap>>

-----------------------------------------------------------------------------

TableTypeOK ==
  /\ TypeOK
  /\ taskTable \in [Slot -> Caller \cup {NULL}]
  /\ taskId \in [Caller -> 0 .. TASK_MAX] /\ framed \subseteq Caller
  /\ at \in [Caller -> {"idle", "scan", "malloc", "again", "fill", "frame", "publish"}]
  /\ func \in [Caller -> Caller \cup {NULL}]
  /\ i \in [Caller -> 0 .. TASK_MAX + 1] /\ task \in [Caller -> BOOLEAN]
  /\ todo \in [Caller -> Seq(Caller)] /\ ask \in [Caller -> SUBSET Sizes]
  /\ {ticking, started, fault} \subseteq BOOLEAN /\ overlap \subseteq Caller

\* A task that the scheduler can find is complete: it has its id, which is
\* its entry, and the frame that it is first switched to, whatever its
\* creator was interrupted by and whoever else creates tasks.
ListedIsReady ==
  \A s \in Slot : taskTable[s] # NULL =>
    taskTable[s] \in framed /\ taskId[taskTable[s]] = s

\* A task that was created, its RTTaskCreate having found an entry and
\* returned, is in the table, unless two RTTaskCreates overlapped; and once
\* tasks run, all that main was to create are there, the idle task with them.
Created == {t \in framed : \A p \in Creating : func[p] # t}
TasksListed ==
  /\ Created \subseteq Listed \cup overlap
  /\ started => \A n \in 1 .. Len(Creates[Main]) : Creates[Main][n] \in Listed

\* RTTaskCreate returns, or stops the machine: a table that is full and a
\* heap that is used up do not hold it.
CreatesReturn == \A p \in Caller : at[p] # "idle" ~> at[p] = "idle" \/ fault
=============================================================================
