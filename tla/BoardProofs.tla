----------------------------- MODULE BoardProofs -----------------------------
(***************************************************************************)
(* Safety of the task table and of the heap it shares, for every number of *)
(* tasks, creations, entries and sizes, and every interleaving of the      *)
(* tasks that create tasks.                                                *)
(***************************************************************************)
EXTENDS Board, HeapProofs

USE TableAssumption

-----------------------------------------------------------------------------
(* The heap.  To the allocator the tasks are its callers.                  *)

\* The sizes asked for are those assumed of the allocator.
AskType == ask \in [Caller -> SUBSET Sizes]

LEMMA TableStepHeap ==
  ASSUME NEW p \in Caller, CreateStep(p)
  PROVE  [Next]_vars /\ UNCHANGED ask
<1>1. CASE Scan(p) \/ Fill(p) \/ RTTaskCreateImpl(p) \/ Publish(p)
  BY <1>1 DEF Scan, Fill, RTTaskCreateImpl, Publish
<1>2. CASE Malloc(p)
  BY <1>2 DEF Malloc, Next
<1>3. CASE MallocStep(p)
  BY <1>3 DEF MallocStep, Next
<1> QED BY <1>1, <1>2, <1>3 DEF CreateStep

LEMMA HeapStep ==
  ASSUME AskType, [BoardNext]_board
  PROVE  [Next]_vars /\ AskType'
<1>1. CASE Boot
  BY <1>1 DEF Boot, Next, AskType, table
<1>2. CASE Start \/ UNCHANGED board
  BY <1>2 DEF Start, RTEnableSystick, FirstSwitch, board, table, AskType
<1>3. ASSUME NEW p \in Caller, NewCall(p) PROVE [Next]_vars /\ AskType'
  <2>1. CASE RTTaskCreate(p)
    BY <2>1 DEF RTTaskCreate, AskType
  <2>2. CASE OwnMalloc(p)
    <3>1. PICK n \in ask[p] : Call(p, n) /\ ask' = Set(ask, p, ask[p] \ {n})
      BY <2>2 DEF OwnMalloc
    <3>2. n \in Sizes
      BY <3>1 DEF AskType
    <3> QED BY <3>1, <3>2 DEF Next, AskType, Set
  <2>3. CASE UNCHANGED <<vars, table>>
    BY <2>3 DEF AskType, table
  <2> QED BY <1>3, <2>1, <2>2, <2>3 DEF NewCall, TaskCall
<1>4. ASSUME NEW p \in Caller, TableStep(p) PROVE [Next]_vars /\ AskType'
  BY <1>4, TableStepHeap DEF TableStep, AskType
<1>5. ASSUME NEW p \in Caller, PinStep(p) PROVE [Next]_vars /\ AskType'
  BY <1>5 DEF PinStep, AskType, table
<1> QED BY <1>1, <1>2, <1>3, <1>4, <1>5 DEF BoardNext

\* BlocksDisjoint: no two tasks, nor a task's record and what a task
\* allocates, share a byte, whoever creates and allocates at the same time.
THEOREM BoardSharesNoByte == ASSUME NoWrap PROVE BoardSpec => []BlocksDisjoint
<1>1. BoardInit => AskType /\ Inv
  BY InitInv DEF BoardInit, TableInit, AskType
<1>2. AskType /\ Inv /\ [BoardNext]_board => AskType' /\ Inv'
  BY HeapStep, StepInv
<1>3. Inv => BlocksDisjoint
  BY DEF Inv
<1> QED BY <1>1, <1>2, <1>3, PTL DEF BoardSpec

-----------------------------------------------------------------------------
(* The task table.                                                         *)

\* Nothing that is listed or being created is still to be created.
ToCreate(f) == \E p \in Caller : \E m \in 1 .. Len(todo[p]) : todo[p][m] = f

OncePerTask ==
  /\ \A p, q \in Caller : \A m \in 1 .. Len(todo[p]), n \in 1 .. Len(todo[q]) :
       todo[p][m] = todo[q][n] => p = q /\ m = n
  /\ \A p \in Caller : at[p] # "idle" =>
       /\ func[p] \in Caller /\ func[p] \notin Listed /\ ~ToCreate(func[p])
       /\ \A q \in Caller : at[q] # "idle" /\ func[q] = func[p] => p = q
  /\ \A f \in Listed : ~ToCreate(f)

\* How far a task's record is made.
Made ==
  ~fault => \A p \in Caller :
    /\ at[p] \in {"frame", "publish"} => taskId[func[p]] = i[p]
    /\ at[p] = "publish" => func[p] \in framed

RecordType ==
  /\ taskTable \in [Slot -> Caller \cup {NULL}]
  /\ DOMAIN taskId = Caller /\ DOMAIN at = Caller /\ DOMAIN func = Caller /\ DOMAIN i = Caller
  /\ todo \in [Caller -> Seq(Caller)]

TableInv == RecordType /\ OncePerTask /\ Made /\ ListedIsReady

LEMMA InitTable == BoardInit => TableInv
<1> SUFFICES ASSUME BoardInit PROVE TableInv
  OBVIOUS
<1>1. /\ taskTable = [s \in Slot |-> NULL] /\ todo = Creates
      /\ at = [p \in Caller |-> "idle"]
  BY DEF BoardInit, TableInit
<1>2. \A p \in Caller : Creates[p] \in Seq(Caller)
  <2> TAKE p \in Caller
  <2>1. Creates[p] \in Seq(Caller \ {Main})
    OBVIOUS
  <2> QED BY <2>1
<1>3. RecordType
  BY <1>1, <1>2 DEF BoardInit, TableInit, RecordType
<1>4. Listed = {}
  BY <1>1 DEF Listed
<1>5. OncePerTask
  BY <1>1, <1>4, CreatesAssumption DEF OncePerTask
<1> QED BY <1>1, <1>3, <1>5 DEF TableInv, Made, ListedIsReady

\* What the invariant is about; most steps leave it alone.
records == <<taskTable, taskId, framed, at, func, i, todo, fault>>

LEMMA RecordsUnchanged == TableInv /\ UNCHANGED records => TableInv'
<1> SUFFICES ASSUME TableInv, UNCHANGED records PROVE TableInv'
  OBVIOUS
<1>1. UNCHANGED <<taskTable, taskId, framed, at, func, i, todo, fault>>
  BY DEF records
<1>2. RecordType'
  BY <1>1 DEF TableInv, RecordType
<1>3. OncePerTask'
  <2>1. UNCHANGED OncePerTask
    BY <1>1 DEF OncePerTask, Listed, ToCreate
  <2> QED BY <2>1 DEF TableInv
<1>4. Made'
  BY <1>1 DEF TableInv, Made
<1>5. ListedIsReady'
  BY <1>1 DEF TableInv, ListedIsReady
<1> QED BY <1>2, <1>3, <1>4, <1>5 DEF TableInv

LEMMA RTTaskCreateTable ==
  ASSUME TableInv, NEW p \in Caller, RTTaskCreate(p)
  PROVE  TableInv'
<1>0. PICK f : f = Head(todo[p])
  OBVIOUS
<1>1. /\ at[p] = "idle" /\ todo[p] # <<>> /\ todo[p] \in Seq(Caller)
      /\ at' = [at EXCEPT ![p] = "scan"] /\ func' = [func EXCEPT ![p] = f]
      /\ todo' = [todo EXCEPT ![p] = Tail(todo[p])]
      /\ i' = [i EXCEPT ![p] = 1]
      /\ UNCHANGED <<taskTable, taskId, framed, fault>>
  BY <1>0 DEF RTTaskCreate, Idle, Set, TableInv, RecordType
<1>2. /\ Tail(todo[p]) \in Seq(Caller) /\ Len(todo[p]) \in Nat \ {0}
      /\ Len(Tail(todo[p])) = Len(todo[p]) - 1
      /\ f = todo[p][1] /\ f \in Caller
      /\ \A n \in 1 .. Len(Tail(todo[p])) : Tail(todo[p])[n] = todo[p][n + 1]
  BY <1>0, <1>1
<1>3. RecordType'
  BY <1>1, <1>2 DEF TableInv, RecordType
<1>4. Listed' = Listed
  BY <1>1 DEF Listed
<1>5. /\ ToCreate(f) /\ f \notin Listed
      /\ \A q \in Caller : at[q] # "idle" => func[q] # f
  <2>1. ToCreate(f)
    <3>1. 1 \in 1 .. Len(todo[p]) /\ todo[p][1] = f
      BY <1>2
    <3> QED BY <3>1 DEF ToCreate
  <2> QED BY <2>1 DEF TableInv, OncePerTask
<1>6. \A q \in Caller : \A n \in 1 .. Len(todo'[q]) :
        \E m \in 1 .. Len(todo[q]) :
          todo'[q][n] = todo[q][m] /\ m = (IF q = p THEN n + 1 ELSE n)
  <2> SUFFICES ASSUME NEW q \in Caller, NEW n \in 1 .. Len(todo'[q])
               PROVE  \E m \in 1 .. Len(todo[q]) :
                        todo'[q][n] = todo[q][m] /\ m = (IF q = p THEN n + 1 ELSE n)
    OBVIOUS
  <2>0. p \in DOMAIN todo /\ q \in DOMAIN todo
    BY DEF TableInv, RecordType
  <2>1. CASE q = p
    <3>1. todo'[q] = Tail(todo[p])
      BY <2>0, <2>1, <1>1
    <3>2. n \in 1 .. Len(todo[p]) - 1
      BY <3>1, <1>2
    <3>3. n + 1 \in 1 .. Len(todo[p]) /\ todo'[q][n] = todo[p][n + 1]
      BY <3>1, <3>2, <1>2
    <3> QED BY <3>3, <2>1
  <2>2. CASE q # p
    BY <2>0, <2>2, <1>1
  <2> QED BY <2>1, <2>2
<1>7. \A g : ToCreate(g)' => ToCreate(g)
  <2> SUFFICES ASSUME NEW g, ToCreate(g)' PROVE ToCreate(g)
    OBVIOUS
  <2>0. PICK q \in Caller : \E n \in 1 .. Len(todo'[q]) : todo'[q][n] = g
    BY DEF ToCreate
  <2>1. PICK n \in 1 .. Len(todo'[q]) : todo'[q][n] = g
    BY <2>0
  <2>2. PICK m \in 1 .. Len(todo[q]) : todo'[q][n] = todo[q][m]
    BY <1>6
  <2> QED BY <2>1, <2>2 DEF ToCreate
<1>8. ~ToCreate(f)'
  <2> SUFFICES ASSUME NEW q \in Caller, NEW n \in 1 .. Len(todo'[q]), todo'[q][n] = f
               PROVE  FALSE
    BY DEF ToCreate
  <2>1. PICK m \in 1 .. Len(todo[q]) : f = todo[q][m] /\ m = (IF q = p THEN n + 1 ELSE n)
    BY <1>6
  <2>2. q = p /\ m = 1
    <3>1. 1 \in 1 .. Len(todo[p]) /\ todo[p][1] = todo[q][m]
      BY <1>2, <2>1
    <3> QED BY <3>1 DEF TableInv, OncePerTask
  <2>3. n \in Nat /\ n >= 1
    <3>1. Len(todo'[q]) \in Nat
      BY <2>2, <1>1, <1>2 DEF TableInv, RecordType
    <3> QED BY <3>1
  <2> QED BY <2>1, <2>2, <2>3
<1>9. OncePerTask'
  <2>1. ASSUME NEW q \in Caller, NEW r \in Caller,
               NEW m \in 1 .. Len(todo'[q]), NEW n \in 1 .. Len(todo'[r]),
               todo'[q][m] = todo'[r][n]
        PROVE  q = r /\ m = n
    <3>1. PICK a \in 1 .. Len(todo[q]) : todo'[q][m] = todo[q][a] /\ a = (IF q = p THEN m + 1 ELSE m)
      BY <1>6
    <3>2. PICK b \in 1 .. Len(todo[r]) : todo'[r][n] = todo[r][b] /\ b = (IF r = p THEN n + 1 ELSE n)
      BY <1>6
    <3>3. q = r /\ a = b
      <4>1. todo[q][a] = todo[r][b]
        BY <2>1, <3>1, <3>2
      <4> QED BY <4>1 DEF TableInv, OncePerTask
    <3>4. m \in Int /\ n \in Int
      BY <3>1, <3>2, <1>3 DEF RecordType
    <3> QED BY <3>1, <3>2, <3>3, <3>4
  <2>2. ASSUME NEW q \in Caller, at'[q] # "idle"
        PROVE  /\ func'[q] \in Caller /\ func'[q] \notin Listed' /\ ~ToCreate(func[q])'
               /\ \A r \in Caller : at'[r] # "idle" /\ func'[r] = func'[q] => q = r
    <3>1. func'[p] = f /\ \A r \in Caller \ {p} : at'[r] = at[r] /\ func'[r] = func[r]
      BY <1>1 DEF TableInv, RecordType
    <3>2. CASE q = p
      BY <3>1, <3>2, <1>2, <1>4, <1>5, <1>8
    <3>3. CASE q # p
      <4>1. at[q] # "idle" /\ func'[q] = func[q] /\ func[q] # f
        BY <2>2, <3>1, <3>3, <1>5
      <4>2. func[q] \in Caller /\ func[q] \notin Listed /\ ~ToCreate(func[q])
        BY <4>1 DEF TableInv, OncePerTask
      <4>3. ~ToCreate(func[q])'
        BY <4>1, <4>2, <1>7 DEF ToCreate
      <4>4. ASSUME NEW r \in Caller, at'[r] # "idle", func'[r] = func'[q] PROVE q = r
        BY <4>1, <4>4, <3>1 DEF TableInv, OncePerTask
      <4> QED BY <4>1, <4>2, <4>3, <4>4, <1>4
    <3> QED BY <3>2, <3>3
  <2>3. \A g \in Listed' : ~ToCreate(g)'
    BY <1>4, <1>7 DEF TableInv, OncePerTask
  <2> QED BY <2>1, <2>2, <2>3 DEF OncePerTask
<1>10. Made'
  BY <1>1 DEF TableInv, RecordType, Made
<1>11. ListedIsReady'
  BY <1>1 DEF TableInv, ListedIsReady
<1> QED BY <1>3, <1>9, <1>10, <1>11 DEF TableInv

\* A step of RTTaskCreate before the entry is set, which changes no entry.
LEMMA InsideTable ==
  ASSUME TableInv, NEW p \in Caller, Scan(p) \/ Malloc(p) \/ Fill(p) \/ RTTaskCreateImpl(p)
  PROVE  TableInv'
<1>0. RecordType /\ OncePerTask /\ Made /\ ListedIsReady
  BY DEF TableInv
<1>1. /\ UNCHANGED <<taskTable, func, todo>> /\ ~fault /\ at[p] # "idle"
      /\ at' = [at EXCEPT ![p] = at'[p]]
      /\ framed \subseteq framed' /\ DOMAIN i' = Caller
      /\ \A q \in Caller \ {p} : i'[q] = i[q]
      /\ DOMAIN taskId' = Caller /\ \A t \in Caller \ {func[p]} : taskId'[t] = taskId[t]
  BY <1>0 DEF Scan, Malloc, Fill, RTTaskCreateImpl, Step, Runs, Set, RecordType
<1>2. Listed' = Listed /\ \A g : ToCreate(g)' <=> ToCreate(g)
  BY <1>1 DEF Listed, ToCreate
<1>3. \A q \in Caller : at'[q] # "idle" => at[q] # "idle"
  BY <1>0, <1>1 DEF RecordType
<1>4. RecordType'
  BY <1>0, <1>1 DEF RecordType
<1>5. OncePerTask'
  <2>1. \A q \in Caller : at'[q] # "idle" =>
          /\ func'[q] \in Caller /\ func'[q] \notin Listed' /\ ~ToCreate(func[q])'
          /\ \A r \in Caller : at'[r] # "idle" /\ func'[r] = func'[q] => q = r
    BY <1>0, <1>1, <1>2, <1>3 DEF OncePerTask, ToCreate
  <2>2. \A g \in Listed' : ~ToCreate(g)'
    BY <1>0, <1>2 DEF OncePerTask
  <2>3. \A q, r \in Caller : \A m \in 1 .. Len(todo'[q]), n \in 1 .. Len(todo'[r]) :
          todo'[q][m] = todo'[r][n] => q = r /\ m = n
    BY <1>0, <1>1 DEF OncePerTask
  <2> QED BY <2>1, <2>2, <2>3 DEF OncePerTask
<1>6. func[p] \in Caller /\ func[p] \notin Listed
      /\ \A q \in Caller \ {p} : at[q] # "idle" => func[q] # func[p]
  BY <1>0, <1>1 DEF OncePerTask
<1>7. Made'
  <2>1. ASSUME ~fault', NEW q \in Caller \ {p}
        PROVE  /\ at'[q] \in {"frame", "publish"} => taskId'[func'[q]] = i'[q]
               /\ at'[q] = "publish" => func'[q] \in framed'
    <3>1. at'[q] = at[q] /\ i'[q] = i[q] /\ func'[q] = func[q]
      BY <1>0, <1>1 DEF RecordType
    <3>2. at[q] \in {"frame", "publish"} => func[q] \in Caller \ {func[p]}
      BY <1>0, <1>6 DEF OncePerTask
    <3> QED BY <3>1, <3>2, <1>0, <1>1 DEF Made
  <2>2. ASSUME ~fault'
        PROVE  /\ at'[p] \in {"frame", "publish"} => taskId'[func'[p]] = i'[p]
               /\ at'[p] = "publish" => func'[p] \in framed'
    <3>1. CASE Scan(p) \/ Malloc(p)
      <4>1. at'[p] \in {"scan", "idle", "malloc", "again", "fill"}
        BY <3>1, <1>0 DEF Scan, Malloc, Step, Set, RecordType
      <4> QED BY <4>1
    <3>2. CASE Fill(p)
      <4>1. taskId' = [taskId EXCEPT ![func[p]] = i[p]] /\ at'[p] = "frame" /\ i' = i
        BY <2>2, <3>2, <1>0 DEF Fill, Step, Set, RecordType
      <4>2. taskId'[func[p]] = i[p]
        BY <4>1, <1>0, <1>6 DEF RecordType
      <4> QED BY <4>1, <4>2, <1>1
    <3>3. CASE RTTaskCreateImpl(p)
      <4>1. at[p] = "frame" /\ framed' = framed \cup {func[p]} /\ UNCHANGED <<taskId, i, func>>
        BY <3>3 DEF RTTaskCreateImpl, Step
      <4> QED BY <4>1, <1>0, <1>1 DEF Made
    <3> QED BY <3>1, <3>2, <3>3
  <2> QED BY <2>1, <2>2 DEF Made
<1>8. ListedIsReady'
  <2> SUFFICES ASSUME NEW s \in Slot, taskTable[s] # NULL
               PROVE  taskTable[s] \in framed' /\ taskId'[taskTable[s]] = s
    BY <1>1 DEF ListedIsReady
  <2>1. taskTable[s] \in Listed /\ taskTable[s] \in Caller \ {func[p]}
    BY <1>0, <1>6 DEF Listed, RecordType
  <2>2. taskTable[s] \in framed /\ taskId[taskTable[s]] = s
    BY <1>0 DEF ListedIsReady
  <2> QED BY <2>1, <2>2, <1>1
<1> QED BY <1>4, <1>5, <1>7, <1>8 DEF TableInv

LEMMA PublishTable ==
  ASSUME TableInv, NEW p \in Caller, Publish(p)
  PROVE  TableInv'
<1>0. RecordType /\ OncePerTask /\ Made /\ ListedIsReady
  BY DEF TableInv
<1>1. /\ at[p] = "publish" /\ ~fault
      /\ at' = [at EXCEPT ![p] = "idle"]
      /\ taskTable' = [taskTable EXCEPT ![i[p]] = func[p]]
      /\ UNCHANGED <<taskId, framed, func, i, todo, fault>>
  BY DEF Publish, Step, Runs, Set
<1>2. /\ func[p] \in Caller /\ ~ToCreate(func[p])
      /\ \A q \in Caller \ {p} : at[q] # "idle" => func[q] # func[p]
      /\ taskId[func[p]] = i[p] /\ func[p] \in framed
  BY <1>0, <1>1 DEF OncePerTask, Made
<1>3. Listed' \subseteq Listed \cup {func[p]}
  BY <1>0, <1>1 DEF Listed, RecordType
<1>4. \A g : ToCreate(g)' <=> ToCreate(g)
  BY <1>1 DEF ToCreate
<1>5. RecordType'
  BY <1>0, <1>1, <1>2 DEF RecordType
<1>6. at'[p] = "idle" /\ \A q \in Caller \ {p} : at'[q] = at[q]
  BY <1>0, <1>1 DEF RecordType
<1>7. OncePerTask'
  <2>1. \A q \in Caller : at'[q] # "idle" =>
          /\ func'[q] \in Caller /\ func'[q] \notin Listed' /\ ~ToCreate(func[q])'
          /\ \A r \in Caller : at'[r] # "idle" /\ func'[r] = func'[q] => q = r
    BY <1>0, <1>1, <1>2, <1>3, <1>4, <1>6 DEF OncePerTask, ToCreate
  <2>2. \A g \in Listed' : ~ToCreate(g)'
    BY <1>0, <1>2, <1>3, <1>4 DEF OncePerTask
  <2>3. \A q, r \in Caller : \A m \in 1 .. Len(todo'[q]), n \in 1 .. Len(todo'[r]) :
          todo'[q][m] = todo'[r][n] => q = r /\ m = n
    <3>1. todo' = todo
      BY <1>1
    <3>2. \A q, r \in Caller : \A m \in 1 .. Len(todo[q]), n \in 1 .. Len(todo[r]) :
            todo[q][m] = todo[r][n] => q = r /\ m = n
      BY <1>0 DEF OncePerTask
    <3> QED BY <3>1, <3>2
  <2> QED BY <2>1, <2>2, <2>3 DEF OncePerTask
<1>8. Made'
  BY <1>0, <1>1, <1>6 DEF Made
<1>9. ListedIsReady'
  BY <1>0, <1>1, <1>2 DEF ListedIsReady, RecordType
<1> QED BY <1>5, <1>7, <1>8, <1>9 DEF TableInv

LEMMA BoardStep == TableInv /\ [BoardNext]_board => TableInv'
<1> SUFFICES ASSUME TableInv, [BoardNext]_board PROVE TableInv'
  OBVIOUS
<1>1. CASE Boot
  BY <1>1, RecordsUnchanged DEF Boot, table, records
<1>2. CASE Start \/ UNCHANGED board
  BY <1>2, RecordsUnchanged DEF Start, RTEnableSystick, FirstSwitch, board, table, records
<1>3. ASSUME NEW p \in Caller, NewCall(p) PROVE TableInv'
  <2>1. CASE OwnMalloc(p)
    BY <2>1, RecordsUnchanged DEF OwnMalloc, records
  <2>2. CASE UNCHANGED <<vars, table>>
    BY <2>2, RecordsUnchanged DEF table, records
  <2> QED BY <1>3, <2>1, <2>2, RTTaskCreateTable DEF NewCall, TaskCall
<1>4. ASSUME NEW p \in Caller, TableStep(p) PROVE TableInv'
  <2>1. CASE MallocStep(p)
    BY <2>1, RecordsUnchanged DEF MallocStep, records
  <2> QED BY <1>4, <2>1, InsideTable, PublishTable DEF TableStep, CreateStep
<1>5. ASSUME NEW p \in Caller, PinStep(p) PROVE TableInv'
  BY <1>5, RecordsUnchanged DEF PinStep, table, records
<1> QED BY <1>1, <1>2, <1>3, <1>4, <1>5 DEF BoardNext

\* ListedIsReady: the scheduler never finds a task in the table that lacks its
\* frame or whose id is not its entry, however many tasks create others at
\* the same time, and even when two of them get the same entry.
THEOREM OnlyReadyTasksListed == BoardSpec => []ListedIsReady
<1>1. TableInv => ListedIsReady
  BY DEF TableInv
<1> QED BY InitTable, BoardStep, <1>1, PTL DEF BoardSpec

-----------------------------------------------------------------------------
(* TasksListed.                                                            *)

\* A task is framed once, after it was taken from the list of those to create.
FramedOnce ==
  /\ \A f \in framed : ~ToCreate(f)
  /\ \A p \in Caller : at[p] = "scan" => func[p] \notin framed

\* Two tasks that are being created at the same time know of each other.
Overlaps ==
  \A p, q \in Caller : p # q /\ at[p] # "idle" /\ at[q] # "idle" => func[p] \in overlap

\* The entry that a search found is free, until another creator takes it.
Targets ==
  \A p \in Caller : at[p] \notin {"idle", "scan"} =>
    i[p] \in Slot /\ taskTable[i[p]] \in overlap \cup {NULL}

Kept ==
  \A t \in framed : t \in Listed \cup overlap \/ \E p \in Caller : at[p] # "idle" /\ func[p] = t

KeptInv == FramedOnce /\ Overlaps /\ Targets /\ Kept

LEMMA InitKept == BoardInit => KeptInv
<1> SUFFICES ASSUME BoardInit PROVE KeptInv
  OBVIOUS
<1>1. framed = {} /\ at = [p \in Caller |-> "idle"]
  BY DEF BoardInit, TableInit
<1> QED BY <1>1 DEF KeptInv, FramedOnce, Overlaps, Targets, Kept

LEMMA KeptUnchanged == KeptInv /\ UNCHANGED <<records, overlap>> => KeptInv'
<1> SUFFICES ASSUME KeptInv, UNCHANGED <<records, overlap>> PROVE KeptInv'
  OBVIOUS
<1>1. UNCHANGED <<taskTable, framed, at, func, i, todo, overlap>>
  BY DEF records
<1> QED BY <1>1 DEF KeptInv, FramedOnce, Overlaps, Targets, Kept, ToCreate, Listed

\* What RTTaskCreate takes from the list was the first of it.
LEMMA TakenFromList ==
  ASSUME RecordType, NEW p \in Caller, RTTaskCreate(p)
  PROVE  /\ Head(todo[p]) = todo[p][1] /\ Len(todo[p]) \in Nat \ {0}
         /\ Head(todo[p]) \in Caller /\ ToCreate(Head(todo[p]))
         /\ Len(todo'[p]) = Len(todo[p]) - 1
         /\ \A m \in 1 .. Len(todo'[p]) : todo'[p][m] = todo[p][m + 1]
         /\ \A q \in Caller \ {p} : todo'[q] = todo[q]
         /\ \A g : ToCreate(g)' => ToCreate(g)
<1>1. /\ todo[p] # <<>> /\ todo[p] \in Seq(Caller)
      /\ todo' = [todo EXCEPT ![p] = Tail(todo[p])]
  BY DEF RTTaskCreate, Set, RecordType
<1>2. todo'[p] = Tail(todo[p]) /\ \A q \in Caller \ {p} : todo'[q] = todo[q]
  BY <1>1 DEF RecordType
<1>3. /\ Head(todo[p]) = todo[p][1] /\ Len(todo[p]) \in Nat \ {0} /\ Head(todo[p]) \in Caller
      /\ Len(todo'[p]) = Len(todo[p]) - 1
      /\ \A m \in 1 .. Len(todo'[p]) : todo'[p][m] = todo[p][m + 1]
  <2>1. ASSUME NEW s \in Seq(Caller), s # <<>>
        PROVE  /\ Head(s) = s[1] /\ Len(s) \in Nat \ {0} /\ Head(s) \in Caller
               /\ Len(Tail(s)) = Len(s) - 1
               /\ \A m \in 1 .. Len(Tail(s)) : Tail(s)[m] = s[m + 1]
    BY <2>1
  <2>2. todo[p] \in Seq(Caller) /\ todo[p] # <<>> /\ todo'[p] = Tail(todo[p])
    BY <1>1, <1>2
  <2> HIDE <1>1, <1>2
  <2> QED BY <2>1, <2>2
<1>4. ToCreate(Head(todo[p]))
  <2>1. 1 \in 1 .. Len(todo[p]) /\ todo[p][1] = Head(todo[p])
    BY <1>3
  <2> QED BY <2>1 DEF ToCreate
<1>5. ASSUME NEW g, ToCreate(g)' PROVE ToCreate(g)
  <2>1. PICK q \in Caller : \E m \in 1 .. Len(todo'[q]) : todo'[q][m] = g
    BY <1>5 DEF ToCreate
  <2>2. PICK m \in 1 .. Len(todo'[q]) : todo'[q][m] = g
    BY <2>1
  <2>3. CASE q = p
    <3>1. m + 1 \in 1 .. Len(todo[q]) /\ todo[q][m + 1] = g
      BY <2>2, <2>3, <1>3
    <3> QED BY <3>1 DEF ToCreate
  <2>4. CASE q # p
    BY <2>2, <2>4, <1>2 DEF ToCreate
  <2> QED BY <2>3, <2>4
<1> QED BY <1>2, <1>3, <1>4, <1>5

LEMMA CreateKept ==
  ASSUME TableInv, TableInv', KeptInv, NEW p \in Caller, RTTaskCreate(p)
  PROVE  KeptInv'
<1>0. /\ RecordType /\ OncePerTask /\ OncePerTask'
      /\ FramedOnce /\ Overlaps /\ Targets /\ Kept
  BY DEF TableInv, KeptInv
<1>1. PICK f : f = Head(todo[p])
  OBVIOUS
<1>2. /\ at[p] = "idle" /\ at' = [at EXCEPT ![p] = "scan"]
      /\ func' = [func EXCEPT ![p] = f] /\ i' = [i EXCEPT ![p] = 1]
      /\ overlap' = IF Creating = {} THEN overlap
                    ELSE overlap \cup {func[q] : q \in Creating} \cup {f}
      /\ UNCHANGED <<taskTable, framed>>
  BY <1>1 DEF RTTaskCreate, Idle, Set
<1>3. /\ at'[p] = "scan" /\ func'[p] = f
      /\ \A q \in Caller \ {p} : at'[q] = at[q] /\ func'[q] = func[q] /\ i'[q] = i[q]
      /\ overlap \subseteq overlap' /\ Listed' = Listed
  BY <1>0, <1>2 DEF RecordType, Listed
<1>4. \A q \in Caller \ {p} : at[q] # "idle" => func[q] \in overlap' /\ f \in overlap'
  BY <1>2 DEF Creating
<1>5. FramedOnce'
  <2>1. f \notin framed /\ \A g \in framed : ~ToCreate(g)'
    BY <1>0, <1>1, TakenFromList DEF FramedOnce
  <2> QED BY <2>1, <1>0, <1>2, <1>3 DEF FramedOnce
<1>6. Overlaps'
  BY <1>0, <1>3, <1>4 DEF Overlaps
<1>7. Targets'
  <2> SUFFICES ASSUME NEW q \in Caller, at'[q] \notin {"idle", "scan"}
               PROVE  i'[q] \in Slot /\ taskTable'[i'[q]] \in overlap' \cup {NULL}
    BY DEF Targets
  <2>1. q # p /\ at[q] \notin {"idle", "scan"} /\ i'[q] = i[q]
    BY <1>3
  <2> QED BY <2>1, <1>0, <1>2, <1>3 DEF Targets
<1>8. Kept'
  <2> SUFFICES ASSUME NEW t \in framed, t \notin Listed \cup overlap
               PROVE  \E q \in Caller : at'[q] # "idle" /\ func'[q] = t
    BY <1>2, <1>3 DEF Kept
  <2>1. PICK q \in Caller : at[q] # "idle" /\ func[q] = t
    BY <1>0 DEF Kept
  <2>2. q # p
    BY <2>1, <1>2
  <2> QED BY <2>1, <2>2, <1>3
<1> QED BY <1>5, <1>6, <1>7, <1>8 DEF KeptInv

LEMMA InsideKept ==
  ASSUME TableInv, KeptInv, NEW p \in Caller,
         Scan(p) \/ Malloc(p) \/ Fill(p) \/ RTTaskCreateImpl(p)
  PROVE  KeptInv'
<1>0. RecordType /\ OncePerTask /\ FramedOnce /\ Overlaps /\ Targets /\ Kept
  BY DEF TableInv, KeptInv
<1>1. /\ UNCHANGED <<taskTable, func, todo, overlap>> /\ at[p] # "idle"
      /\ \A q \in Caller \ {p} : at'[q] = at[q] /\ i'[q] = i[q]
      /\ framed' \in {framed, framed \cup {func[p]}}
  BY <1>0 DEF Scan, Malloc, Fill, RTTaskCreateImpl, Step, Set, RecordType
<1>2. Listed' = Listed /\ \A g : ToCreate(g)' <=> ToCreate(g)
  BY <1>1 DEF Listed, ToCreate
<1>3. /\ ~ToCreate(func[p])
      /\ \A q \in Caller \ {p} : at[q] # "idle" => func[q] # func[p]
  BY <1>0, <1>1 DEF OncePerTask
<1>4. /\ at'[p] = "idle" => at[p] = "scan" /\ framed' = framed
      /\ at'[p] = "scan" => at[p] = "scan" /\ framed' = framed
      /\ at'[p] \notin {"idle", "scan"} =>
           \/ at[p] # "scan" /\ i'[p] = i[p]
           \/ i'[p] \in Slot /\ taskTable[i'[p]] = NULL
  BY <1>0 DEF Scan, Malloc, Fill, RTTaskCreateImpl, Step, Set, RecordType
<1>5. FramedOnce'
  BY <1>0, <1>1, <1>2, <1>3, <1>4 DEF FramedOnce
<1>6. Overlaps'
  BY <1>0, <1>1 DEF Overlaps
<1>7. Targets'
  BY <1>0, <1>1, <1>4 DEF Targets
<1>8. Kept'
  <2> SUFFICES ASSUME NEW t \in framed', t \notin Listed \cup overlap
               PROVE  \E q \in Caller : at'[q] # "idle" /\ func[q] = t
    BY <1>1, <1>2 DEF Kept
  <2>1. PICK q \in Caller : at[q] # "idle" /\ func[q] = t
    BY <1>0, <1>1 DEF Kept
  <2>2. CASE q # p
    BY <2>1, <2>2, <1>1
  <2>3. CASE q = p
    BY <2>1, <2>3, <1>0, <1>4 DEF FramedOnce
  <2> QED BY <2>2, <2>3
<1> QED BY <1>5, <1>6, <1>7, <1>8 DEF KeptInv

\* Entries are lost only to tasks that were created at the same time.
LEMMA PublishKeeps ==
  ASSUME RecordType, KeptInv, NEW p \in Caller, Publish(p)
  PROVE  Listed \subseteq Listed' \cup overlap /\ func[p] \in Listed' \cup {NULL}
<1>1. /\ at[p] = "publish" /\ taskTable' = [taskTable EXCEPT ![i[p]] = func[p]]
      /\ i[p] \in Slot /\ taskTable[i[p]] \in overlap \cup {NULL}
  BY DEF Publish, Step, Set, KeptInv, Targets
<1>2. DOMAIN taskTable = Slot
  BY DEF RecordType
<1>3. taskTable'[i[p]] = func[p] /\ \A s \in Slot \ {i[p]} : taskTable'[s] = taskTable[s]
  BY <1>1, <1>2
<1> QED BY <1>1, <1>3 DEF Listed

LEMMA PublishKept ==
  ASSUME TableInv, KeptInv, NEW p \in Caller, Publish(p)
  PROVE  KeptInv'
<1>0. RecordType /\ OncePerTask /\ FramedOnce /\ Overlaps /\ Targets /\ Kept
  BY DEF TableInv, KeptInv
<1>1. /\ at[p] = "publish" /\ at'[p] = "idle"
      /\ \A q \in Caller \ {p} : at'[q] = at[q]
      /\ taskTable' = [taskTable EXCEPT ![i[p]] = func[p]] /\ DOMAIN taskTable = Slot
      /\ UNCHANGED <<framed, func, i, todo, overlap>>
  BY <1>0 DEF Publish, Step, Set, RecordType
<1>2. func[p] # NULL
  BY <1>0, <1>1 DEF OncePerTask
<1>3. Listed \subseteq Listed' \cup overlap /\ func[p] \in Listed'
  BY <1>0, <1>2, PublishKeeps
<1>4. FramedOnce'
  BY <1>0, <1>1 DEF FramedOnce, ToCreate
<1>5. Overlaps'
  BY <1>0, <1>1 DEF Overlaps
<1>6. Targets'
  <2> SUFFICES ASSUME NEW q \in Caller, at'[q] \notin {"idle", "scan"}
               PROVE  i[q] \in Slot /\ taskTable'[i[q]] \in overlap \cup {NULL}
    BY <1>1 DEF Targets
  <2>1. q # p /\ at[q] \notin {"idle", "scan"}
    BY <1>1
  <2>2. func[p] \in overlap
    BY <2>1, <1>0, <1>1 DEF Overlaps
  <2>3. i[q] \in Slot /\ taskTable[i[q]] \in overlap \cup {NULL}
    BY <2>1, <1>0 DEF Targets
  <2> QED BY <2>2, <2>3, <1>1
<1>7. Kept'
  <2> SUFFICES ASSUME NEW t \in framed, t \notin Listed' \cup overlap
               PROVE  \E q \in Caller : at'[q] # "idle" /\ func[q] = t
    BY <1>1 DEF Kept
  <2>1. t \notin Listed \cup overlap /\ t # func[p]
    BY <1>3
  <2>2. PICK q \in Caller : at[q] # "idle" /\ func[q] = t
    BY <2>1, <1>0 DEF Kept
  <2> QED BY <2>1, <2>2, <1>1
<1> QED BY <1>4, <1>5, <1>6, <1>7 DEF KeptInv

LEMMA StepKept ==
  ASSUME TableInv, TableInv', KeptInv, [BoardNext]_board
  PROVE  KeptInv'
<1>1. CASE Boot
  BY <1>1, KeptUnchanged DEF Boot, table, records
<1>2. CASE Start \/ UNCHANGED board
  BY <1>2, KeptUnchanged DEF Start, RTEnableSystick, FirstSwitch, board, table, records
<1>3. ASSUME NEW p \in Caller, NewCall(p) PROVE KeptInv'
  <2>1. CASE OwnMalloc(p)
    BY <2>1, KeptUnchanged DEF OwnMalloc, records
  <2>2. CASE UNCHANGED <<vars, table>>
    BY <2>2, KeptUnchanged DEF table, records
  <2> QED BY <1>3, <2>1, <2>2, CreateKept DEF NewCall, TaskCall
<1>4. ASSUME NEW p \in Caller, TableStep(p) PROVE KeptInv'
  <2>1. CASE MallocStep(p)
    BY <2>1, KeptUnchanged DEF MallocStep, records
  <2> QED BY <1>4, <2>1, InsideKept, PublishKept DEF TableStep, CreateStep
<1>5. ASSUME NEW p \in Caller, PinStep(p) PROVE KeptInv'
  BY <1>5, KeptUnchanged DEF PinStep, table, records
<1> QED BY <1>1, <1>2, <1>3, <1>4, <1>5 DEF BoardNext

-----------------------------------------------------------------------------
(* What main creates, alone, before the first switch.                      *)

MainFits == Len(Creates[Main]) <= TASK_MAX

MainTask == {Creates[Main][n] : n \in 1 .. Len(Creates[Main])}

\* Main is through with its part when the ticks start; the tasks it created
\* are nobody else's to create.
MainOnly ==
  /\ started => ticking
  /\ ticking => at[Main] = "idle" /\ todo[Main] = <<>>
  /\ overlap \cap MainTask = {}
  /\ \A p \in Caller \ {Main} :
       /\ ~started => at[p] = "idle"
       /\ at[p] # "idle" => func[p] \notin MainTask
       /\ \A m \in 1 .. Len(todo[p]) : todo[p][m] \notin MainTask
  /\ started => MainTask \subseteq Listed

\* Main has filled the first k entries.
MainAt(k) ==
  /\ \A s \in Slot : taskTable[s] = IF s <= k THEN Creates[Main][s] ELSE NULL
  /\ LET n == IF at[Main] = "idle" THEN k ELSE k + 1 IN
       /\ n + Len(todo[Main]) = Len(Creates[Main])
       /\ \A m \in 1 .. Len(todo[Main]) : todo[Main][m] = Creates[Main][n + m]
  /\ at[Main] # "idle" =>
       /\ func[Main] = Creates[Main][k + 1]
       /\ i[Main] \in 1 .. k + 1 /\ (at[Main] # "scan" => i[Main] = k + 1)

MainFills == ~started => \E k \in 0 .. Len(Creates[Main]) : MainAt(k)

MainInv == MainOnly /\ MainFills

LEMMA InitMain == BoardInit => MainInv
<1> SUFFICES ASSUME BoardInit PROVE MainInv
  OBVIOUS
<1>1. /\ todo = Creates /\ at = [p \in Caller |-> "idle"] /\ taskTable = [s \in Slot |-> NULL]
      /\ ~ticking /\ ~started /\ overlap = {}
  BY DEF BoardInit, TableInit
<1>2. Len(Creates[Main]) \in Nat
  <2>1. Creates[Main] \in Seq(Caller \ {Main})
    OBVIOUS
  <2> QED BY <2>1
<1>3. MainOnly
  BY <1>1, CreatesAssumption DEF MainOnly, MainTask
<1>4. MainAt(0)
  <2>1. ASSUME NEW s \in Slot PROVE ~(s <= 0)
    BY DEF Slot
  <2>2. \A m \in 1 .. Len(todo[Main]) : todo[Main][m] = Creates[Main][0 + m]
    BY <1>1, <1>2
  <2> QED BY <1>1, <1>2, <2>1, <2>2 DEF MainAt
<1> QED BY <1>2, <1>3, <1>4 DEF MainInv, MainFills

LEMMA MainUnchanged == MainInv /\ UNCHANGED <<records, overlap, ticking, started>> => MainInv'
<1> SUFFICES ASSUME MainInv, UNCHANGED <<records, overlap, ticking, started>> PROVE MainInv'
  OBVIOUS
<1>1. UNCHANGED <<taskTable, at, func, i, todo, overlap, ticking, started>>
  BY DEF records
<1>2. MainOnly'
  BY <1>1 DEF MainInv, MainOnly, Listed
<1>3. \A k : MainAt(k)' <=> MainAt(k)
  BY <1>1 DEF MainAt
<1>4. MainFills'
  BY <1>1, <1>3 DEF MainInv, MainFills
<1> QED BY <1>2, <1>4 DEF MainInv

\* A step of another task's: it never takes what is main's.
LEMMA OthersMain ==
  ASSUME TableInv, KeptInv, MainInv, NEW p \in Caller, p # Main,
         RTTaskCreate(p) \/ Scan(p) \/ Malloc(p) \/ Fill(p) \/ RTTaskCreateImpl(p) \/ Publish(p)
  PROVE  MainInv'
<1>0. RecordType /\ OncePerTask /\ Targets /\ MainOnly
  BY DEF TableInv, KeptInv, MainInv
<1>1. /\ started /\ UNCHANGED <<ticking, started>>
      /\ \A q \in Caller \ {p} : at'[q] = at[q] /\ func'[q] = func[q] /\ todo'[q] = todo[q]
  BY <1>0 DEF RTTaskCreate, Scan, Malloc, Fill, RTTaskCreateImpl, Publish, Step, Idle, Runs, Set, RecordType
<1>2. ticking /\ at[Main] = "idle"
  BY <1>0, <1>1 DEF MainOnly
<1>3. CASE RTTaskCreate(p)
  <2>1. PICK f : f = Head(todo[p])
    OBVIOUS
  <2>2. /\ func'[p] = f /\ f \notin MainTask
        /\ \A m \in 1 .. Len(todo'[p]) : todo'[p][m] \notin MainTask
    <3>1. func'[p] = f
      BY <1>0, <1>3, <2>1 DEF RTTaskCreate, Set, RecordType
    <3>2. 1 \in 1 .. Len(todo[p]) /\ f = todo[p][1]
      BY <1>0, <1>3, <2>1, TakenFromList
    <3>3. \A m \in 1 .. Len(todo'[p]) : m + 1 \in 1 .. Len(todo[p]) /\ todo'[p][m] = todo[p][m + 1]
      BY <1>0, <1>3, TakenFromList
    <3> QED BY <3>1, <3>2, <3>3, <1>0 DEF MainOnly
  <2>3. /\ taskTable' = taskTable
        /\ overlap' \subseteq overlap \cup {func[q] : q \in Creating} \cup {f}
    BY <1>3, <2>1 DEF RTTaskCreate
  <2>4. \A q \in Creating : func[q] \notin MainTask
    BY <1>0, <1>2 DEF MainOnly, Creating
  <2>5. overlap' \cap MainTask = {}
    BY <2>2, <2>3, <2>4, <1>0 DEF MainOnly
  <2>7. Listed' = Listed /\ Main # p /\ Main \in Caller
    BY <2>3 DEF Listed
  <2>8. ASSUME NEW q \in Caller \ {Main}
        PROVE  /\ at'[q] # "idle" => func'[q] \notin MainTask
               /\ \A m \in 1 .. Len(todo'[q]) : todo'[q][m] \notin MainTask
    <3>1. CASE q = p
      BY <3>1, <2>2
    <3>2. CASE q # p
      BY <3>2, <1>0, <1>1 DEF MainOnly
    <3> QED BY <3>1, <3>2
  <2>9. todo'[Main] = todo[Main] /\ at'[Main] = at[Main] /\ MainTask' = MainTask
    BY <2>7, <1>1 DEF MainTask
  <2>6. MainOnly'
    BY <2>5, <2>7, <2>8, <2>9, <1>0, <1>1, <1>2 DEF MainOnly
  <2> QED BY <2>6, <1>1 DEF MainInv, MainFills
<1>4. CASE Scan(p) \/ Malloc(p) \/ Fill(p) \/ RTTaskCreateImpl(p)
  <2>1. UNCHANGED <<taskTable, func, todo, overlap>> /\ at[p] # "idle"
    BY <1>4 DEF Scan, Malloc, Fill, RTTaskCreateImpl, Step
  <2>2. MainOnly'
    BY <2>1, <1>0, <1>1 DEF MainOnly, Listed, MainTask
  <2> QED BY <2>2, <1>1 DEF MainInv, MainFills
<1>5. CASE Publish(p)
  <2>1. UNCHANGED <<func, todo, overlap>> /\ at'[p] = "idle"
    BY <1>0, <1>5 DEF Publish, Step, Set, RecordType
  <2>2. MainTask \subseteq Listed'
    BY <1>0, <1>1, <1>5, PublishKeeps DEF MainOnly
  <2>3. MainOnly'
    BY <2>1, <2>2, <1>0, <1>1 DEF MainOnly, MainTask
  <2> QED BY <2>3, <1>1 DEF MainInv, MainFills
<1> QED BY <1>3, <1>4, <1>5

LEMMA MainLengths == Len(Creates[Main]) \in Nat /\ (RecordType => Len(todo[Main]) \in Nat)
<1>1. Creates[Main] \in Seq(Caller \ {Main})
  OBVIOUS
<1>2. RecordType => todo[Main] \in Seq(Caller)
  BY DEF RecordType
<1> QED BY <1>1, <1>2

LEMMA MainCreates ==
  ASSUME TableInv, MainInv, RTTaskCreate(Main)
  PROVE  MainInv'
<1>0. RecordType /\ MainOnly /\ Main \in Caller
  BY DEF TableInv, MainInv
<1>1. /\ ~started /\ at[Main] = "idle" /\ todo[Main] # <<>>
      /\ at'[Main] = "scan" /\ i'[Main] = 1 /\ func'[Main] = Head(todo[Main])
      /\ UNCHANGED <<taskTable, ticking, started>>
      /\ \A q \in Caller \ {Main} : at'[q] = at[q] /\ func'[q] = func[q] /\ todo'[q] = todo[q]
  BY <1>0 DEF RTTaskCreate, Idle, Runs, Set, RecordType
<1>2. Creating = {} /\ ~ticking
  BY <1>0, <1>1 DEF Creating, MainOnly
<1>3. overlap' = overlap
  BY <1>2 DEF RTTaskCreate
<1>4. MainOnly'
  BY <1>0, <1>1, <1>2, <1>3 DEF MainOnly, MainTask, Listed
<1>5. PICK k \in 0 .. Len(Creates[Main]) : MainAt(k)
  BY <1>1 DEF MainInv, MainFills
<1>6. /\ Len(todo[Main]) \in Nat \ {0} /\ Len(todo'[Main]) = Len(todo[Main]) - 1
      /\ Head(todo[Main]) = todo[Main][1]
      /\ \A m \in 1 .. Len(todo'[Main]) : todo'[Main][m] = todo[Main][m + 1]
  BY <1>0, TakenFromList
<1>7. /\ k + Len(todo[Main]) = Len(Creates[Main])
      /\ \A m \in 1 .. Len(todo[Main]) : todo[Main][m] = Creates[Main][k + m]
      /\ \A s \in Slot : taskTable[s] = IF s <= k THEN Creates[Main][s] ELSE NULL
  BY <1>1, <1>5 DEF MainAt
<1>8. /\ (k + 1) + Len(todo'[Main]) = Len(Creates[Main])
      /\ func'[Main] = Creates[Main][k + 1]
      /\ i'[Main] \in 1 .. k + 1
  <2>1. 1 \in 1 .. Len(todo[Main]) /\ k \in Nat
    BY <1>6
  <2>2. todo[Main][1] = Creates[Main][k + 1]
    BY <2>1, <1>7
  <2>3. /\ k + Len(todo[Main]) = Len(Creates[Main])
        /\ Len(todo'[Main]) = Len(todo[Main]) - 1 /\ Len(todo[Main]) \in Nat
    BY <1>6, <1>7
  <2>4. (k + 1) + Len(todo'[Main]) = Len(Creates[Main])
    <3>1. ASSUME NEW c, NEW t \in Nat, NEW u, k + t = c, u = t - 1 PROVE (k + 1) + u = c
      BY <3>1, <2>1
    <3> QED BY <2>3, <3>1
  <2>5. func'[Main] = Creates[Main][k + 1]
    BY <2>2, <1>1, <1>6
  <2>6. i'[Main] \in 1 .. k + 1
    BY <2>1, <1>1
  <2> QED BY <2>4, <2>5, <2>6
<1>9. ASSUME NEW m \in 1 .. Len(todo'[Main])
      PROVE  todo'[Main][m] = Creates[Main][(k + 1) + m]
  <2>1. m + 1 \in 1 .. Len(todo[Main]) /\ k + (m + 1) = (k + 1) + m
    BY <1>6
  <2> QED BY <2>1, <1>6, <1>7
<1>10. MainAt(k)'
  <2>1. \A s \in Slot : taskTable'[s] = IF s <= k THEN Creates[Main][s] ELSE NULL
    BY <1>1, <1>7
  <2> QED BY <2>1, <1>1, <1>8, <1>9 DEF MainAt
<1> QED BY <1>4, <1>10, <1>1 DEF MainInv, MainFills

LEMMA MainScans ==
  ASSUME MainFits, TableInv, MainInv, Scan(Main) \/ Malloc(Main) \/ Fill(Main) \/ RTTaskCreateImpl(Main)
  PROVE  MainInv'
<1>0. RecordType /\ MainOnly /\ Main \in Caller
  BY DEF TableInv, MainInv
<1>1. /\ ~started /\ at[Main] # "idle"
      /\ UNCHANGED <<taskTable, func, todo, overlap, ticking, started>>
      /\ \A q \in Caller \ {Main} : at'[q] = at[q]
  BY <1>0 DEF Scan, Malloc, Fill, RTTaskCreateImpl, Step, Runs, Set, RecordType
<1>2. ~ticking
  BY <1>0, <1>1 DEF MainOnly
<1>3. MainOnly'
  BY <1>0, <1>1, <1>2 DEF MainOnly, MainTask, Listed
<1>4. PICK k \in 0 .. Len(Creates[Main]) : MainAt(k)
  BY <1>1 DEF MainInv, MainFills
<1>5. /\ (k + 1) + Len(todo[Main]) = Len(Creates[Main])
      /\ \A m \in 1 .. Len(todo[Main]) : todo[Main][m] = Creates[Main][(k + 1) + m]
      /\ \A s \in Slot : taskTable[s] = IF s <= k THEN Creates[Main][s] ELSE NULL
      /\ func[Main] = Creates[Main][k + 1]
      /\ i[Main] \in 1 .. k + 1 /\ (at[Main] # "scan" => i[Main] = k + 1)
  BY <1>1, <1>4 DEF MainAt
<1>6. k \in Nat /\ k + 1 <= TASK_MAX
  BY <1>5, MainLengths, <1>0 DEF MainFits
<1>7. at'[Main] # "idle" /\ i'[Main] \in 1 .. k + 1 /\ (at'[Main] # "scan" => i'[Main] = k + 1)
  <2>1. CASE Scan(Main)
    <3>1. at[Main] = "scan" /\ i[Main] \in Slot
      BY <2>1, <1>5, <1>6 DEF Scan, Step, Slot
    <3>2. CASE taskTable[i[Main]] # NULL
      <4>1. at'[Main] = "scan" /\ i'[Main] = i[Main] + 1
        BY <2>1, <3>1, <3>2, <1>0, <1>6 DEF Scan, Step, Set, RecordType, Slot
      <4>2. i[Main] <= k
        BY <3>1, <3>2, <1>5
      <4> QED BY <4>1, <4>2, <1>5, <1>6
    <3>3. CASE taskTable[i[Main]] = NULL
      <4>1. at'[Main] = "malloc" /\ i'[Main] = i[Main]
        BY <2>1, <3>1, <3>3, <1>0, <1>6 DEF Scan, Step, Set, RecordType, Slot
      <4>2. ~(i[Main] <= k)
        <5>1. SUFFICES ASSUME i[Main] <= k PROVE FALSE
          OBVIOUS
        <5>2. i[Main] \in 1 .. Len(Creates[Main])
          BY <5>1, <3>1, <1>4, MainLengths DEF Slot
        <5>3. Creates[Main][i[Main]] \in Caller
          <6>1. Creates[Main] \in Seq(Caller \ {Main})
            OBVIOUS
          <6> QED BY <5>2, <6>1
        <5> QED BY <5>1, <5>3, <3>1, <3>3, <1>5
      <4> QED BY <4>1, <4>2, <1>5, <1>6
    <3> QED BY <3>2, <3>3
  <2>2. CASE Malloc(Main) \/ Fill(Main) \/ RTTaskCreateImpl(Main)
    <3>1. at[Main] # "scan" /\ at'[Main] \notin {"idle", "scan"} /\ i' = i
      BY <2>2, <1>0 DEF Malloc, Fill, RTTaskCreateImpl, Step, Set, RecordType
    <3> QED BY <3>1, <1>5
  <2> QED BY <2>1, <2>2
<1>8. MainAt(k)'
  <2>1. UNCHANGED <<taskTable, func, todo>>
    BY <1>1
  <2> QED BY <2>1, <1>5, <1>7 DEF MainAt
<1> QED BY <1>3, <1>4, <1>8, <1>1 DEF MainInv, MainFills

LEMMA MainPublishes ==
  ASSUME MainFits, TableInv, MainInv, Publish(Main)
  PROVE  MainInv'
<1>0. RecordType /\ MainOnly /\ Main \in Caller
  BY DEF TableInv, MainInv
<1>1. /\ ~started /\ at[Main] = "publish" /\ at'[Main] = "idle"
      /\ taskTable' = [taskTable EXCEPT ![i[Main]] = func[Main]]
      /\ UNCHANGED <<func, i, todo, overlap, ticking, started>>
      /\ \A q \in Caller \ {Main} : at'[q] = at[q]
  BY <1>0 DEF Publish, Step, Runs, Set, RecordType
<1>2. ~ticking
  BY <1>0, <1>1 DEF MainOnly
<1>3. MainOnly'
  BY <1>0, <1>1, <1>2 DEF MainOnly, MainTask
<1>4. PICK k \in 0 .. Len(Creates[Main]) : MainAt(k)
  BY <1>1 DEF MainInv, MainFills
<1>5. /\ (k + 1) + Len(todo[Main]) = Len(Creates[Main])
      /\ \A m \in 1 .. Len(todo[Main]) : todo[Main][m] = Creates[Main][(k + 1) + m]
      /\ \A s \in Slot : taskTable[s] = IF s <= k THEN Creates[Main][s] ELSE NULL
      /\ func[Main] = Creates[Main][k + 1] /\ i[Main] = k + 1
  BY <1>1, <1>4 DEF MainAt
<1>6. k + 1 \in 0 .. Len(Creates[Main])
  <2>1. Len(Creates[Main]) \in Nat /\ Len(todo[Main]) \in Nat
    BY <1>0, MainLengths
  <2>2. k \in Nat /\ (k + 1) + Len(todo[Main]) = Len(Creates[Main])
    <3>1. ASSUME NEW c \in Nat, NEW j \in 0 .. c PROVE j \in Nat
      BY <3>1
    <3>2. k \in Nat
      BY <2>1, <3>1
    <3> QED BY <3>2, <1>5
  <2>3. ASSUME NEW c \in Nat, NEW t \in Nat, (k + 1) + t = c PROVE k + 1 \in 0 .. c
    BY <2>2, <2>3
  <2> QED BY <2>1, <2>2, <2>3
<1>7. ASSUME NEW s \in Slot
      PROVE  taskTable'[s] = IF s <= k + 1 THEN Creates[Main][s] ELSE NULL
  <2>1. DOMAIN taskTable = Slot /\ s \in Nat
    BY <1>0 DEF RecordType, Slot
  <2>2. CASE s = k + 1
    BY <2>1, <2>2, <1>1, <1>5
  <2>3. CASE s # k + 1
    <3>1. taskTable'[s] = taskTable[s] /\ (s <= k + 1 <=> s <= k)
      BY <2>1, <2>3, <1>1, <1>5
    <3> QED BY <3>1, <1>5
  <2> QED BY <2>2, <2>3
<1>8. MainAt(k + 1)'
  BY <1>1, <1>5, <1>7 DEF MainAt
<1> QED BY <1>3, <1>6, <1>8, <1>1 DEF MainInv, MainFills

LEMMA StartMain ==
  ASSUME MainFits, TableInv, MainInv, Start
  PROVE  MainInv'
<1>0. RecordType /\ MainOnly
  BY DEF TableInv, MainInv
<1>1. UNCHANGED <<taskTable, at, func, i, todo, overlap>>
  BY DEF Start, RTEnableSystick, FirstSwitch
<1>2. CASE RTEnableSystick
  <2>1. ~started /\ ~started' /\ at[Main] = "idle" /\ todo[Main] = <<>>
    BY <1>2 DEF RTEnableSystick, Idle, Runs
  <2>2. MainOnly'
    BY <2>1, <1>0, <1>1 DEF MainOnly, MainTask
  <2>3. MainFills'
    BY <2>1, <1>1 DEF MainInv, MainFills, MainAt
  <2> QED BY <2>2, <2>3 DEF MainInv
<1>3. CASE FirstSwitch
  <2>1. ticking /\ ticking' /\ started' /\ ~started
    BY <1>3 DEF FirstSwitch
  <2>2. at[Main] = "idle" /\ Len(todo[Main]) = 0
    BY <2>1, <1>0 DEF MainOnly
  <2>3. PICK k \in 0 .. Len(Creates[Main]) : MainAt(k)
    BY <2>1 DEF MainInv, MainFills
  <2>4. \A s \in Slot : taskTable[s] = IF s <= Len(Creates[Main]) THEN Creates[Main][s] ELSE NULL
    <3>1. k + 0 = Len(Creates[Main])
      BY <2>2, <2>3 DEF MainAt
    <3>2. k = Len(Creates[Main])
      BY <3>1, MainLengths
    <3> QED BY <2>3, <3>2 DEF MainAt
  <2>5. MainTask \subseteq Listed
    <3> SUFFICES ASSUME NEW n \in 1 .. Len(Creates[Main]) PROVE Creates[Main][n] \in Listed
      BY DEF MainTask
    <3>1. n \in Slot /\ n <= Len(Creates[Main])
      BY MainLengths DEF MainFits, Slot
    <3>2. taskTable[n] = Creates[Main][n]
      BY <3>1, <2>4
    <3>3. Creates[Main][n] # NULL
      <4>1. Creates[Main] \in Seq(Caller \ {Main})
        OBVIOUS
      <4> QED BY <4>1
    <3> QED BY <3>1, <3>2, <3>3 DEF Listed
  <2>6. MainOnly'
    BY <2>1, <2>5, <1>0, <1>1 DEF MainOnly, MainTask, Listed
  <2> QED BY <2>1, <2>6 DEF MainInv, MainFills
<1> QED BY <1>2, <1>3 DEF Start

LEMMA StepMain ==
  ASSUME MainFits, TableInv, KeptInv, MainInv, [BoardNext]_board
  PROVE  MainInv'
<1>1. CASE Boot
  BY <1>1, MainUnchanged DEF Boot, table, records
<1>2. CASE UNCHANGED board
  BY <1>2, MainUnchanged DEF board, table, records
<1>3. CASE Start
  BY <1>3, StartMain
<1>4. ASSUME NEW p \in Caller,
             RTTaskCreate(p) \/ Scan(p) \/ Malloc(p) \/ Fill(p) \/ RTTaskCreateImpl(p) \/ Publish(p)
      PROVE  MainInv'
  <2>1. CASE p = Main
    BY <1>4, <2>1, MainCreates, MainScans, MainPublishes
  <2>2. CASE p # Main
    BY <1>4, <2>2, OthersMain
  <2> QED BY <2>1, <2>2
<1>5. ASSUME NEW p \in Caller, NewCall(p) PROVE MainInv'
  <2>1. CASE OwnMalloc(p)
    BY <2>1, MainUnchanged DEF OwnMalloc, records
  <2>2. CASE UNCHANGED <<vars, table>>
    BY <2>2, MainUnchanged DEF table, records
  <2> QED BY <1>5, <2>1, <2>2, <1>4 DEF NewCall, TaskCall
<1>6. ASSUME NEW p \in Caller, TableStep(p) PROVE MainInv'
  <2>1. CASE MallocStep(p)
    BY <2>1, MainUnchanged DEF MallocStep, records
  <2> QED BY <1>6, <2>1, <1>4 DEF TableStep, CreateStep
<1>7. ASSUME NEW p \in Caller, PinStep(p) PROVE MainInv'
  BY <1>7, MainUnchanged DEF PinStep, table, records
<1> QED BY <1>1, <1>2, <1>3, <1>5, <1>6, <1>7 DEF BoardNext

\* TasksListed: a task whose creation went through is in the table unless its
\* creation met another's, and what main was to create, the idle task with
\* it, is there from the first switch on, whoever creates tasks afterwards.
\* The table has room for what main creates.
THEOREM CreatedTasksListed == ASSUME MainFits PROVE BoardSpec => []TasksListed
<1>1. BoardInit => TableInv /\ KeptInv /\ MainInv
  BY InitTable, InitKept, InitMain
<1>2. TableInv /\ KeptInv /\ MainInv /\ [BoardNext]_board => TableInv' /\ KeptInv' /\ MainInv'
  <2> SUFFICES ASSUME TableInv, KeptInv, MainInv, [BoardNext]_board
               PROVE  TableInv' /\ KeptInv' /\ MainInv'
    OBVIOUS
  <2>1. TableInv'
    BY BoardStep
  <2>2. KeptInv'
    BY <2>1, StepKept
  <2> QED BY <2>1, <2>2, StepMain
<1>3. KeptInv /\ MainInv => TasksListed
  <2> SUFFICES ASSUME KeptInv, MainInv PROVE TasksListed
    OBVIOUS
  <2>1. Created \subseteq Listed \cup overlap
    BY DEF KeptInv, Kept, Created, Creating
  <2>2. started => \A n \in 1 .. Len(Creates[Main]) : Creates[Main][n] \in Listed
    BY DEF MainInv, MainOnly, MainTask
  <2> QED BY <2>1, <2>2 DEF TasksListed
<1> QED BY <1>1, <1>2, <1>3, PTL DEF BoardSpec

-----------------------------------------------------------------------------
(* The pins and the LEDs.                                                  *)

LEDTags == {LEDPins[n] : n \in 1 .. Len(LEDPins)}

\* What each task may be setting up: its own pins, and main, first, the LEDs.
MyTags(u) == OwnTags(u) \cup (IF u = Main /\ mainPC = "lit" THEN LEDTags ELSE {})
MyPins(u) == {t.pin : t \in MyTags(u)}

Level(n) == (odr[LEDPin(n)] = 1) = (lit[n] # ActiveLow(n))

RegChange == [reg : {"BSRR", "TOGGLE", "MODER"}, pin : Pin, val : 0 .. 3]

\* What is left of a DIOInit that puts pin into mode m.
InitSeq(s, pin, m) ==
  /\ s # <<>>
  /\ \A n \in 1 .. Len(s) :
       /\ s[n].pin = pin /\ s[n].reg \in {"BSRR", "MODER"}
       /\ n = Len(s) => s[n].reg = "MODER" /\ s[n].val = m

Initing(u, pin) == InitSeq(writes[u], pin, mode[pin])

\* A toggle writes the opposite of the level, which nobody changed since.
Toggling(u, n) == writes[u] = <<Change("TOGGLE", LEDPin(n), 1 - odr[LEDPin(n)])>>

HasRead(u) == Reading(u) /\ seen[u] # <<>>

QueueOK(u) ==
  /\ \A n \in 1 .. Len(pins[u]) : pins[u][n] \in MyTags(u)
  /\ \/ writes[u] = <<>>
     \/ mainPC = "tasks" /\ \E n \in Uses[u] \cap LED : Toggling(u, n)
     \/ \E pin \in MyPins(u) : Initing(u, pin)
  /\ \A n \in 1 .. Len(writes[u]) : writes[u][n].reg # "MODER" => writes[u][n].val \in {0, 1}
  /\ seen[u] # <<>> => writes[u] # <<>> /\ First(u).reg # "BSRR"

Early ==
  /\ mainPC # "tasks" => ~started /\ ~ticking
  /\ mainPC \in {"heap", "leds", "lit"} => \A n \in LED : ~lit[n]
  /\ mainPC \in {"heap", "leds", "lit", "lit2", "usb", "tasks"} /\ toInit \subseteq Caller

\* An LED has its level before it is driven, and keeps it.
LevelOK(n) ==
  /\ moder[LEDPin(n)] = OUTPUT => Level(n)
  /\ \A u \in User : HasRead(u) /\ seen[u][LEDPin(n)] = OUTPUT => Level(n)
  /\ \A u \in User : \A m \in 1 .. Len(writes[u]) : writes[u][m].pin = LEDPin(n) =>
       /\ writes[u][m].reg = "BSRR" => writes[u][m].val = LEDPins[n + 1].initial
       /\ writes[u][m].reg = "MODER" => writes[u][m].val = OUTPUT /\ (m = 1 => Level(n))

\* Of two that are between reading and writing MODER both pins have raced;
\* of the others' fields what was read is still there.
Races ==
  /\ \A u, v \in User : u # v /\ HasRead(u) /\ HasRead(v) => First(u).pin \in raced
  /\ \A u \in User : HasRead(u) => \A p \in Pin \ raced : seen[u][p] = moder[p]

Modes ==
  \A p \in Pin \ raced : moder[p] = mode[p] \/ \E u \in User : p \in MyPins(u) /\ Initing(u, p)

PinInv ==
  /\ DIOTypeOK /\ Early /\ Races /\ Modes
  /\ \A u \in User : QueueOK(u)
  /\ \A n \in LED : LevelOK(n)

LEMMA TailIs ==
  ASSUME NEW S, NEW s \in Seq(S), s # <<>>
  PROVE  /\ Tail(s) \in Seq(S) /\ Len(s) \in Nat \ {0} /\ Len(Tail(s)) = Len(s) - 1
         /\ Head(s) = s[1] /\ 1 \in 1 .. Len(s) /\ Len(s) \in 1 .. Len(s) /\ s[1] \in S
         /\ \A n \in 1 .. Len(Tail(s)) : n + 1 \in 1 .. Len(s) /\ Tail(s)[n] = s[n + 1]
         /\ Len(s) = 1 => Tail(s) = <<>>
<1>1. Tail(s) \in Seq(S) /\ Len(Tail(s)) = Len(s) - 1
  BY HeadTailProperties
<1>2. Len(s) \in Nat \ {0} /\ Head(s) = s[1] /\ s[1] \in S
  <2>1. Len(s) \in Nat \ {0}
    BY EmptySeq
  <2>2. Head(s) \in S /\ Head(s) = s[1]
    BY HeadTailProperties
  <2> QED BY <2>1, <2>2
<1>3. 1 \in 1 .. Len(s) /\ Len(s) \in 1 .. Len(s)
  BY <1>2
<1>4. ASSUME NEW n \in 1 .. Len(Tail(s))
      PROVE  n + 1 \in 1 .. Len(s) /\ Tail(s)[n] = s[n + 1]
  <2>1. n \in 1 .. (Len(s) - 1)
    BY <1>1
  <2>2. Tail(s)[n] = s[n + 1]
    BY <2>1
  <2> QED BY <1>2, <2>1, <2>2
<1>5. Len(s) = 1 => Tail(s) = <<>>
  <2>1. \A t \in Seq(S) : t # <<>> => Len(t) # 0
    BY EmptySeq
  <2>2. Len(s) = 1 => Len(Tail(s)) = 0
    BY <1>1
  <2> QED BY <1>1, <2>1, <2>2, Zenon
<1> QED BY <1>1, <1>2, <1>3, <1>4, <1>5

LEMMA LEDsApart ==
  /\ \A n \in LED : /\ n + 1 \in 1 .. Len(LEDPins) /\ LEDPins[n + 1] \in InitTag
                    /\ LEDPin(n) \in Pin /\ LEDPins[n + 1].initial \in {0, 1}
                    /\ LEDPins[n + 1].func = "output"
  /\ \A m, n \in LED : m # n => LEDPin(m) # LEDPin(n)
  /\ \A t \in LEDTags : \E n \in LED : t = LEDPins[n + 1]
<1>1. /\ LEDPins \in Seq(InitTag) /\ Len(LEDPins) \in Nat
      /\ \A n \in 1 .. Len(LEDPins) : LEDPins[n] \in InitTag
  BY LEDAssumption
<1>2. \A n \in LED : n + 1 \in 1 .. Len(LEDPins)
  BY <1>1 DEF LED
<1>3. \A n \in LED : /\ LEDPin(n) \in Pin /\ LEDPins[n + 1].initial \in {0, 1}
                     /\ LEDPins[n + 1].func = "output"
  BY <1>1, <1>2, LEDAssumption DEF LEDPin, InitTag
<1>4. \A m, n \in LED : m < n => LEDPin(m) # LEDPin(n)
  <2> SUFFICES ASSUME NEW m \in LED, NEW n \in LED, m < n PROVE LEDPin(m) # LEDPin(n)
    OBVIOUS
  <2>1. m + 1 \in 1 .. (n + 1) - 1
    BY <1>1 DEF LED
  <2> QED BY <2>1, <1>2, LEDAssumption DEF LEDPin
<1>5. \A m, n \in LED : m # n => m < n \/ n < m
  BY <1>1 DEF LED
<1>6. ASSUME NEW t \in LEDTags PROVE \E n \in LED : t = LEDPins[n + 1]
  <2>1. PICK n \in 1 .. Len(LEDPins) : t = LEDPins[n]
    BY DEF LEDTags
  <2>2. n - 1 \in LED /\ (n - 1) + 1 = n
    BY <1>1 DEF LED
  <2> QED BY <2>1, <2>2
<1> QED BY <1>1, <1>2, <1>3, <1>4, <1>5, <1>6

\* Nobody sets up another's pin.
LEMMA PinsApart ==
  /\ Main \in User /\ User = Caller
  /\ \A u \in User : \A t \in MyTags(u) : t \in InitTag /\ t.pin \in MyPins(u)
  /\ \A u \in User : MyPins(u) \subseteq Pin
  /\ \A u, v \in User : u # v => MyPins(u) \cap MyPins(v) = {}
  /\ \A u \in User : \A n \in LED : LEDPin(n) \in MyPins(u) => u = Main /\ mainPC = "lit"
  /\ \A t \in MyTags(Main) : mainPC = "lit" /\ t.pin \notin OwnPins(Main) => t \in LEDTags
<1>1. Main \in User /\ User = Caller
  BY BoardAssumption
<1>2. \A u \in User : OwnTags(u) \subseteq InitTag
  <2>1. /\ \A n \in 1 .. Len(USBPins) : USBPins[n] \in InitTag
        /\ \A u \in User : \A n \in 1 .. Len(TaskPins[u]) : TaskPins[u][n] \in InitTag
    BY BoardAssumption
  <2> QED BY <2>1 DEF OwnTags
<1>3. \A u \in User : MyTags(u) \subseteq InitTag
  BY <1>2, LEDsApart DEF MyTags
<1>4. \A t \in LEDTags : \E n \in LED : t.pin = LEDPin(n)
  BY LEDsApart DEF LEDPin
<1>5. ASSUME NEW u \in User, NEW pin \in MyPins(u)
      PROVE  pin \in OwnPins(u) \/ (u = Main /\ mainPC = "lit" /\ \E n \in LED : pin = LEDPin(n))
  <2>1. PICK t \in MyTags(u) : pin = t.pin
    BY DEF MyPins
  <2>2. CASE t \in OwnTags(u)
    BY <2>1, <2>2 DEF OwnPins
  <2>3. CASE t \in LEDTags /\ u = Main /\ mainPC = "lit"
    BY <2>1, <2>3, <1>4
  <2> QED BY <2>2, <2>3 DEF MyTags
<1>6. \A u \in User : \A t \in MyTags(u) : t.pin \in MyPins(u)
  BY DEF MyPins
<1>7. \A u \in User : MyPins(u) \subseteq Pin
  <2>1. \A t \in InitTag : t.pin \in Pin
    BY DEF InitTag
  <2> QED BY <2>1, <1>3 DEF MyPins
<1>8. \A u, v \in User : u # v => MyPins(u) \cap MyPins(v) = {}
  <2> SUFFICES ASSUME NEW u \in User, NEW v \in User, u # v, NEW pin \in MyPins(u), pin \in MyPins(v)
               PROVE  FALSE
    OBVIOUS
  <2>1. OwnPins(u) \cap OwnPins(v) = {}
    BY <1>1, WiringAssumption
  <2>2. \A n \in LED : LEDPin(n) \notin OwnPins(u) /\ LEDPin(n) \notin OwnPins(v)
    BY <1>1, WiringAssumption
  <2> QED BY <2>1, <2>2, <1>5
<1>9. \A u \in User : \A n \in LED : LEDPin(n) \in MyPins(u) => u = Main /\ mainPC = "lit"
  BY <1>1, <1>5, WiringAssumption
<1>10. \A t \in MyTags(Main) : mainPC = "lit" /\ t.pin \notin OwnPins(Main) => t \in LEDTags
  BY DEF MyTags, OwnPins
<1> QED BY <1>1, <1>3, <1>6, <1>7, <1>8, <1>9, <1>10

LEMMA NotEmpty == ASSUME NEW S, NEW s \in Seq(S), Len(s) # 0 PROVE s # <<>>
OBVIOUS

LEMMA ChangesAre ==
  ASSUME NEW t \in InitTag
  PROVE  /\ Changes(t) \in Seq(RegChange) /\ InitSeq(Changes(t), t.pin, Mode(t.func))
         /\ Mode(t.func) \in 0 .. 3 /\ t.pin \in Pin
         /\ \A n \in 1 .. Len(Changes(t)) :
              Changes(t)[n].reg # "MODER" => Changes(t)[n].val \in {0, 1}
         /\ t.func = "output" =>
              /\ Changes(t)[1].reg = "BSRR"
              /\ \A n \in 1 .. Len(Changes(t)) :
                   /\ Changes(t)[n].reg = "BSRR" => Changes(t)[n].val = t.initial
                   /\ Changes(t)[n].reg = "MODER" => Changes(t)[n].val = OUTPUT /\ n # 1
<1> DEFINE c(reg, val) == [reg |-> reg, pin |-> t.pin, val |-> val]
<1>0. /\ t.pin \in Pin /\ t.initial \in {0, 1} /\ t.func \in PinFunc
      /\ \A reg \in {"BSRR", "TOGGLE", "MODER"}, val \in 0 .. 3 : c(reg, val) \in RegChange
  BY DEF InitTag, RegChange
<1>1. CASE t.func = "input"
  <2>1. Changes(t) = <<c("MODER", 0)>> /\ Mode(t.func) = 0
    BY <1>1 DEF Changes, DIOSetInput, Change, Mode, INPUT
  <2> QED BY <2>1, <1>0, <1>1 DEF InitSeq
<1>2. CASE t.func = "analog"
  <2>1. Changes(t) = <<c("MODER", 3)>> /\ Mode(t.func) = 3
    BY <1>2 DEF Changes, DIOSetAnalog, Change, Mode, ANALOG
  <2> QED BY <2>1, <1>0, <1>2 DEF InitSeq
<1>3. CASE t.func = "output"
  <2>1. Changes(t) = <<c("BSRR", t.initial), c("MODER", 1)>> /\ Mode(t.func) = 1
    <3>1. Changes(t) = DIOSetOutput(t.pin, t.initial) /\ Mode(t.func) = OUTPUT
      BY <1>3 DEF Changes, Mode
    <3> QED BY <3>1 DEF DIOSetOutput, Change, OUTPUT
  <2>2. Len(<<c("BSRR", t.initial), c("MODER", 1)>>) = 2 /\ 1 .. 2 = {1, 2}
    OBVIOUS
  <2>3. Changes(t) \in Seq(RegChange)
    BY <2>1, <1>0
  <2> QED BY <2>1, <2>2, <2>3, <1>0, <1>3 DEF InitSeq, OUTPUT
<1>4. CASE t.func = "altfunc_in"
  <2>1. Changes(t) = <<c("MODER", 0)>> \o <<c("MODER", 2)>>
    <3>1. Changes(t) = DIOSetAltfuncInput(t.pin)
      BY <1>4 DEF Changes
    <3> QED BY <3>1 DEF DIOSetInput, DIOSetAltfuncInput, Change, INPUT, ALTFUNC
  <2>2. Mode(t.func) = 2
    BY <1>4 DEF Mode, ALTFUNC
  <2>3. /\ Changes(t) \in Seq(RegChange) /\ Len(Changes(t)) = 2
        /\ Changes(t)[1] = c("MODER", 0) /\ Changes(t)[2] = c("MODER", 2)
    <3>1. ASSUME NEW d \in RegChange, NEW e \in RegChange, NEW s, s = <<d>> \o <<e>>
          PROVE  s \in Seq(RegChange) /\ Len(s) = 2 /\ s[1] = d /\ s[2] = e
      BY <3>1
    <3>2. c("MODER", 0) \in RegChange /\ c("MODER", 2) \in RegChange
      BY <1>0
    <3> HIDE DEF c
    <3> QED BY <2>1, <3>1, <3>2
  <2>4. \A n \in 1 .. Len(Changes(t)) :
          /\ Changes(t)[n] \in {c("MODER", 0), c("MODER", 2)}
          /\ n = Len(Changes(t)) => Changes(t)[n] = c("MODER", 2)
    <3>1. \A n \in 1 .. 2 : n = 1 \/ n = 2
      OBVIOUS
    <3> HIDE DEF c
    <3> QED BY <2>3, <3>1
  <2>5. Changes(t) # <<>>
    <3>1. Changes(t) \in Seq(RegChange) /\ Len(Changes(t)) # 0
      BY <2>3
    <3> QED BY <3>1, NotEmpty, Zenon
  <2> QED BY <2>2, <2>3, <2>4, <2>5, <1>0, <1>4 DEF InitSeq
<1>5. CASE t.func = "altfunc_out"
  <2>1. Changes(t) = <<c("BSRR", 0), c("MODER", 1)>> \o <<c("MODER", 2)>>
    <3>1. Changes(t) = DIOSetAltfuncOutput(t.pin)
      BY <1>5 DEF Changes
    <3> QED BY <3>1 DEF DIOSetOutput, DIOSetAltfuncOutput, Change, OUTPUT, ALTFUNC
  <2>2. Mode(t.func) = 2
    BY <1>5 DEF Mode, ALTFUNC
  <2>3. /\ Changes(t) \in Seq(RegChange) /\ Len(Changes(t)) = 3
        /\ Changes(t)[1] = c("BSRR", 0) /\ Changes(t)[2] = c("MODER", 1)
        /\ Changes(t)[3] = c("MODER", 2)
    <3>1. ASSUME NEW b \in RegChange, NEW d \in RegChange, NEW e \in RegChange,
                 NEW s, s = <<b, d>> \o <<e>>
          PROVE  s \in Seq(RegChange) /\ Len(s) = 3 /\ s[1] = b /\ s[2] = d /\ s[3] = e
      BY <3>1
    <3>2. /\ c("BSRR", 0) \in RegChange /\ c("MODER", 1) \in RegChange
          /\ c("MODER", 2) \in RegChange
      BY <1>0
    <3> HIDE DEF c
    <3> QED BY <2>1, <3>1, <3>2
  <2>4. \A n \in 1 .. Len(Changes(t)) :
          /\ Changes(t)[n] \in {c("BSRR", 0), c("MODER", 1), c("MODER", 2)}
          /\ n = Len(Changes(t)) => Changes(t)[n] = c("MODER", 2)
    <3>1. \A n \in 1 .. 3 : n = 1 \/ n = 2 \/ n = 3
      OBVIOUS
    <3> HIDE DEF c
    <3> QED BY <2>3, <3>1
  <2>5. Changes(t) # <<>>
    <3>1. Changes(t) \in Seq(RegChange) /\ Len(Changes(t)) # 0
      BY <2>3
    <3> QED BY <3>1, NotEmpty, Zenon
  <2> QED BY <2>2, <2>3, <2>4, <2>5, <1>0, <1>5 DEF InitSeq
<1> QED BY <1>0, <1>1, <1>2, <1>3, <1>4, <1>5 DEF PinFunc

LEMMA InitSeqTail ==
  ASSUME NEW s \in Seq(RegChange), NEW pin, NEW m, InitSeq(s, pin, m)
  PROVE  \/ Tail(s) = <<>> /\ s[1].reg = "MODER" /\ s[1].val = m
         \/ InitSeq(Tail(s), pin, m)
<1>1. /\ Len(s) \in Nat \ {0} /\ Len(Tail(s)) = Len(s) - 1
      /\ \A n \in 1 .. Len(Tail(s)) : n + 1 \in 1 .. Len(s) /\ Tail(s)[n] = s[n + 1]
      /\ Len(s) = 1 => Tail(s) = <<>>
  BY TailIs DEF InitSeq
<1>2. CASE Len(s) = 1
  BY <1>1, <1>2 DEF InitSeq
<1>3. CASE Len(s) # 1
  <2>1. Len(Tail(s)) \in 1 .. Len(Tail(s)) /\ Len(Tail(s)) + 1 = Len(s) /\ Tail(s) # <<>>
    <3>1. ASSUME NEW l \in Nat \ {0}, NEW k, l # 1, k = l - 1 PROVE k \in 1 .. k /\ k + 1 = l /\ k # 0
      BY <3>1
    <3>2. Len(Tail(s)) \in 1 .. Len(Tail(s)) /\ Len(Tail(s)) + 1 = Len(s) /\ Len(Tail(s)) # 0
      BY <1>1, <1>3, <3>1
    <3>3. Len(<<>>) = 0
      OBVIOUS
    <3> QED BY <3>2, <3>3
  <2>2. \A n \in 1 .. Len(Tail(s)) : n = Len(Tail(s)) => n + 1 = Len(s)
    BY <2>1
  <2> QED BY <1>1, <2>1, <2>2 DEF InitSeq
<1> QED BY <1>2, <1>3

LEMMA PinTypes ==
  ASSUME DIOTypeOK, NEW u \in User
  PROVE  /\ pins[u] \in Seq(InitTag) /\ writes[u] \in Seq(RegChange)
         /\ seen[u] \in [Pin -> 0 .. 3] \cup {<<>>}
         /\ moder \in [Pin -> 0 .. 3] /\ mode \in [Pin -> 0 .. 3] /\ odr \in [Pin -> {0, 1}]
         /\ DOMAIN pins = User /\ DOMAIN writes = User /\ DOMAIN seen = User
BY DEF DIOTypeOK, RegChange, INPUT, ANALOG

LEMMA TypesBack ==
  ASSUME odr \in [Pin -> {0, 1}], moder \in [Pin -> 0 .. 3],
         pins \in [User -> Seq(InitTag)], writes \in [User -> Seq(RegChange)],
         seen \in [User -> [Pin -> 0 .. 3] \cup {<<>>}],
         rtLedCount \in {0, Len(LEDPins)}, lit \in [LED -> BOOLEAN],
         mode \in [Pin -> 0 .. 3], raced \subseteq Pin
  PROVE  DIOTypeOK
BY DEF DIOTypeOK, RegChange, INPUT, ANALOG

\* What a user has under way is not disturbed by another's step.
LEMMA OtherUser ==
  ASSUME NEW v \in User, QueueOK(v),
         pins'[v] = pins[v], writes'[v] = writes[v], seen'[v] = seen[v],
         MyTags(v)' = MyTags(v) \/ Quiescent(v),
         mainPC = "tasks" => mainPC' = "tasks",
         \A n \in Uses[v] \cap LED :
           mainPC = "tasks" /\ Toggling(v, n) => odr'[LEDPin(n)] = odr[LEDPin(n)],
         \A pin \in MyPins(v) : mode'[pin] = mode[pin]
  PROVE  QueueOK(v)'
<1>1. CASE Quiescent(v)
  BY <1>1 DEF Quiescent, QueueOK, First
<1>2. CASE MyTags(v)' = MyTags(v)
  <2>1. MyPins(v)' = MyPins(v)
    BY <1>2 DEF MyPins
  <2>2. \A n \in 1 .. Len(pins'[v]) : pins'[v][n] \in MyTags(v)'
    BY <1>2 DEF QueueOK
  <2>3. \/ writes'[v] = <<>>
        \/ mainPC' = "tasks" /\ \E n \in Uses[v] \cap LED : Toggling(v, n)'
        \/ \E pin \in MyPins(v)' : Initing(v, pin)'
    <3>1. CASE writes[v] = <<>>
      BY <3>1
    <3>2. CASE mainPC = "tasks" /\ \E n \in Uses[v] \cap LED : Toggling(v, n)
      BY <3>2 DEF Toggling
    <3>3. CASE \E pin \in MyPins(v) : Initing(v, pin)
      BY <3>3, <2>1 DEF Initing
    <3> QED BY <3>1, <3>2, <3>3 DEF QueueOK
  <2>4. \A n \in 1 .. Len(writes'[v]) : writes'[v][n].reg # "MODER" => writes'[v][n].val \in {0, 1}
    BY DEF QueueOK
  <2>5. seen'[v] # <<>> => writes'[v] # <<>> /\ First(v)'.reg # "BSRR"
    BY DEF QueueOK, First
  <2> QED BY <2>2, <2>3, <2>4, <2>5 DEF QueueOK
<1> QED BY <1>1, <1>2

LEMMA SameTags ==
  ASSUME NEW v \in User, mainPC' = mainPC \/ v # Main \/ (mainPC # "lit" /\ mainPC' # "lit")
  PROVE  MyTags(v)' = MyTags(v) /\ MyPins(v)' = MyPins(v)
<1>1. MyTags(v)' = MyTags(v)
  BY DEF MyTags
<1> QED BY <1>1 DEF MyPins

LEMMA InitPinInv == BoardInit => PinInv
<1> SUFFICES ASSUME BoardInit PROVE PinInv
  OBVIOUS
<1>1. /\ odr = [p \in Pin |-> 0] /\ moder = [p \in Pin |-> 0]
      /\ pins = [u \in User |-> <<>>] /\ writes = [u \in User |-> <<>>] /\ seen = [u \in User |-> <<>>]
      /\ rtLedCount = 0 /\ lit = [n \in LED |-> FALSE]
      /\ mode = [p \in Pin |-> 0] /\ raced = {}
      /\ mainPC = "heap" /\ toInit \subseteq Caller /\ ~started /\ ~ticking
  BY DEF BoardInit, DIOStart, TableInit, INPUT
<1>2. \A n \in LED : LEDPin(n) \in Pin
  BY LEDsApart
<1>3. DIOTypeOK
  <2>1. <<>> \in Seq(InitTag) /\ <<>> \in Seq(RegChange)
    OBVIOUS
  <2> QED BY <1>1, <2>1, TypesBack
<1>4. Early
  BY <1>1 DEF Early
<1>5. Races /\ Modes
  BY <1>1 DEF Races, Modes, HasRead, Reading
<1>6. \A u \in User : QueueOK(u)
  BY <1>1 DEF QueueOK
<1>7. \A n \in LED : LevelOK(n)
  BY <1>1, <1>2 DEF LevelOK, HasRead, Reading, OUTPUT
<1> QED BY <1>3, <1>4, <1>5, <1>6, <1>7 DEF PinInv

LEMMA DioUnchanged ==
  ASSUME PinInv, UNCHANGED dio, Early',
         mainPC' = mainPC \/ (mainPC = "heap" /\ mainPC' = "leds")
  PROVE  PinInv'
<1>1. UNCHANGED <<odr, moder, pins, writes, seen, rtLedCount, lit, mode, raced>>
  BY DEF dio
<1>2. \A v \in User : MyTags(v)' = MyTags(v) /\ MyPins(v)' = MyPins(v)
  BY SameTags
<1>3. DIOTypeOK'
  BY <1>1, PinTypes DEF PinInv, DIOTypeOK
<1>4. \A u \in User : HasRead(u)' <=> HasRead(u)
  BY <1>1 DEF HasRead, Reading, First
<1>5. Races'
  BY <1>1, <1>4 DEF PinInv, Races, First
<1>6. Modes'
  BY <1>1, <1>2 DEF PinInv, Modes, Initing
<1>7. \A v \in User : QueueOK(v)'
  BY <1>1, <1>2, OtherUser DEF PinInv
<1>8. \A n \in LED : LevelOK(n)'
  BY <1>1, <1>4 DEF PinInv, LevelOK, Level
<1> QED BY <1>3, <1>5, <1>6, <1>7, <1>8 DEF PinInv

\* The loops that call DIOInit start.
LEMMA InitPinsInv ==
  ASSUME PinInv, NEW u \in User, NEW tags \in Seq(InitTag), InitPins(u, tags), Early',
         rtLedCount' \in {0, Len(LEDPins)},
         \A v \in User \ {u} : MyTags(v)' = MyTags(v) /\ MyPins(v)' = MyPins(v),
         mainPC = "tasks" => mainPC' = "tasks",
         \A n \in 1 .. Len(tags) : tags[n] \in MyTags(u)'
  PROVE  PinInv'
<1>0. DIOTypeOK /\ \A v \in User : QueueOK(v)
  BY DEF PinInv
<1>1. /\ pins[u] = <<>> /\ writes[u] = <<>>
      /\ pins' = [pins EXCEPT ![u] = tags]
      /\ UNCHANGED <<odr, moder, writes, seen, lit, mode, raced>>
  BY DEF InitPins, Quiescent
<1>2. pins'[u] = tags /\ \A v \in User \ {u} : pins'[v] = pins[v]
  BY <1>0, <1>1, PinTypes
<1>3. DIOTypeOK'
  BY <1>0, <1>1 DEF DIOTypeOK
<1>4. \A v \in User : HasRead(v)' <=> HasRead(v)
  BY <1>1 DEF HasRead, Reading, First
<1>5. Races'
  BY <1>1, <1>4 DEF PinInv, Races, First
<1>6. Modes'
  <2> SUFFICES ASSUME NEW p \in Pin \ raced, moder[p] # mode[p]
               PROVE  \E v \in User : p \in MyPins(v)' /\ Initing(v, p)'
    BY <1>1 DEF Modes
  <2>1. PICK v \in User : p \in MyPins(v) /\ Initing(v, p)
    BY DEF PinInv, Modes
  <2>2. v # u
    BY <2>1, <1>1 DEF Initing, InitSeq
  <2> QED BY <2>1, <2>2, <1>1 DEF Initing
<1>7. \A v \in User : QueueOK(v)'
  <2>1. QueueOK(u)'
    BY <1>0, <1>1, <1>2 DEF QueueOK
  <2>2. ASSUME NEW v \in User \ {u} PROVE QueueOK(v)'
    BY <2>2, <1>0, <1>1, <1>2, OtherUser
  <2> QED BY <2>1, <2>2
<1>8. \A n \in LED : LevelOK(n)'
  BY <1>1, <1>4 DEF PinInv, LevelOK, Level
<1> QED BY <1>3, <1>5, <1>6, <1>7, <1>8 DEF PinInv

LEMMA LEDSetInv ==
  ASSUME PinInv, Early', NEW u \in User, NEW n \in Nat, NEW on \in BOOLEAN, RTLEDSet(u, n, on),
         \/ mainPC = "tasks" /\ mainPC' = "tasks" /\ n \in Uses[u]
         \/ mainPC # "tasks" /\ u = Main
  PROVE  PinInv'
<1>0. /\ DIOTypeOK /\ Modes /\ Races
      /\ \A v \in User : QueueOK(v)
      /\ \A m \in LED : LevelOK(m)
  BY DEF PinInv
<1>1. /\ pins[u] = <<>> /\ writes[u] = <<>>
      /\ UNCHANGED <<moder, pins, writes, seen, rtLedCount, mode, raced>>
  BY DEF RTLEDSet, Quiescent
<1>2. \/ /\ n \in LED
         /\ odr' = [odr EXCEPT ![LEDPin(n)] = IF on # ActiveLow(n) THEN 1 ELSE 0]
         /\ lit' = [lit EXCEPT ![n] = on]
      \/ UNCHANGED <<odr, lit>>
  <2>1. CASE n \in 0 .. rtLedCount - 1
    <3>1. n \in LED
      BY <2>1, <1>0 DEF DIOTypeOK, LED
    <3> QED BY <2>1, <3>1 DEF RTLEDSet
  <2>2. CASE n \notin 0 .. rtLedCount - 1
    BY <2>2 DEF RTLEDSet
  <2> QED BY <2>1, <2>2
<1>3. odr \in [Pin -> {0, 1}] /\ lit \in [LED -> BOOLEAN]
  BY <1>0 DEF DIOTypeOK
<1>4. DIOTypeOK'
  BY <1>0, <1>1, <1>2 DEF DIOTypeOK
<1>5. \A v \in User : HasRead(v)' <=> HasRead(v)
  BY <1>1 DEF HasRead, Reading, First
<1>6. Races'
  BY <1>0, <1>1, <1>5 DEF Races, First
<1>7. \A v \in User : MyPins(v)' = MyPins(v) \/ writes[v] = <<>>
  BY <1>1, SameTags
<1>8. Modes'
  <2> SUFFICES ASSUME NEW p \in Pin \ raced, moder[p] # mode[p]
               PROVE  \E v \in User : p \in MyPins(v)' /\ Initing(v, p)'
    BY <1>1 DEF Modes
  <2>1. PICK v \in User : p \in MyPins(v) /\ Initing(v, p)
    BY <1>0 DEF Modes
  <2>2. writes[v] # <<>>
    BY <2>1 DEF Initing, InitSeq
  <2> QED BY <2>1, <2>2, <1>1, <1>7 DEF Initing
<1>9. \A v \in User : QueueOK(v)'
  <2> SUFFICES ASSUME NEW v \in User PROVE QueueOK(v)'
    OBVIOUS
  <2>1. MyTags(v)' = MyTags(v) \/ Quiescent(v)
    BY <1>1, SameTags DEF Quiescent
  <2>2. ASSUME NEW m \in Uses[v] \cap LED, mainPC = "tasks", Toggling(v, m)
        PROVE  odr'[LEDPin(m)] = odr[LEDPin(m)]
    <3>1. writes[v] # <<>>
      BY <2>2 DEF Toggling
    <3>2. m # n
      <4>1. u \in Caller /\ v \in Caller /\ u # v /\ n \in Uses[u]
        BY <2>2, <3>1, <1>1, BoardAssumption
      <4>2. Uses[v] \cap Uses[u] = {}
        BY <4>1, WiringAssumption
      <4> QED BY <4>1, <4>2
    <3> QED BY <3>2, <1>2, <1>3, LEDsApart
  <2> QED BY <2>1, <2>2, <1>0, <1>1, OtherUser
<1>10. \A m \in LED : Level(m) => Level(m)'
  <2> SUFFICES ASSUME NEW m \in LED, Level(m) PROVE Level(m)'
    OBVIOUS
  <2>1. CASE m = n
    BY <2>1, <1>2, <1>3, LEDsApart DEF Level, ActiveLow
  <2>2. CASE m # n
    BY <2>2, <1>2, <1>3, LEDsApart DEF Level, ActiveLow
  <2> QED BY <2>1, <2>2
<1>11. \A m \in LED : LevelOK(m)'
  <2> SUFFICES ASSUME NEW m \in LED PROVE LevelOK(m)'
    OBVIOUS
  <2>1. LevelOK(m) /\ (Level(m) => Level(m)')
    BY <1>0, <1>10
  <2> HIDE DEF Level, LEDPin, OUTPUT
  <2> QED BY <2>1, <1>1, <1>5 DEF LevelOK
<1> QED BY <1>4, <1>6, <1>8, <1>9, <1>11 DEF PinInv

LEMMA ToggleInv ==
  ASSUME PinInv, Early', NEW u \in User, NEW n \in Uses[u], RTLEDToggle(u, n),
         n \in Nat, mainPC = "tasks", mainPC' = "tasks"
  PROVE  PinInv'
<1>0. /\ DIOTypeOK /\ Modes /\ Races
      /\ \A v \in User : QueueOK(v)
      /\ \A m \in LED : LevelOK(m)
  BY DEF PinInv
<1>1. PICK w : w = <<Change("TOGGLE", LEDPin(n), 1 - odr[LEDPin(n)])>>
  OBVIOUS
<1>2. /\ pins[u] = <<>> /\ writes[u] = <<>> /\ n \in 0 .. rtLedCount - 1
      /\ seen' = [seen EXCEPT ![u] = odr] /\ writes' = [writes EXCEPT ![u] = w]
      /\ UNCHANGED <<odr, moder, pins, rtLedCount, lit, mode, raced>>
  BY <1>1 DEF RTLEDToggle, Quiescent
<1>3. n \in LED /\ LEDPin(n) \in Pin
  BY <1>0, <1>2, LEDsApart DEF DIOTypeOK, LED
<1>4. /\ DOMAIN writes = User /\ DOMAIN seen = User /\ DOMAIN pins = User
      /\ odr \in [Pin -> {0, 1}] /\ odr[LEDPin(n)] \in {0, 1}
  BY <1>0, <1>3, PinTypes
<1>5. /\ w \in Seq(RegChange) /\ Len(w) = 1 /\ w # <<>> /\ Head(w) = w[1]
      /\ w[1].reg = "TOGGLE" /\ w[1].pin = LEDPin(n) /\ w[1].val \in {0, 1}
  BY <1>1, <1>3, <1>4 DEF Change, RegChange
<1>5a. \A m \in 1 .. Len(w) : m = 1
  BY <1>5
<1>6. /\ writes'[u] = w /\ seen'[u] = odr
      /\ \A v \in User \ {u} : writes'[v] = writes[v] /\ seen'[v] = seen[v]
  BY <1>2, <1>4
<1>7. DIOTypeOK'
  <2>1. writes' \in [User -> Seq(RegChange)]
    BY <1>0, <1>2, <1>5 DEF DIOTypeOK, RegChange
  <2>2. seen' \in [User -> [Pin -> 0 .. 3] \cup {<<>>}]
    <3>1. odr \in [Pin -> 0 .. 3]
      BY <1>4
    <3> QED BY <3>1, <1>0, <1>2 DEF DIOTypeOK
  <2> QED BY <1>0, <1>2, <2>1, <2>2 DEF DIOTypeOK, RegChange
<1>8. ~HasRead(u)' /\ \A v \in User \ {u} : HasRead(v)' <=> HasRead(v)
  BY <1>5, <1>6 DEF HasRead, Reading, First
<1>9. Races'
  BY <1>0, <1>2, <1>6, <1>8 DEF Races, First
<1>10. \A v \in User : MyTags(v)' = MyTags(v) /\ MyPins(v)' = MyPins(v)
  BY SameTags
<1>11. Modes'
  <2> SUFFICES ASSUME NEW p \in Pin \ raced, moder[p] # mode[p]
               PROVE  \E v \in User : p \in MyPins(v) /\ Initing(v, p)'
    BY <1>2, <1>10 DEF Modes
  <2>1. PICK v \in User : p \in MyPins(v) /\ Initing(v, p)
    BY <1>0 DEF Modes
  <2>2. v # u
    BY <2>1, <1>2 DEF Initing, InitSeq
  <2> QED BY <2>1, <2>2, <1>2, <1>6 DEF Initing
<1>12. \A v \in User : QueueOK(v)'
  <2>1. QueueOK(u)'
    <3>1. Toggling(u, n)'
      BY <1>1, <1>2, <1>6 DEF Toggling
    <3>2. pins'[u] = <<>> /\ \A m \in 1 .. Len(pins'[u]) : FALSE
      BY <1>2
    <3>3. \A m \in 1 .. Len(writes'[u]) : writes'[u][m].val \in {0, 1}
      BY <1>5, <1>6, <1>5a
    <3>4. writes'[u] # <<>> /\ First(u)'.reg # "BSRR"
      BY <1>5, <1>6 DEF First
    <3>5. n \in Uses[u] \cap LED
      BY <1>3
    <3> QED BY <3>1, <3>2, <3>3, <3>4, <3>5 DEF QueueOK
  <2>2. ASSUME NEW v \in User \ {u} PROVE QueueOK(v)'
    BY <2>2, <1>0, <1>2, <1>6, <1>10, OtherUser
  <2> QED BY <2>1, <2>2
<1>13. \A m \in LED : LevelOK(m)'
  <2> SUFFICES ASSUME NEW m \in LED PROVE LevelOK(m)'
    OBVIOUS
  <2>1. LevelOK(m) /\ (Level(m)' <=> Level(m)) /\ UNCHANGED moder
    BY <1>0, <1>2 DEF Level
  <2>2. moder[LEDPin(m)] = OUTPUT => Level(m)
    BY <2>1 DEF LevelOK
  <2>3. \A v \in User : HasRead(v)' /\ seen'[v][LEDPin(m)] = OUTPUT => Level(m)
    BY <2>1, <1>6, <1>8 DEF LevelOK
  <2>4. ASSUME NEW v \in User, NEW k \in 1 .. Len(writes'[v]), writes'[v][k].pin = LEDPin(m)
        PROVE  /\ writes'[v][k].reg = "BSRR" => writes'[v][k].val = LEDPins[m + 1].initial
               /\ writes'[v][k].reg = "MODER" => writes'[v][k].val = OUTPUT /\ (k = 1 => Level(m))
    <3>1. CASE v = u
      <4>1. k = 1
        BY <3>1, <1>6, <1>5a
      <4> QED BY <3>1, <4>1, <1>5, <1>6
    <3>2. CASE v # u
      BY <2>4, <3>2, <2>1, <1>6 DEF LevelOK
    <3> QED BY <3>1, <3>2
  <2> QED BY <2>1, <2>2, <2>3, <2>4 DEF LevelOK
<1> QED BY <1>7, <1>9, <1>11, <1>12, <1>13 DEF PinInv

LEMMA DIOInitInv ==
  ASSUME PinInv, Early', NEW u \in User, DIOInit(u), mainPC' = mainPC
  PROVE  PinInv'
<1>0. /\ DIOTypeOK /\ Modes /\ Races /\ Early
      /\ \A v \in User : QueueOK(v)
      /\ \A m \in LED : LevelOK(m)
  BY DEF PinInv
<1>1. PICK t : t = Head(pins[u])
  OBVIOUS
<1>2. /\ writes[u] = <<>> /\ pins[u] # <<>>
      /\ pins' = [pins EXCEPT ![u] = Tail(pins[u])]
      /\ writes' = [writes EXCEPT ![u] = Changes(t)]
      /\ mode' = [mode EXCEPT ![t.pin] = Mode(t.func)]
      /\ UNCHANGED <<odr, moder, seen, rtLedCount, lit, raced>>
  BY <1>1 DEF DIOInit
<1>3. /\ DOMAIN writes = User /\ DOMAIN pins = User /\ pins[u] \in Seq(InitTag)
      /\ mode \in [Pin -> 0 .. 3]
  BY <1>0, PinTypes
<1>4. /\ Tail(pins[u]) \in Seq(InitTag) /\ t = pins[u][1] /\ 1 \in 1 .. Len(pins[u])
      /\ \A n \in 1 .. Len(Tail(pins[u])) :
           n + 1 \in 1 .. Len(pins[u]) /\ Tail(pins[u])[n] = pins[u][n + 1]
  BY <1>1, <1>2, <1>3, TailIs
<1>5. t \in MyTags(u) /\ t \in InitTag /\ t.pin \in MyPins(u) /\ t.pin \in Pin
  <2>1. t \in MyTags(u)
    BY <1>0, <1>4 DEF QueueOK
  <2> QED BY <2>1, PinsApart
<1>6. PICK w : w = Changes(t)
  OBVIOUS
<1>7. /\ w \in Seq(RegChange) /\ InitSeq(w, t.pin, Mode(t.func)) /\ Mode(t.func) \in 0 .. 3
      /\ \A n \in 1 .. Len(w) : w[n].reg # "MODER" => w[n].val \in {0, 1}
      /\ t.func = "output" => \A n \in 1 .. Len(w) :
           /\ w[n].reg = "BSRR" => w[n].val = t.initial
           /\ w[n].reg = "MODER" => w[n].val = OUTPUT /\ n # 1
  BY <1>5, <1>6, ChangesAre
<1>8. /\ writes'[u] = w /\ pins'[u] = Tail(pins[u])
      /\ mode'[t.pin] = Mode(t.func) /\ \A p \in Pin \ {t.pin} : mode'[p] = mode[p]
      /\ \A v \in User \ {u} : writes'[v] = writes[v] /\ pins'[v] = pins[v]
  BY <1>2, <1>3, <1>5, <1>6
<1>9. DIOTypeOK'
  <2>1. writes' \in [User -> Seq(RegChange)]
    BY <1>0, <1>2, <1>6, <1>7 DEF DIOTypeOK, RegChange
  <2>2. mode' \in [Pin -> 0 .. 3] /\ pins' \in [User -> Seq(InitTag)]
    BY <1>0, <1>2, <1>3, <1>4, <1>7 DEF DIOTypeOK
  <2> QED BY <1>0, <1>2, <2>1, <2>2 DEF DIOTypeOK, RegChange, INPUT, ANALOG
<1>10. seen[u] = <<>>
  BY <1>0, <1>2 DEF QueueOK
<1>11. ~HasRead(u)' /\ \A v \in User \ {u} : HasRead(v)' <=> HasRead(v)
  BY <1>2, <1>8, <1>10 DEF HasRead, Reading, First
<1>12. Races'
  <2>1. \A v \in User : HasRead(v)' => v # u /\ HasRead(v) /\ First(v)' = First(v)
    BY <1>8, <1>11 DEF First
  <2> QED BY <2>1, <1>0, <1>2 DEF Races
<1>13. \A v \in User : MyTags(v)' = MyTags(v) /\ MyPins(v)' = MyPins(v)
  BY SameTags
<1>14. Initing(u, t.pin)'
  BY <1>7, <1>8 DEF Initing
<1>15. Modes'
  <2> SUFFICES ASSUME NEW p \in Pin \ raced, moder[p] # mode'[p]
               PROVE  \E v \in User : p \in MyPins(v) /\ Initing(v, p)'
    BY <1>2, <1>13 DEF Modes
  <2>1. CASE p = t.pin
    BY <2>1, <1>5, <1>14
  <2>2. CASE p # t.pin
    <3>1. PICK v \in User : p \in MyPins(v) /\ Initing(v, p)
      BY <2>2, <1>0, <1>8 DEF Modes
    <3>2. v # u
      BY <3>1, <1>2 DEF Initing, InitSeq
    <3> QED BY <2>2, <3>1, <3>2, <1>8 DEF Initing
  <2> QED BY <2>1, <2>2
<1>16. \A v \in User : QueueOK(v)'
  <2>1. QueueOK(u)'
    <3>1. \A n \in 1 .. Len(pins'[u]) : pins'[u][n] \in MyTags(u)'
      <4>1. \A n \in 1 .. Len(pins[u]) : pins[u][n] \in MyTags(u)
        BY <1>0 DEF QueueOK
      <4> QED BY <4>1, <1>4, <1>8, <1>13
    <3>2. \E pin \in MyPins(u)' : Initing(u, pin)'
      BY <1>5, <1>13, <1>14
    <3>3. \A n \in 1 .. Len(writes'[u]) : writes'[u][n].reg # "MODER" => writes'[u][n].val \in {0, 1}
      BY <1>7, <1>8
    <3>4. seen'[u] = <<>>
      BY <1>2, <1>10
    <3> QED BY <3>1, <3>2, <3>3, <3>4 DEF QueueOK
  <2>2. ASSUME NEW v \in User \ {u} PROVE QueueOK(v)'
    <3>1. \A pin \in MyPins(v) : mode'[pin] = mode[pin]
      BY <1>5, <1>8, PinsApart
    <3> QED BY <3>1, <1>0, <1>2, <1>8, <1>13, OtherUser
  <2> QED BY <2>1, <2>2
<1>17. \A m \in LED : LevelOK(m)'
  <2> SUFFICES ASSUME NEW m \in LED PROVE LevelOK(m)'
    OBVIOUS
  <2>1. LevelOK(m) /\ (Level(m)' <=> Level(m)) /\ UNCHANGED <<moder, seen>>
    BY <1>0, <1>2 DEF Level
  <2>2. moder[LEDPin(m)] = OUTPUT => Level(m)
    BY <2>1 DEF LevelOK
  <2>3. \A v \in User : HasRead(v)' /\ seen'[v][LEDPin(m)] = OUTPUT => Level(m)
    BY <2>1, <1>11 DEF LevelOK
  <2>4. ASSUME NEW v \in User, NEW k \in 1 .. Len(writes'[v]), writes'[v][k].pin = LEDPin(m)
        PROVE  /\ writes'[v][k].reg = "BSRR" => writes'[v][k].val = LEDPins[m + 1].initial
               /\ writes'[v][k].reg = "MODER" => writes'[v][k].val = OUTPUT /\ (k = 1 => Level(m))
    <3>1. CASE v = u
      <4>1. t.pin = LEDPin(m)
        BY <2>4, <3>1, <1>7, <1>8 DEF InitSeq
      <4>2. t = LEDPins[m + 1]
        <5>1. u = Main /\ mainPC = "lit"
          BY <4>1, <1>5, PinsApart
        <5>2. t.pin \notin OwnPins(Main)
          BY <4>1, <5>1, WiringAssumption, BoardAssumption
        <5>3. t \in LEDTags
          BY <5>1, <5>2, <1>5, PinsApart
        <5>4. PICK n \in LED : t = LEDPins[n + 1]
          BY <5>3, LEDsApart
        <5>5. LEDPin(n) = LEDPin(m)
          BY <4>1, <5>4 DEF LEDPin
        <5> QED BY <5>4, <5>5, LEDsApart
      <4>3. t.func = "output"
        BY <4>2, LEDsApart
      <4> QED BY <3>1, <4>2, <4>3, <1>7, <1>8
    <3>2. CASE v # u
      BY <2>4, <3>2, <2>1, <1>8 DEF LevelOK
    <3> QED BY <3>1, <3>2
  <2> QED BY <2>1, <2>2, <2>3, <2>4 DEF LevelOK
<1> QED BY <1>9, <1>12, <1>15, <1>16, <1>17 DEF PinInv

\* What a DIOInit under way does next, and what is left of it then.
LEMMA HeadOfInit ==
  ASSUME PinInv, NEW u \in User, writes[u] # <<>>, First(u).reg \in {"BSRR", "MODER"},
         writes'[u] = Tail(writes[u])
  PROVE  \E pin \in MyPins(u) :
           /\ pin \in Pin /\ Initing(u, pin) /\ First(u) = writes[u][1] /\ First(u).pin = pin
           /\ First(u).val \in 0 .. 3 /\ (First(u).reg = "BSRR" => First(u).val \in {0, 1})
           /\ writes'[u] \in Seq(RegChange)
           /\ \/ /\ writes'[u] = <<>>
                 /\ First(u).reg = "MODER" /\ First(u).val = mode[pin]
              \/ InitSeq(writes'[u], pin, mode[pin])
           /\ \A n \in 1 .. Len(writes'[u]) :
                n + 1 \in 1 .. Len(writes[u]) /\ writes'[u][n] = writes[u][n + 1]
<1>0. DIOTypeOK /\ QueueOK(u)
  BY DEF PinInv
<1>1. writes[u] \in Seq(RegChange)
  BY <1>0, PinTypes
<1>2. /\ First(u) = writes[u][1] /\ 1 \in 1 .. Len(writes[u]) /\ writes[u][1] \in RegChange
      /\ Tail(writes[u]) \in Seq(RegChange)
      /\ \A n \in 1 .. Len(writes'[u]) :
           n + 1 \in 1 .. Len(writes[u]) /\ writes'[u][n] = writes[u][n + 1]
  BY <1>1, TailIs DEF First
<1>3. \A n : ~Toggling(u, n)
  BY <1>2 DEF Toggling, Change
<1>4. PICK pin \in MyPins(u) : Initing(u, pin)
  BY <1>0, <1>3 DEF QueueOK
<1>5. /\ \/ Tail(writes[u]) = <<>> /\ First(u).reg = "MODER" /\ First(u).val = mode[pin]
         \/ InitSeq(Tail(writes[u]), pin, mode[pin])
      /\ First(u).pin = pin
  <2>1. InitSeq(writes[u], pin, mode[pin])
    BY <1>4 DEF Initing
  <2>2. First(u).pin = pin
    BY <2>1, <1>2 DEF InitSeq
  <2> QED BY <2>1, <2>2, <1>1, <1>2, InitSeqTail
<1>6. First(u).val \in 0 .. 3 /\ (First(u).reg = "BSRR" => First(u).val \in {0, 1})
  BY <1>0, <1>2 DEF QueueOK, RegChange
<1>7. pin \in Pin
  BY PinsApart
<1> QED BY <1>2, <1>4, <1>5, <1>6, <1>7

LEMMA DoneIs ==
  ASSUME DIOTypeOK, NEW u \in User, Done(u)
  PROVE  /\ writes'[u] = Tail(writes[u]) /\ seen'[u] = <<>>
         /\ \A v \in User \ {u} : writes'[v] = writes[v] /\ seen'[v] = seen[v]
         /\ (writes'[u] \in Seq(RegChange) => writes' \in [User -> Seq(RegChange)])
         /\ seen' \in [User -> [Pin -> 0 .. 3] \cup {<<>>}]
<1>1. /\ writes \in [User -> Seq(RegChange)] /\ seen \in [User -> [Pin -> 0 .. 3] \cup {<<>>}]
  BY DEF DIOTypeOK, RegChange
<1>2. writes' = [writes EXCEPT ![u] = Tail(writes[u])] /\ seen' = [seen EXCEPT ![u] = <<>>]
  BY DEF Done
<1> QED BY <1>1, <1>2

LEMMA WriteLevelInv ==
  ASSUME PinInv, Early', NEW u \in User, WriteLevel(u), mainPC' = mainPC
  PROVE  PinInv'
<1>0. /\ DIOTypeOK /\ Modes /\ Races /\ Early
      /\ \A v \in User : QueueOK(v)
      /\ \A m \in LED : LevelOK(m)
  BY DEF PinInv
<1>1. /\ writes[u] # <<>> /\ First(u).reg = "BSRR" /\ Done(u)
      /\ odr' = [odr EXCEPT ![First(u).pin] = First(u).val]
      /\ UNCHANGED <<moder, pins, rtLedCount, lit, mode, raced>>
  BY DEF WriteLevel
<1>2. /\ writes'[u] = Tail(writes[u]) /\ seen'[u] = <<>>
      /\ \A v \in User \ {u} : writes'[v] = writes[v] /\ seen'[v] = seen[v]
      /\ (writes'[u] \in Seq(RegChange) => writes' \in [User -> Seq(RegChange)])
      /\ seen' \in [User -> [Pin -> 0 .. 3] \cup {<<>>}]
  BY <1>0, <1>1, DoneIs
<1>3. PICK pin \in MyPins(u) :
        /\ pin \in Pin /\ Initing(u, pin) /\ First(u) = writes[u][1] /\ First(u).pin = pin
        /\ First(u).val \in {0, 1} /\ writes'[u] \in Seq(RegChange)
        /\ InitSeq(writes'[u], pin, mode[pin])
        /\ \A n \in 1 .. Len(writes'[u]) :
             n + 1 \in 1 .. Len(writes[u]) /\ writes'[u][n] = writes[u][n + 1]
  BY <1>1, <1>2, HeadOfInit
<1>4. odr' = [odr EXCEPT ![pin] = First(u).val] /\ odr \in [Pin -> {0, 1}]
  BY <1>0, <1>1, <1>3 DEF DIOTypeOK
<1>5. DIOTypeOK'
  <2>1. writes' \in [User -> Seq(RegChange)] /\ odr' \in [Pin -> {0, 1}]
    BY <1>2, <1>3, <1>4
  <2> QED BY <1>0, <1>1, <1>2, <2>1 DEF DIOTypeOK, RegChange
<1>6. ~HasRead(u)' /\ \A v \in User \ {u} : HasRead(v)' <=> HasRead(v)
  BY <1>2 DEF HasRead, Reading, First
<1>7. Races'
  BY <1>0, <1>1, <1>2, <1>6 DEF Races, First
<1>8. \A v \in User : MyTags(v)' = MyTags(v) /\ MyPins(v)' = MyPins(v)
  BY SameTags
<1>9. Initing(u, pin)'
  BY <1>1, <1>3 DEF Initing
<1>10. Modes'
  <2> SUFFICES ASSUME NEW p \in Pin \ raced, moder[p] # mode[p]
               PROVE  \E v \in User : p \in MyPins(v) /\ Initing(v, p)'
    BY <1>1, <1>8 DEF Modes
  <2>1. PICK v \in User : p \in MyPins(v) /\ Initing(v, p)
    BY <1>0 DEF Modes
  <2>2. CASE v = u
    <3>1. p = pin
      BY <2>1, <2>2, <1>3, TailIs, PinTypes, <1>0 DEF Initing, InitSeq
    <3> QED BY <3>1, <1>9
  <2>3. CASE v # u
    BY <2>1, <2>3, <1>1, <1>2 DEF Initing
  <2> QED BY <2>2, <2>3
<1>11. \A m \in LED : LEDPin(m) = pin => u = Main /\ mainPC = "lit" /\ ~lit[m]
  BY <1>0, PinsApart DEF Early
<1>12. \A v \in User : QueueOK(v)'
  <2>1. QueueOK(u)'
    <3>1. pins'[u] = pins[u] /\ \A n \in 1 .. Len(pins'[u]) : pins'[u][n] \in MyTags(u)'
      BY <1>0, <1>1, <1>8 DEF QueueOK
    <3>2. \E p \in MyPins(u)' : Initing(u, p)'
      BY <1>8, <1>9
    <3>3. \A n \in 1 .. Len(writes'[u]) : writes'[u][n].reg # "MODER" => writes'[u][n].val \in {0, 1}
      BY <1>0, <1>3 DEF QueueOK
    <3> QED BY <3>1, <3>2, <3>3, <1>2 DEF QueueOK
  <2>2. ASSUME NEW v \in User \ {u} PROVE QueueOK(v)'
    <3>1. ASSUME NEW m \in Uses[v] \cap LED, mainPC = "tasks" PROVE odr'[LEDPin(m)] = odr[LEDPin(m)]
      BY <3>1, <1>4, <1>11, LEDsApart
    <3> QED BY <3>1, <1>0, <1>1, <1>2, <1>8, OtherUser
  <2> QED BY <2>1, <2>2
<1>13. \A m \in LED : /\ LEDPin(m) # pin => (Level(m)' <=> Level(m))
                      /\ LEDPin(m) = pin => Level(m)'
  <2> SUFFICES ASSUME NEW m \in LED
               PROVE  /\ LEDPin(m) # pin => (Level(m)' <=> Level(m))
                      /\ LEDPin(m) = pin => Level(m)'
    OBVIOUS
  <2>1. CASE LEDPin(m) # pin
    BY <2>1, <1>1, <1>4, LEDsApart DEF Level
  <2>2. CASE LEDPin(m) = pin
    <3>1. First(u).val = LEDPins[m + 1].initial
      <4>1. 1 \in 1 .. Len(writes[u])
        BY <1>0, <1>1, PinTypes, TailIs
      <4> QED BY <2>2, <4>1, <1>0, <1>1, <1>3 DEF LevelOK
    <3>2. odr'[LEDPin(m)] = LEDPins[m + 1].initial /\ ~lit'[m] /\ lit' \in [LED -> BOOLEAN]
      <4>1. odr'[LEDPin(m)] = First(u).val
        BY <2>2, <1>3, <1>4
      <4>2. ~lit[m] /\ lit' = lit /\ lit \in [LED -> BOOLEAN]
        BY <2>2, <1>0, <1>1, <1>11 DEF DIOTypeOK
      <4> QED BY <3>1, <4>1, <4>2
    <3> QED BY <2>2, <3>2 DEF Level, ActiveLow
  <2> QED BY <2>1, <2>2
<1>14. \A m \in LED : LevelOK(m)'
  <2> SUFFICES ASSUME NEW m \in LED PROVE LevelOK(m)'
    OBVIOUS
  <2>1. LevelOK(m) /\ (Level(m) => Level(m)') /\ UNCHANGED moder
    BY <1>0, <1>1, <1>13
  <2>2. moder[LEDPin(m)] = OUTPUT => Level(m)'
    BY <2>1 DEF LevelOK
  <2>3. \A v \in User : HasRead(v)' /\ seen'[v][LEDPin(m)] = OUTPUT => Level(m)'
    BY <2>1, <1>2, <1>6 DEF LevelOK
  <2>4. ASSUME NEW v \in User, NEW k \in 1 .. Len(writes'[v]), writes'[v][k].pin = LEDPin(m)
        PROVE  /\ writes'[v][k].reg = "BSRR" => writes'[v][k].val = LEDPins[m + 1].initial
               /\ writes'[v][k].reg = "MODER" => writes'[v][k].val = OUTPUT /\ (k = 1 => Level(m)')
    <3>1. CASE v = u
      <4>1. LEDPin(m) = pin
        BY <2>4, <3>1, <1>3 DEF InitSeq
      <4>2. k + 1 \in 1 .. Len(writes[u]) /\ writes'[u][k] = writes[u][k + 1]
        BY <3>1, <1>3
      <4>3. writes[u][k + 1].pin = LEDPin(m)
        BY <2>4, <3>1, <4>2
      <4>4. /\ writes[u][k + 1].reg = "BSRR" => writes[u][k + 1].val = LEDPins[m + 1].initial
            /\ writes[u][k + 1].reg = "MODER" => writes[u][k + 1].val = OUTPUT
        BY <2>1, <4>2, <4>3 DEF LevelOK
      <4>5. Level(m)'
        BY <4>1, <1>13
      <4> QED BY <3>1, <4>2, <4>4, <4>5
    <3>2. CASE v # u
      BY <2>4, <3>2, <2>1, <1>2 DEF LevelOK
    <3> QED BY <3>1, <3>2
  <2> QED BY <2>1, <2>2, <2>3, <2>4 DEF LevelOK
<1> QED BY <1>5, <1>7, <1>10, <1>12, <1>14 DEF PinInv

LEMMA WriteToggleInv ==
  ASSUME PinInv, Early', NEW u \in User, WriteToggle(u), mainPC' = mainPC
  PROVE  PinInv'
<1>0. /\ DIOTypeOK /\ Modes /\ Races /\ Early
      /\ \A v \in User : QueueOK(v)
      /\ \A m \in LED : LevelOK(m)
  BY DEF PinInv
<1>1. /\ writes[u] # <<>> /\ First(u).reg = "TOGGLE" /\ Done(u)
      /\ odr' = [odr EXCEPT ![First(u).pin] = First(u).val]
      /\ lit' = Toggled(First(u).pin)
      /\ UNCHANGED <<moder, pins, rtLedCount, mode, raced>>
  BY DEF WriteToggle
<1>2. /\ writes'[u] = Tail(writes[u]) /\ seen'[u] = <<>>
      /\ \A v \in User \ {u} : writes'[v] = writes[v] /\ seen'[v] = seen[v]
      /\ (writes'[u] \in Seq(RegChange) => writes' \in [User -> Seq(RegChange)])
      /\ seen' \in [User -> [Pin -> 0 .. 3] \cup {<<>>}]
  BY <1>0, <1>1, DoneIs
<1>3. PICK n \in Uses[u] \cap LED : Toggling(u, n) /\ mainPC = "tasks"
  <2>1. 1 \in 1 .. Len(writes[u]) /\ writes[u][1].reg = "TOGGLE"
    BY <1>0, <1>1, PinTypes, TailIs DEF First
  <2>2. \A pin \in MyPins(u) : ~Initing(u, pin)
    BY <2>1 DEF Initing, InitSeq
  <2> QED BY <2>2, <1>0, <1>1 DEF QueueOK
<1>4. /\ LEDPin(n) \in Pin /\ odr \in [Pin -> {0, 1}] /\ lit \in [LED -> BOOLEAN]
      /\ odr[LEDPin(n)] \in {0, 1}
  BY <1>0, LEDsApart DEF DIOTypeOK
<1>5. /\ First(u).pin = LEDPin(n) /\ First(u).val = 1 - odr[LEDPin(n)]
      /\ writes'[u] = <<>> /\ <<>> \in Seq(RegChange)
  BY <1>2, <1>3 DEF Toggling, First, Change
<1>6. /\ odr' = [odr EXCEPT ![LEDPin(n)] = 1 - odr[LEDPin(n)]]
      /\ lit' = [m \in LED |-> lit[m] # (m = n)]
  <2>1. lit' = [m \in LED |-> lit[m] # (LEDPin(m) = LEDPin(n))]
    BY <1>1, <1>5 DEF Toggled
  <2> QED BY <2>1, <1>1, <1>5, LEDsApart
<1>7. DIOTypeOK'
  <2>1. odr' \in [Pin -> {0, 1}]
    BY <1>4, <1>6
  <2>2. lit' \in [LED -> BOOLEAN]
    BY <1>6
  <2>3. writes' \in [User -> Seq(RegChange)]
    BY <1>2, <1>5
  <2> QED BY <1>0, <1>1, <1>2, <2>1, <2>2, <2>3 DEF DIOTypeOK, RegChange
<1>8. ~HasRead(u)' /\ \A v \in User \ {u} : HasRead(v)' <=> HasRead(v)
  BY <1>2 DEF HasRead, Reading, First
<1>9. Races'
  BY <1>0, <1>1, <1>2, <1>8 DEF Races, First
<1>10. \A v \in User : MyTags(v)' = MyTags(v) /\ MyPins(v)' = MyPins(v)
  BY SameTags
<1>11. Modes'
  <2> SUFFICES ASSUME NEW p \in Pin \ raced, moder[p] # mode[p]
               PROVE  \E v \in User : p \in MyPins(v) /\ Initing(v, p)'
    BY <1>1, <1>10 DEF Modes
  <2>1. PICK v \in User : p \in MyPins(v) /\ Initing(v, p)
    BY <1>0 DEF Modes
  <2>2. v # u
    <3>1. 1 \in 1 .. Len(writes[u]) /\ writes[u][1].reg = "TOGGLE"
      BY <1>0, <1>1, PinTypes, TailIs DEF First
    <3> QED BY <2>1, <3>1 DEF Initing, InitSeq
  <2> QED BY <2>1, <2>2, <1>1, <1>2 DEF Initing
<1>12. \A v \in User : QueueOK(v)'
  <2>1. QueueOK(u)'
    <3>1. pins'[u] = pins[u] /\ \A k \in 1 .. Len(pins'[u]) : pins'[u][k] \in MyTags(u)'
      BY <1>0, <1>1, <1>10 DEF QueueOK
    <3>2. \A k \in 1 .. Len(writes'[u]) : FALSE
      BY <1>5
    <3> QED BY <3>1, <3>2, <1>2, <1>5 DEF QueueOK
  <2>2. ASSUME NEW v \in User \ {u} PROVE QueueOK(v)'
    <3>1. ASSUME NEW m \in Uses[v] \cap LED PROVE odr'[LEDPin(m)] = odr[LEDPin(m)]
      <4>1. Uses[v] \cap Uses[u] = {}
        BY BoardAssumption, WiringAssumption
      <4>2. m # n
        BY <4>1, <3>1, <1>3
      <4> QED BY <4>2, <1>4, <1>6, LEDsApart
    <3> QED BY <3>1, <1>0, <1>1, <1>2, <1>10, OtherUser
  <2> QED BY <2>1, <2>2
<1>13. \A m \in LED : Level(m) => Level(m)'
  <2> SUFFICES ASSUME NEW m \in LED, Level(m) PROVE Level(m)'
    OBVIOUS
  <2>1. CASE m = n
    <3>1. (odr'[LEDPin(m)] = 1) = (odr[LEDPin(m)] # 1)
      BY <2>1, <1>4, <1>6
    <3>2. lit'[m] = ~lit[m] /\ lit[m] \in BOOLEAN
      BY <2>1, <1>4, <1>6
    <3> QED BY <3>1, <3>2 DEF Level, ActiveLow
  <2>2. CASE m # n
    <3>1. odr'[LEDPin(m)] = odr[LEDPin(m)]
      BY <2>2, <1>4, <1>6, LEDsApart
    <3>2. lit'[m] = lit[m]
      BY <2>2, <1>4, <1>6
    <3> QED BY <3>1, <3>2 DEF Level
  <2> QED BY <2>1, <2>2
<1>14. \A m \in LED : LevelOK(m)'
  <2> SUFFICES ASSUME NEW m \in LED PROVE LevelOK(m)'
    OBVIOUS
  <2>1. LevelOK(m) /\ (Level(m) => Level(m)') /\ UNCHANGED moder
    BY <1>0, <1>1, <1>13
  <2>2. moder[LEDPin(m)] = OUTPUT => Level(m)'
    BY <2>1 DEF LevelOK
  <2>3. \A v \in User : HasRead(v)' /\ seen'[v][LEDPin(m)] = OUTPUT => Level(m)'
    BY <2>1, <1>2, <1>8 DEF LevelOK
  <2>4. ASSUME NEW v \in User, NEW k \in 1 .. Len(writes'[v]), writes'[v][k].pin = LEDPin(m)
        PROVE  /\ writes'[v][k].reg = "BSRR" => writes'[v][k].val = LEDPins[m + 1].initial
               /\ writes'[v][k].reg = "MODER" => writes'[v][k].val = OUTPUT /\ (k = 1 => Level(m)')
    <3>1. v # u
      BY <1>5
    <3> QED BY <2>4, <3>1, <2>1, <1>2 DEF LevelOK
  <2> QED BY <2>1, <2>2, <2>3, <2>4 DEF LevelOK
<1> QED BY <1>7, <1>9, <1>11, <1>12, <1>14 DEF PinInv

LEMMA ReadModeInv ==
  ASSUME PinInv, Early', NEW u \in User, ReadMode(u), mainPC' = mainPC
  PROVE  PinInv'
<1>0. /\ DIOTypeOK /\ Modes /\ Races /\ Early
      /\ \A v \in User : QueueOK(v)
      /\ \A m \in LED : LevelOK(m)
  BY DEF PinInv
<1>1. /\ Reading(u) /\ seen[u] = <<>> /\ seen' = [seen EXCEPT ![u] = moder]
      /\ UNCHANGED <<odr, moder, pins, writes, rtLedCount, lit, mode>>
      /\ raced \subseteq raced'
      /\ raced' \subseteq raced \cup {First(v).pin : v \in {x \in User : Reading(x)}}
      /\ \A v \in User \ {u} : HasRead(v) => First(u).pin \in raced' /\ First(v).pin \in raced'
  BY DEF ReadMode, HasRead
<1>2. /\ seen \in [User -> [Pin -> 0 .. 3] \cup {<<>>}] /\ moder \in [Pin -> 0 .. 3]
  BY <1>0, PinTypes DEF DIOTypeOK
<1>3. seen'[u] = moder /\ \A v \in User \ {u} : seen'[v] = seen[v]
  BY <1>1, <1>2
<1>4. raced' \subseteq Pin
  <2>1. \A v \in User : Reading(v) => First(v).pin \in Pin
    <3> SUFFICES ASSUME NEW v \in User, Reading(v) PROVE First(v).pin \in Pin
      OBVIOUS
    <3>1. writes[v] \in Seq(RegChange) /\ writes[v] # <<>>
      BY <1>0, PinTypes DEF Reading
    <3>2. First(v) \in RegChange
      BY <3>1, TailIs DEF First
    <3> QED BY <3>2 DEF RegChange
  <2>2. {First(v).pin : v \in {x \in User : Reading(x)}} \subseteq Pin
    BY <2>1
  <2>3. raced \subseteq Pin
    BY <1>0 DEF DIOTypeOK
  <2> QED BY <2>2, <2>3, <1>1
<1>5. DIOTypeOK'
  <2>1. seen' \in [User -> [Pin -> 0 .. 3] \cup {<<>>}]
    BY <1>1, <1>2
  <2> QED BY <1>0, <1>1, <1>4, <2>1 DEF DIOTypeOK
<1>6. \A v \in User : First(v)' = First(v) /\ (v # u => (HasRead(v)' <=> HasRead(v)))
  BY <1>1, <1>3 DEF HasRead, Reading, First
<1>7. Races'
  <2>1. ASSUME NEW v \in User, NEW w \in User, v # w, HasRead(v)', HasRead(w)'
        PROVE  First(v).pin \in raced'
    <3>1. CASE v = u
      BY <2>1, <3>1, <1>1, <1>6
    <3>2. CASE w = u
      BY <2>1, <3>2, <1>1, <1>6
    <3>3. CASE v # u /\ w # u
      BY <2>1, <3>3, <1>0, <1>1, <1>6 DEF Races
    <3> QED BY <3>1, <3>2, <3>3
  <2>2. ASSUME NEW v \in User, HasRead(v)', NEW p \in Pin \ raced'
        PROVE  seen'[v][p] = moder[p]
    <3>1. CASE v = u
      BY <3>1, <1>3
    <3>2. CASE v # u
      BY <2>2, <3>2, <1>0, <1>1, <1>3, <1>6 DEF Races
    <3> QED BY <3>1, <3>2
  <2> QED BY <2>1, <2>2, <1>1, <1>6 DEF Races
<1>8. \A v \in User : MyTags(v)' = MyTags(v) /\ MyPins(v)' = MyPins(v)
  BY SameTags
<1>9. Modes'
  <2>1. \A v \in User, p \in Pin : Initing(v, p)' <=> Initing(v, p)
    BY <1>1 DEF Initing
  <2> QED BY <2>1, <1>0, <1>1, <1>8 DEF Modes
<1>10. \A v \in User : QueueOK(v)'
  <2>1. QueueOK(u)'
    <3>1. writes[u] # <<>> /\ First(u)'.reg # "BSRR"
      BY <1>1, <1>6 DEF Reading
    <3>2. \A p \in MyPins(u) : Initing(u, p)' <=> Initing(u, p)
      BY <1>1 DEF Initing
    <3>3. \A n : Toggling(u, n)' <=> Toggling(u, n)
      BY <1>1 DEF Toggling
    <3> QED BY <3>1, <3>2, <3>3, <1>0, <1>1, <1>8 DEF QueueOK
  <2>2. ASSUME NEW v \in User \ {u} PROVE QueueOK(v)'
    BY <2>2, <1>0, <1>1, <1>3, <1>8, OtherUser
  <2> QED BY <2>1, <2>2
<1>11. \A m \in LED : LevelOK(m)'
  <2> SUFFICES ASSUME NEW m \in LED PROVE LevelOK(m)'
    OBVIOUS
  <2>1. LevelOK(m) /\ (Level(m)' <=> Level(m)) /\ UNCHANGED <<moder, writes>>
    BY <1>0, <1>1 DEF Level
  <2>2. moder[LEDPin(m)] = OUTPUT => Level(m)
    BY <2>1 DEF LevelOK
  <2>3. ASSUME NEW v \in User, HasRead(v)', seen'[v][LEDPin(m)] = OUTPUT PROVE Level(m)
    <3>1. CASE v = u
      BY <2>2, <2>3, <3>1, <1>3
    <3>2. CASE v # u
      BY <2>1, <2>3, <3>2, <1>3, <1>6 DEF LevelOK
    <3> QED BY <3>1, <3>2
  <2>4. \A v \in User : \A k \in 1 .. Len(writes[v]) : writes[v][k].pin = LEDPin(m) =>
          /\ writes[v][k].reg = "BSRR" => writes[v][k].val = LEDPins[m + 1].initial
          /\ writes[v][k].reg = "MODER" => writes[v][k].val = OUTPUT /\ (k = 1 => Level(m))
    BY <2>1 DEF LevelOK
  <2> QED BY <2>1, <2>2, <2>3, <2>4 DEF LevelOK
<1> QED BY <1>5, <1>7, <1>9, <1>10, <1>11 DEF PinInv

LEMMA WriteModeInv ==
  ASSUME PinInv, Early', NEW u \in User, WriteMode(u), mainPC' = mainPC
  PROVE  PinInv'
<1>0. /\ DIOTypeOK /\ Modes /\ Races /\ Early
      /\ \A v \in User : QueueOK(v)
      /\ \A m \in LED : LevelOK(m)
  BY DEF PinInv
<1>1. /\ HasRead(u) /\ writes[u] # <<>> /\ First(u).reg = "MODER" /\ seen[u] # <<>> /\ Done(u)
      /\ moder' = [seen[u] EXCEPT ![First(u).pin] = First(u).val]
      /\ UNCHANGED <<odr, pins, rtLedCount, lit, mode, raced>>
  BY DEF WriteMode, HasRead, Reading, Field
<1>2. /\ writes'[u] = Tail(writes[u]) /\ seen'[u] = <<>>
      /\ \A v \in User \ {u} : writes'[v] = writes[v] /\ seen'[v] = seen[v]
      /\ (writes'[u] \in Seq(RegChange) => writes' \in [User -> Seq(RegChange)])
      /\ seen' \in [User -> [Pin -> 0 .. 3] \cup {<<>>}]
  BY <1>0, <1>1, DoneIs
<1>3. PICK pin \in MyPins(u) :
        /\ pin \in Pin /\ Initing(u, pin) /\ First(u) = writes[u][1] /\ First(u).pin = pin
        /\ First(u).val \in 0 .. 3 /\ writes'[u] \in Seq(RegChange)
        /\ \/ writes'[u] = <<>> /\ First(u).val = mode[pin]
           \/ InitSeq(writes'[u], pin, mode[pin])
        /\ \A n \in 1 .. Len(writes'[u]) :
             n + 1 \in 1 .. Len(writes[u]) /\ writes'[u][n] = writes[u][n + 1]
  BY <1>1, <1>2, HeadOfInit
<1>4. seen[u] \in [Pin -> 0 .. 3]
  BY <1>0, <1>1, PinTypes
<1>5. /\ moder' \in [Pin -> 0 .. 3] /\ moder'[pin] = First(u).val
      /\ \A p \in Pin \ {pin} : moder'[p] = seen[u][p]
  BY <1>1, <1>3, <1>4
<1>6. DIOTypeOK'
  BY <1>0, <1>1, <1>2, <1>3, <1>5 DEF DIOTypeOK, RegChange, INPUT, ANALOG
<1>7. ~HasRead(u)' /\ \A v \in User \ {u} : HasRead(v)' <=> HasRead(v)
  BY <1>2 DEF HasRead, Reading, First
<1>8. \A p \in Pin \ raced : p # pin => moder'[p] = moder[p]
  BY <1>0, <1>1, <1>5 DEF Races
<1>9. Races'
  <2>1. \A v \in User : HasRead(v)' => v # u /\ HasRead(v) /\ First(v)' = First(v)
    BY <1>2, <1>7 DEF First
  <2>2. \A v, w \in User : v # w /\ HasRead(v)' /\ HasRead(w)' => First(v)'.pin \in raced'
    BY <2>1, <1>0, <1>1 DEF Races
  <2>3. ASSUME NEW v \in User, HasRead(v)', NEW p \in Pin \ raced
        PROVE  seen'[v][p] = moder'[p]
    <3>1. v # u /\ HasRead(v) /\ seen'[v] = seen[v]
      BY <2>1, <2>3, <1>2
    <3>2. pin \in raced
      BY <3>1, <1>0, <1>1, <1>3 DEF Races
    <3>3. seen[v][p] = moder[p]
      BY <3>1, <2>3, <1>0 DEF Races
    <3> QED BY <3>1, <3>2, <3>3, <2>3, <1>8
  <2> QED BY <2>2, <2>3, <1>1 DEF Races
<1>10. \A v \in User : MyTags(v)' = MyTags(v) /\ MyPins(v)' = MyPins(v)
  BY SameTags
<1>11. writes'[u] = <<>> \/ Initing(u, pin)'
  BY <1>1, <1>3 DEF Initing
<1>12. Modes'
  <2> SUFFICES ASSUME NEW p \in Pin \ raced, moder'[p] # mode[p]
               PROVE  \E v \in User : p \in MyPins(v) /\ Initing(v, p)'
    BY <1>1, <1>10 DEF Modes
  <2>1. CASE p = pin
    <3>1. writes'[u] # <<>>
      BY <2>1, <1>3, <1>5 DEF InitSeq
    <3> QED BY <2>1, <3>1, <1>11
  <2>2. CASE p # pin
    <3>1. PICK v \in User : p \in MyPins(v) /\ Initing(v, p)
      BY <2>2, <1>0, <1>8 DEF Modes
    <3>2. v # u
      <4>1. 1 \in 1 .. Len(writes[u])
        BY <1>0, <1>1, PinTypes, TailIs
      <4> QED BY <2>2, <3>1, <4>1, <1>3 DEF Initing, InitSeq
    <3> QED BY <3>1, <3>2, <1>1, <1>2 DEF Initing
  <2> QED BY <2>1, <2>2
<1>13. \A v \in User : QueueOK(v)'
  <2>1. QueueOK(u)'
    <3>1. pins'[u] = pins[u] /\ \A n \in 1 .. Len(pins'[u]) : pins'[u][n] \in MyTags(u)'
      BY <1>0, <1>1, <1>10 DEF QueueOK
    <3>2. writes'[u] = <<>> \/ \E p \in MyPins(u)' : Initing(u, p)'
      BY <1>10, <1>11
    <3>3. \A n \in 1 .. Len(writes'[u]) : writes'[u][n].reg # "MODER" => writes'[u][n].val \in {0, 1}
      <4>1. \A n \in 1 .. Len(writes[u]) : writes[u][n].reg # "MODER" => writes[u][n].val \in {0, 1}
        BY <1>0 DEF QueueOK
      <4> QED BY <4>1, <1>3
    <3> QED BY <3>1, <3>2, <3>3, <1>2 DEF QueueOK
  <2>2. ASSUME NEW v \in User \ {u} PROVE QueueOK(v)'
    BY <2>2, <1>0, <1>1, <1>2, <1>10, OtherUser
  <2> QED BY <2>1, <2>2
<1>14. \A m \in LED : LevelOK(m)'
  <2> SUFFICES ASSUME NEW m \in LED PROVE LevelOK(m)'
    OBVIOUS
  <2>1. LevelOK(m) /\ (Level(m)' <=> Level(m)) /\ LEDPin(m) \in Pin
    BY <1>0, <1>1, LEDsApart DEF Level
  <2>2. LEDPin(m) = pin => Level(m)
    <3>1. 1 \in 1 .. Len(writes[u])
      BY <1>0, <1>1, PinTypes, TailIs
    <3> QED BY <3>1, <2>1, <1>1, <1>3 DEF LevelOK
  <2>3. moder'[LEDPin(m)] = OUTPUT => Level(m)
    <3>1. CASE LEDPin(m) = pin
      BY <3>1, <2>2
    <3>2. CASE LEDPin(m) # pin
      BY <3>2, <2>1, <1>1, <1>5 DEF LevelOK
    <3> QED BY <3>1, <3>2
  <2>4. \A v \in User : HasRead(v)' /\ seen'[v][LEDPin(m)] = OUTPUT => Level(m)
    BY <2>1, <1>2, <1>7 DEF LevelOK
  <2>5. ASSUME NEW v \in User, NEW k \in 1 .. Len(writes'[v]), writes'[v][k].pin = LEDPin(m)
        PROVE  /\ writes'[v][k].reg = "BSRR" => writes'[v][k].val = LEDPins[m + 1].initial
               /\ writes'[v][k].reg = "MODER" => writes'[v][k].val = OUTPUT /\ (k = 1 => Level(m))
    <3>1. CASE v = u
      <4>1. k + 1 \in 1 .. Len(writes[u]) /\ writes'[u][k] = writes[u][k + 1]
        BY <3>1, <1>3
      <4>2. writes[u][k + 1].pin = LEDPin(m)
        BY <2>5, <3>1, <4>1
      <4>3. /\ writes[u][k + 1].reg = "BSRR" => writes[u][k + 1].val = LEDPins[m + 1].initial
            /\ writes[u][k + 1].reg = "MODER" => writes[u][k + 1].val = OUTPUT
        BY <2>1, <4>1, <4>2 DEF LevelOK
      <4>4. LEDPin(m) = pin
        BY <4>1, <4>2, <1>3 DEF Initing, InitSeq
      <4> QED BY <3>1, <4>1, <4>3, <4>4, <2>2
    <3>2. CASE v # u
      BY <2>5, <3>2, <2>1, <1>2 DEF LevelOK
    <3> QED BY <3>1, <3>2
  <2> QED BY <2>1, <2>3, <2>4, <2>5 DEF LevelOK
<1> QED BY <1>6, <1>9, <1>12, <1>13, <1>14 DEF PinInv

LEMMA StepPins == PinInv /\ [BoardNext]_board => PinInv'
<1> SUFFICES ASSUME PinInv, [BoardNext]_board PROVE PinInv'
  OBVIOUS
<1>0. Early /\ DIOTypeOK /\ User = Caller /\ Main \in User
  BY PinsApart DEF PinInv
<1>1. CASE UNCHANGED board
  <2>1. UNCHANGED dio /\ UNCHANGED <<started, ticking, lit, mainPC, toInit>>
    BY <1>1 DEF board, table, dio
  <2>2. Early'
    BY <2>1, <1>0 DEF Early
  <2> QED BY <2>1, <2>2, DioUnchanged
<1>2. CASE Boot
  <2>1. CASE MainStep("heap", "leds") /\ RTHeapInit /\ UNCHANGED <<table, dio, toInit>>
    <3>1. /\ UNCHANGED dio /\ UNCHANGED <<started, ticking, lit, toInit>>
          /\ mainPC = "heap" /\ mainPC' = "leds"
      BY <2>1 DEF MainStep, table, dio
    <3>2. Early'
      BY <3>1, <1>0 DEF Early
    <3> QED BY <3>1, <3>2, DioUnchanged
  <2>2. CASE MainStep("leds", "lit") /\ RTLEDInit(Main) /\ UNCHANGED <<vars, table, toInit>>
    <3>1. /\ InitPins(Main, LEDPins) /\ rtLedCount' = Len(LEDPins)
          /\ UNCHANGED <<started, ticking, lit, toInit>> /\ mainPC = "leds" /\ mainPC' = "lit"
      BY <2>2 DEF MainStep, table, RTLEDInit, InitPins
    <3>2. Early'
      BY <3>1, <1>0 DEF Early
    <3>3. \A v \in User \ {Main} : MyTags(v)' = MyTags(v) /\ MyPins(v)' = MyPins(v)
      BY SameTags
    <3>4. \A n \in 1 .. Len(LEDPins) : LEDPins[n] \in MyTags(Main)'
      BY <3>1 DEF MyTags, LEDTags
    <3>5. LEDPins \in Seq(InitTag)
      BY LEDAssumption
    <3> QED BY <3>1, <3>2, <3>3, <3>4, <3>5, <1>0, InitPinsInv
  <2>3. CASE /\ MainStep("lit", "lit2") /\ RTLEDSet(Main, LitFirst[1], TRUE)
             /\ UNCHANGED <<vars, table, toInit>>
    <3>1. mainPC = "lit" /\ mainPC' = "lit2" /\ UNCHANGED <<started, ticking, toInit>>
      BY <2>3 DEF MainStep, table
    <3>2. Early'
      BY <3>1, <1>0 DEF Early
    <3>3. LitFirst[1] \in Nat
      BY BoardAssumption
    <3> QED BY <2>3, <3>1, <3>2, <3>3, <1>0, LEDSetInv
  <2>4. CASE /\ MainStep("lit2", "usb") /\ RTLEDSet(Main, LitFirst[2], TRUE)
             /\ UNCHANGED <<vars, table, toInit>>
    <3>1. mainPC = "lit2" /\ mainPC' = "usb" /\ UNCHANGED <<started, ticking, toInit>>
      BY <2>4 DEF MainStep, table
    <3>2. Early'
      BY <3>1, <1>0 DEF Early
    <3>3. LitFirst[2] \in Nat
      BY BoardAssumption
    <3> QED BY <2>4, <3>1, <3>2, <3>3, <1>0, LEDSetInv
  <2>5. CASE /\ MainStep("usb", "tasks") /\ InitPins(Main, USBPins)
             /\ UNCHANGED <<vars, table, toInit, rtLedCount>>
    <3>1. /\ mainPC = "usb" /\ mainPC' = "tasks" /\ rtLedCount' = rtLedCount
          /\ UNCHANGED <<started, ticking, toInit>>
      BY <2>5 DEF MainStep, table
    <3>2. Early'
      BY <3>1, <1>0 DEF Early
    <3>3. \A v \in User \ {Main} : MyTags(v)' = MyTags(v) /\ MyPins(v)' = MyPins(v)
      BY SameTags
    <3>4. \A n \in 1 .. Len(USBPins) : USBPins[n] \in MyTags(Main)'
      BY DEF MyTags, OwnTags
    <3>5. USBPins \in Seq(InitTag) /\ rtLedCount \in {0, Len(LEDPins)}
      BY <1>0, BoardAssumption DEF DIOTypeOK
    <3> QED BY <2>5, <3>1, <3>2, <3>3, <3>4, <3>5, <1>0, InitPinsInv
  <2> QED BY <1>2, <2>1, <2>2, <2>3, <2>4, <2>5 DEF Boot
<1>3. CASE mainPC = "tasks" /\ Start /\ UNCHANGED <<dio, mainPC, toInit>>
  <2>1. Early'
    BY <1>3, <1>0 DEF Early
  <2> QED BY <1>3, <2>1, DioUnchanged
<1>4. ASSUME NEW p \in Caller, NewCall(p) PROVE PinInv'
  <2>1. mainPC' = mainPC /\ (p = Main => mainPC = "tasks") /\ TaskCall(p)
    BY <1>4 DEF NewCall
  <2>2. Idle(p) => mainPC = "tasks"
    BY <2>1, <1>0 DEF Idle, Runs, Early
  <2>3. CASE (RTTaskCreate(p) \/ OwnMalloc(p)) /\ UNCHANGED <<dio, toInit>>
    <3>1. UNCHANGED dio /\ UNCHANGED <<started, ticking, lit, toInit>>
      BY <2>3 DEF RTTaskCreate, OwnMalloc, dio
    <3>2. Early'
      BY <3>1, <2>1, <1>0 DEF Early
    <3> QED BY <3>1, <3>2, <2>1, DioUnchanged
  <2>4. CASE /\ Idle(p) /\ InitPins(p, TaskPins[p]) /\ toInit' = toInit \ {p}
             /\ UNCHANGED <<vars, table, rtLedCount>>
    <3>1. UNCHANGED <<started, ticking>> /\ rtLedCount' = rtLedCount
      BY <2>4 DEF table
    <3>2. Early'
      BY <2>1, <2>2, <2>4, <3>1, <1>0 DEF Early
    <3>3. \A v \in User : MyTags(v)' = MyTags(v) /\ MyPins(v)' = MyPins(v)
      BY <2>1, SameTags
    <3>4. \A n \in 1 .. Len(TaskPins[p]) : TaskPins[p][n] \in MyTags(p)'
      BY DEF MyTags, OwnTags
    <3>5. TaskPins[p] \in Seq(InitTag) /\ rtLedCount \in {0, Len(LEDPins)}
      BY <1>0, BoardAssumption DEF DIOTypeOK
    <3> QED BY <2>1, <2>4, <3>1, <3>2, <3>3, <3>4, <3>5, <1>0, InitPinsInv
  <2>5. CASE /\ Idle(p) /\ UNCHANGED <<vars, table, toInit>>
             /\ \E n \in Uses[p] : RTLEDToggle(p, n) \/ \E on \in BOOLEAN : RTLEDSet(p, n, on)
    <3>1. mainPC = "tasks" /\ UNCHANGED <<started, ticking, toInit>>
      BY <2>2, <2>5 DEF table
    <3>2. Early'
      BY <2>1, <3>1, <1>0 DEF Early
    <3>3. Uses[p] \subseteq Nat
      BY BoardAssumption
    <3> QED BY <2>1, <2>5, <3>1, <3>2, <3>3, <1>0, LEDSetInv, ToggleInv
  <2> QED BY <2>1, <2>3, <2>4, <2>5 DEF TaskCall
<1>5. ASSUME NEW p \in Caller, TableStep(p) PROVE PinInv'
  <2>1. UNCHANGED dio /\ UNCHANGED <<started, ticking, mainPC, toInit, lit>>
    BY <1>5 DEF TableStep, CreateStep, Scan, Malloc, Fill, RTTaskCreateImpl, Publish, MallocStep, dio
  <2>2. Early'
    BY <2>1, <1>0 DEF Early
  <2> QED BY <2>1, <2>2, DioUnchanged
<1>6. ASSUME NEW p \in Caller, PinStep(p) PROVE PinInv'
  <2>1. UNCHANGED <<started, ticking, mainPC, toInit>> /\ DIOStep(p)
    BY <1>6 DEF PinStep, table
  <2>2. CASE DIOInit(p)
    <3>1. Early'
      BY <2>1, <2>2, <1>0 DEF Early, DIOInit
    <3> QED BY <2>1, <2>2, <3>1, <1>0, DIOInitInv
  <2>3. CASE WriteLevel(p)
    <3>1. Early'
      BY <2>1, <2>3, <1>0 DEF Early, WriteLevel
    <3> QED BY <2>1, <2>3, <3>1, <1>0, WriteLevelInv
  <2>4. CASE WriteToggle(p)
    <3>1. mainPC = "tasks"
      <4>1. writes[p] # <<>> /\ First(p).reg = "TOGGLE"
        BY <2>4 DEF WriteToggle
      <4>2. 1 \in 1 .. Len(writes[p]) /\ writes[p][1].reg = "TOGGLE"
        BY <4>1, <1>0, PinTypes, TailIs DEF First
      <4>3. \A pin \in MyPins(p) : ~Initing(p, pin)
        BY <4>2 DEF Initing, InitSeq
      <4> QED BY <4>1, <4>3, <1>0 DEF PinInv, QueueOK
    <3>2. Early'
      BY <2>1, <3>1, <1>0 DEF Early
    <3> QED BY <2>1, <2>4, <3>2, <1>0, WriteToggleInv
  <2>5. CASE ReadMode(p)
    <3>1. Early'
      BY <2>1, <2>5, <1>0 DEF Early, ReadMode
    <3> QED BY <2>1, <2>5, <3>1, <1>0, ReadModeInv
  <2>6. CASE WriteMode(p)
    <3>1. Early'
      BY <2>1, <2>6, <1>0 DEF Early, WriteMode
    <3> QED BY <2>1, <2>6, <3>1, <1>0, WriteModeInv
  <2> QED BY <2>1, <2>2, <2>3, <2>4, <2>5, <2>6 DEF DIOStep
<1> QED BY <1>1, <1>2, <1>3, <1>4, <1>5, <1>6 DEF BoardNext

\* LedsShow: an LED that is driven shows what its owner last asked for, and
\* is dark before that, whatever the other tasks do to the port.
THEOREM LEDsRight == BoardSpec => []LedsShow
<1>1. PinInv => LedsShow
  BY DEF PinInv, LedsShow, LevelOK, Level
<1> QED BY InitPinInv, StepPins, <1>1, PTL DEF BoardSpec

\* PinsConfigured: a pin that nobody is setting up is in the mode that it was
\* last given, unless its MODER was changed while another pin's was.
THEOREM PinsRight == BoardSpec => []PinsConfigured
<1>1. PinInv => PinsConfigured
  <2> SUFFICES ASSUME PinInv, NEW p \in Pin \ raced,
                      \A u \in User : \A n \in DOMAIN writes[u] : writes[u][n].pin # p
               PROVE  moder[p] = mode[p]
    BY DEF PinsConfigured
  <2>1. ASSUME NEW u \in User, Initing(u, p) PROVE FALSE
    <3>1. writes[u] \in Seq(RegChange) /\ writes[u] # <<>>
      BY <2>1, PinTypes DEF PinInv, Initing, InitSeq
    <3>2. 1 \in 1 .. Len(writes[u]) /\ DOMAIN writes[u] = 1 .. Len(writes[u])
      BY <3>1, TailIs
    <3> QED BY <2>1, <3>2 DEF Initing, InitSeq
  <2> QED BY <2>1 DEF PinInv, Modes
<1> QED BY InitPinInv, StepPins, <1>1, PTL DEF BoardSpec

-----------------------------------------------------------------------------
(* Type correctness.                                                       *)

TableTypes ==
  /\ taskTable \in [Slot -> Caller \cup {NULL}]
  /\ taskId \in [Caller -> 0 .. TASK_MAX] /\ framed \subseteq Caller
  /\ at \in [Caller -> {"idle", "scan", "malloc", "again", "fill", "frame", "publish"}]
  /\ func \in [Caller -> Caller \cup {NULL}]
  /\ i \in [Caller -> 0 .. TASK_MAX + 1] /\ task \in [Caller -> BOOLEAN]
  /\ todo \in [Caller -> Seq(Caller)] /\ ask \in [Caller -> SUBSET Sizes]
  /\ {ticking, started, fault} \subseteq BOOLEAN /\ overlap \subseteq Caller

LEMMA InitTypes == BoardInit => TableTypes
<1> SUFFICES ASSUME BoardInit PROVE TableTypes
  OBVIOUS
<1>1. RecordType
  BY InitTable DEF TableInv
<1>2. TableInit
  BY DEF BoardInit
<1>3. /\ taskId \in [Caller -> 0 .. TASK_MAX] /\ framed \subseteq Caller
      /\ at \in [Caller -> {"idle", "scan", "malloc", "again", "fill", "frame", "publish"}]
      /\ func \in [Caller -> Caller \cup {NULL}]
  BY <1>2 DEF TableInit
<1>4. /\ i \in [Caller -> 0 .. TASK_MAX + 1] /\ task \in [Caller -> BOOLEAN]
      /\ ask \in [Caller -> SUBSET Sizes]
  BY <1>2 DEF TableInit
<1>5. {ticking, started, fault} \subseteq BOOLEAN /\ overlap \subseteq Caller
  BY <1>2 DEF TableInit
<1> QED BY <1>1, <1>3, <1>4, <1>5 DEF RecordType, TableTypes

LEMMA StepTypes ==
  ASSUME TableTypes, TableInv, TableInv', KeptInv, [BoardNext]_board
  PROVE  TableTypes'
<1>0. /\ taskTable' \in [Slot -> Caller \cup {NULL}] /\ todo' \in [Caller -> Seq(Caller)]
      /\ TASK_MAX \in Nat \ {0} /\ Slot = 1 .. TASK_MAX
  BY DEF TableInv, RecordType, Slot
<1>1. ASSUME UNCHANGED table PROVE TableTypes'
  BY <1>1 DEF table, TableTypes
<1>2. ASSUME NEW p \in Caller, RTTaskCreate(p) PROVE TableTypes'
  <2>1. PICK f : f = Head(todo[p])
    OBVIOUS
  <2>2. f \in Caller
    BY <1>2, <2>1, TakenFromList DEF TableInv
  <2>3. overlap' \subseteq Caller
    <3>1. {func[q] : q \in Creating} \subseteq Caller
      BY DEF Creating, TableInv, OncePerTask
    <3>2. \/ overlap' = overlap
          \/ overlap' = overlap \cup {func[q] : q \in Creating} \cup {f}
      BY <1>2, <2>1 DEF RTTaskCreate
    <3>3. overlap \subseteq Caller
      BY DEF TableTypes
    <3>4. overlap \cup {func[q] : q \in Creating} \cup {f} \subseteq Caller
      BY <2>2, <3>1, <3>3, Zenon
    <3> QED BY <3>2, <3>3, <3>4, Zenon
  <2>4. /\ at' = [at EXCEPT ![p] = "scan"] /\ func' = [func EXCEPT ![p] = f]
        /\ i' = [i EXCEPT ![p] = 1]
        /\ UNCHANGED <<taskId, framed, task, ask, ticking, started, fault>>
    BY <1>2, <2>1 DEF RTTaskCreate, Set
  <2>5. at' \in [Caller -> {"idle", "scan", "malloc", "again", "fill", "frame", "publish"}]
    BY <2>4 DEF TableTypes
  <2>6. func' \in [Caller -> Caller \cup {NULL}]
    BY <2>2, <2>4 DEF TableTypes
  <2>7. i' \in [Caller -> 0 .. TASK_MAX + 1]
    BY <2>4, <1>0 DEF TableTypes
  <2>8. {ticking', started', fault'} \subseteq BOOLEAN
    BY <2>4 DEF TableTypes
  <2> QED BY <2>3, <2>4, <2>5, <2>6, <2>7, <2>8, <1>0 DEF TableTypes
<1>3. ASSUME NEW p \in Caller, OwnMalloc(p) PROVE TableTypes'
  <2>1. PICK n \in ask[p] : ask' = [ask EXCEPT ![p] = ask[p] \ {n}]
    BY <1>3 DEF OwnMalloc, Set
  <2>2. ask' \in [Caller -> SUBSET Sizes]
    BY <2>1 DEF TableTypes
  <2> QED BY <1>3, <2>2 DEF OwnMalloc, TableTypes
<1>4. ASSUME Start PROVE TableTypes'
  BY <1>4 DEF Start, RTEnableSystick, FirstSwitch, TableTypes
<1>5. ASSUME NEW p \in Caller, CreateStep(p) PROVE TableTypes'
  <2>1. CASE Scan(p)
    <3>1. at' \in [Caller -> {"idle", "scan", "malloc", "again", "fill", "frame", "publish"}]
      BY <2>1 DEF Scan, Step, Set, TableTypes
    <3>2. i' \in [Caller -> 0 .. TASK_MAX + 1]
      <4>1. CASE i' = i
        BY <4>1 DEF TableTypes
      <4>2. CASE i[p] \in Slot /\ i' = [i EXCEPT ![p] = i[p] + 1]
        <5>1. i[p] + 1 \in 0 .. TASK_MAX + 1
          BY <4>2, <1>0
        <5> QED BY <4>2, <5>1 DEF TableTypes
      <4> QED BY <2>1, <4>1, <4>2 DEF Scan, Set
    <3>3. UNCHANGED <<taskTable, taskId, framed, func, task, todo, ask, ticking, started, fault, overlap>>
      BY <2>1 DEF Scan
    <3> QED BY <3>1, <3>2, <3>3, <1>0 DEF TableTypes
  <2>2. CASE Malloc(p)
    <3>1. at' \in [Caller -> {"idle", "scan", "malloc", "again", "fill", "frame", "publish"}]
      BY <2>2 DEF Malloc, Step, Set, TableTypes
    <3> QED BY <2>2, <3>1 DEF Malloc, TableTypes
  <2>3. CASE Fill(p)
    <3>1. at' \in [Caller -> {"idle", "scan", "malloc", "again", "fill", "frame", "publish"}]
      BY <2>3 DEF Fill, Step, Set, TableTypes
    <3>2. at[p] = "fill" /\ at[p] \notin {"idle", "scan"}
      BY <2>3 DEF Fill, Step
    <3>3. i[p] \in Slot
      BY <3>2 DEF KeptInv, Targets
    <3>4. i[p] \in 0 .. TASK_MAX
      BY <3>3, <1>0
    <3>5. taskId' \in [Caller -> 0 .. TASK_MAX]
      <4>1. taskId' = taskId \/ taskId' = [taskId EXCEPT ![func[p]] = i[p]]
        BY <2>3 DEF Fill, Set
      <4> QED BY <4>1, <3>4 DEF TableTypes
    <3>6. fault' \in BOOLEAN
      <4>1. fault' = fault \/ fault' = TRUE
        BY <2>3 DEF Fill
      <4> QED BY <4>1 DEF TableTypes
    <3>7. UNCHANGED <<taskTable, framed, func, i, task, todo, ask, ticking, started, overlap>>
      BY <2>3 DEF Fill
    <3> QED BY <3>1, <3>5, <3>6, <3>7, <1>0 DEF TableTypes
  <2>4. CASE RTTaskCreateImpl(p)
    <3>1. at' \in [Caller -> {"idle", "scan", "malloc", "again", "fill", "frame", "publish"}]
      BY <2>4 DEF RTTaskCreateImpl, Step, Set, TableTypes
    <3>2. func[p] \in Caller
      BY <2>4 DEF RTTaskCreateImpl, Step, TableInv, OncePerTask
    <3> QED BY <2>4, <3>1, <3>2 DEF RTTaskCreateImpl, TableTypes
  <2>5. CASE Publish(p)
    <3>1. at' \in [Caller -> {"idle", "scan", "malloc", "again", "fill", "frame", "publish"}]
      BY <2>5 DEF Publish, Step, Set, TableTypes
    <3> QED BY <2>5, <3>1, <1>0 DEF Publish, TableTypes
  <2>6. CASE MallocStep(p)
    <3>1. task' \in [Caller -> BOOLEAN]
      BY <2>6 DEF MallocStep, Set, TableTypes
    <3> QED BY <2>6, <3>1 DEF MallocStep, TableTypes
  <2> QED BY <1>5, <2>1, <2>2, <2>3, <2>4, <2>5, <2>6 DEF CreateStep
<1>6. CASE Boot \/ UNCHANGED board \/ \E p \in Caller : PinStep(p)
  BY <1>1, <1>6 DEF Boot, board, PinStep
<1>7. ASSUME NEW p \in Caller, NewCall(p) PROVE TableTypes'
  BY <1>1, <1>2, <1>3, <1>7 DEF NewCall, TaskCall
<1>8. ASSUME NEW p \in Caller, TableStep(p) PROVE TableTypes'
  BY <1>5, <1>8 DEF TableStep
<1> QED BY <1>4, <1>6, <1>7, <1>8 DEF BoardNext

\* BoardTypeOK: the board's state keeps its types, an id within the table and
\* HeapPos within the heap among them (sums that do not wrap).
THEOREM BoardTypesCorrect == ASSUME NoWrap PROVE BoardSpec => []BoardTypeOK
<1> DEFINE I == /\ AskType /\ Inv /\ TableInv /\ KeptInv /\ PinInv /\ TableTypes
<1>1. BoardInit => I
  <2> SUFFICES ASSUME BoardInit PROVE I
    OBVIOUS
  <2>1. AskType /\ Inv
    BY InitInv DEF BoardInit, TableInit, AskType
  <2> QED BY <2>1, InitTable, InitKept, InitPinInv, InitTypes
<1>2. I /\ [BoardNext]_board => I'
  <2> SUFFICES ASSUME I, [BoardNext]_board PROVE I'
    OBVIOUS
  <2>1. AskType' /\ Inv'
    BY HeapStep, StepInv
  <2>2. TableInv'
    BY BoardStep
  <2>3. KeptInv'
    BY <2>2, StepKept
  <2>4. PinInv'
    BY StepPins
  <2>5. TableTypes'
    BY <2>2, StepTypes
  <2> QED BY <2>1, <2>2, <2>3, <2>4, <2>5
<1>3. I => BoardTypeOK
  BY DEF Inv, PinInv, Early, TableTypes, BoardTypeOK, TableTypeOK
<1> QED BY <1>1, <1>2, <1>3, PTL DEF BoardSpec
=============================================================================
