-------------------------- MODULE GpioSysfsProofs --------------------------
(***************************************************************************)
(* The safety properties of GpioSysfs for any number of children and any   *)
(* processes.                                                              *)
(***************************************************************************)
EXTENDS GpioSysfs, TLAPS

\* The private data that exists while probe runs, and the bounds of its cursor.
ProbeInv ==
    /\ lpc \in {"child", "create"} => i <= child
    /\ lpc = "child" => data \subseteq 0..child - 1
    /\ lpc = "create" => child \in available /\ child \in data /\ data \subseteq 0..child
    /\ lpc = "drain" => i < N
    /\ lpc \in {"unloaded", "unbound", "count", "exit"} => data = {}

\* If all the children are available, probe leaves no entry of dev empty.
DevInv ==
    available = Child =>
        /\ lpc \in {"child", "create"} => i = child /\ \A j \in 0..i - 1 : dev[j] # NULL
        /\ lpc \in {"bound", "hide", "drain"} => \A j \in Child : dev[j] # NULL
        /\ lpc = "oops" => ~array

\* A handler runs on data that exists, and owns its mutex when it has taken it.
HandlerInv ==
    \A p \in Proc :
        /\ pc[p] \in {"wait", "locked", "unlock"} => gpio[p] \in data
        /\ pc[p] \in {"locked", "unlock"} => lock[gpio[p]] = p

\* The files whose handlers may still run.
Reachable == files \cup (IF lpc = "drain" THEN {dev[i]} ELSE {})

\* Until a probe has failed half way: every file is of a device in dev that
\* remove has still to unregister, and every handler is of such a file, or of
\* the device that remove waits for.
FilesInv ==
    ~partial =>
        /\ \A p \in Proc : pc[p] # "idle" => gpio[p] \in Reachable
        /\ lpc \in {"unloaded", "unbound", "count", "exit"} => files = {}
        /\ lpc \in {"child", "create", "bound"} =>
               \A g \in files : \E j \in 0..i - 1 : dev[j] = g
        /\ lpc = "hide" => \A g \in files : \E j \in i..N - 1 : dev[j] = g
        /\ lpc = "drain" => \A g \in files : \E j \in i + 1..N - 1 : dev[j] = g

IInv ==
    /\ TypeOK /\ ProbeInv /\ DevInv /\ HandlerInv /\ FilesInv
    /\ FilesHaveData

USE NAssumption, FreeAssumption

-----------------------------------------------------------------------------
(* the initial states *)

LEMMA InitInv == Init => IInv
<1> SUFFICES ASSUME Init PROVE IInv
  OBVIOUS
<1>1. TypeOK
  <2>1. 0 \in Child /\ NULL \in 0..N
    BY DEF Child, NULL
  <2>2. /\ dev \in [Child -> 0..N] /\ lock \in [Child -> Proc \cup {Free}]
        /\ pc \in [Proc -> {"idle", "wait", "locked", "unlock", "undefined"}]
        /\ gpio \in [Proc -> Child]
    BY <2>1 DEF Init
  <2>3. child \in 0..N /\ i \in 0..N
    BY DEF Init
  <2> QED
    BY <2>2, <2>3 DEF Init, TypeOK
<1>2. ProbeInv
  BY DEF Init, ProbeInv
<1>3. DevInv
  BY DEF Init, DevInv
<1>4. HandlerInv
  BY DEF Init, HandlerInv
<1>5. FilesInv
  BY DEF Init, FilesInv
<1>6. FilesHaveData
  BY DEF Init, FilesHaveData
<1> QED
  BY <1>1, <1>2, <1>3, <1>4, <1>5, <1>6 DEF IInv

-----------------------------------------------------------------------------
(* init and probe *)

\* The device is probed, or stays unbound; no file is there.
LEMMA InitStep ==
  ASSUME IInv, GpioSysfsInit \/ Bind \/ ExitUnbound
  PROVE  IInv'
<1> USE DEF GpioSysfsInit, Bind, ExitUnbound, loader, handler
<1>1. TypeOK'
  BY DEF IInv, TypeOK, Running, Child, NULL
<1>2. ProbeInv'
  BY DEF IInv, TypeOK, ProbeInv, Child
<1>3. DevInv'
  BY DEF IInv, TypeOK, ProbeInv, DevInv, Child, NULL
<1>4. HandlerInv'
  BY DEF IInv, TypeOK, ProbeInv, HandlerInv, Child
<1>5. FilesInv'
  BY DEF IInv, TypeOK, ProbeInv, FilesInv, FilesHaveData, Reachable, Child
<1>6. FilesHaveData'
  BY DEF IInv, TypeOK, ProbeInv, FilesInv, FilesHaveData, Reachable, Child
<1> QED
  BY <1>1, <1>2, <1>3, <1>4, <1>5, <1>6 DEF IInv

\* probe begins without files and data.
LEMMA CountStep ==
  ASSUME IInv, ProbeCount
  PROVE  IInv'
<1> USE DEF ProbeCount, loader, handler
<1>1. TypeOK'
  BY DEF IInv, TypeOK, Running, Child, NULL
<1>2. ProbeInv'
  BY DEF IInv, TypeOK, ProbeInv, Child
<1>3. DevInv'
  BY DEF IInv, TypeOK, ProbeInv, DevInv, Child, NULL
<1>4. HandlerInv'
  BY DEF IInv, TypeOK, ProbeInv, HandlerInv, Child
<1>5. FilesInv'
  BY DEF IInv, TypeOK, ProbeInv, FilesInv, FilesHaveData, Reachable, Child
<1>6. FilesHaveData'
  BY DEF IInv, TypeOK, ProbeInv, FilesInv, FilesHaveData, Reachable, Child
<1> QED
  BY <1>1, <1>2, <1>3, <1>4, <1>5, <1>6 DEF IInv

\* A child that is passed over leaves dev behind the cursor.
LEMMA SkipStep ==
  ASSUME IInv, ProbeSkip
  PROVE  IInv'
<1> USE DEF ProbeSkip, loader, handler
<1>1. TypeOK'
  BY DEF IInv, TypeOK, Running, Child, NULL
<1>2. ProbeInv'
  BY DEF IInv, TypeOK, ProbeInv, Child
<1>3. DevInv'
  BY DEF IInv, TypeOK, ProbeInv, DevInv, Child, NULL
<1>4. HandlerInv'
  BY DEF IInv, TypeOK, ProbeInv, HandlerInv, Child
<1>5. FilesInv'
  BY DEF IInv, TypeOK, ProbeInv, FilesInv, FilesHaveData, Reachable, Child
<1>6. FilesHaveData'
  BY DEF IInv, TypeOK, ProbeInv, FilesInv, FilesHaveData, Reachable, Child
<1> QED
  BY <1>1, <1>2, <1>3, <1>4, <1>5, <1>6 DEF IInv

\* The mutex that is initialised is of a child no handler works on.
LEMMA ChildStep ==
  ASSUME IInv, ProbeChild
  PROVE  IInv'
<1> USE DEF ProbeChild, loader, handler
<1>1. TypeOK'
  BY DEF IInv, TypeOK, Running, Child, NULL
<1>2. ProbeInv'
  BY DEF IInv, TypeOK, ProbeInv, Child
<1>3. DevInv'
  BY DEF IInv, TypeOK, ProbeInv, DevInv, Child, NULL
<1>4. HandlerInv'
  BY DEF IInv, TypeOK, ProbeInv, HandlerInv, Child
<1>5. FilesInv'
  BY DEF IInv, TypeOK, ProbeInv, FilesInv, FilesHaveData, Reachable, Child
<1>6. FilesHaveData'
  BY DEF IInv, TypeOK, ProbeInv, FilesInv, FilesHaveData, Reachable, Child
<1> QED
  BY <1>1, <1>2, <1>3, <1>4, <1>5, <1>6 DEF IInv

\* A probe that fails before its first file leaves no file and no handler.
LEMMA FailsStep ==
  ASSUME IInv, ProbeChildFails \/ ProbeCreateFails
  PROVE  IInv'
<1> USE DEF ProbeChildFails, ProbeCreateFails, ProbeFails, Freed, loader, handler
<1>1. TypeOK'
  BY DEF IInv, TypeOK, Running, Child, NULL
<1>2. ProbeInv'
  BY DEF IInv, TypeOK, ProbeInv, Child
<1>3. DevInv'
  BY DEF IInv, TypeOK, ProbeInv, DevInv, Child, NULL
<1>4. HandlerInv'
  BY DEF IInv, TypeOK, ProbeInv, HandlerInv, Child
<1>5. FilesInv'
  <2>1. /\ lpc \in {"child", "create"} /\ lpc' = "unbound"
        /\ files' = files /\ gpio' = gpio /\ (~partial' => ~partial /\ files = {})
        /\ \A p \in Proc : pc'[p] # "idle" => pc[p] # "idle"
    OBVIOUS
  <2>2. ~partial /\ files = {} => \A p \in Proc : pc[p] = "idle"
    BY <2>1 DEF IInv, FilesInv, Reachable
  <2> QED
    BY <2>1, <2>2 DEF FilesInv
<1>6. FilesHaveData'
  BY DEF IInv, TypeOK, ProbeInv, FilesInv, FilesHaveData, Reachable, Child
<1> QED
  BY <1>1, <1>2, <1>3, <1>4, <1>5, <1>6 DEF IInv

\* The new file is of the new entry of dev.
LEMMA CreateStep ==
  ASSUME IInv, ProbeCreate
  PROVE  IInv'
<1> USE DEF ProbeCreate, loader, handler
<1>1. TypeOK'
  <2>1. i \in Child /\ i + 1 \in 0..N /\ child \in Child /\ child + 1 \in 0..N
    BY DEF IInv, TypeOK, ProbeInv, Child
  <2>2. dev' \in [Child -> 0..N]
    BY <2>1 DEF IInv, TypeOK, Child
  <2> QED
    BY <2>1, <2>2 DEF IInv, TypeOK, Running
<1>2. ProbeInv'
  BY DEF IInv, TypeOK, ProbeInv, Child
<1>3. DevInv'
  <2>1. i \in Child /\ child \in Child /\ child # NULL /\ dev \in [Child -> 0..N]
    BY DEF IInv, TypeOK, ProbeInv, Child, NULL
  <2> QED
    BY <2>1 DEF IInv, TypeOK, ProbeInv, DevInv, Child
<1>4. HandlerInv'
  BY DEF IInv, TypeOK, ProbeInv, HandlerInv, Child
<1>5. FilesInv'
  <2>1. i \in Child /\ dev \in [Child -> 0..N]
    BY DEF IInv, TypeOK, ProbeInv, Child
  <2>2. dev'[i] = child /\ \A j \in 0..i - 1 : dev'[j] = dev[j]
    BY <2>1 DEF Child
  <2>3. Reachable' = files \cup {child} /\ Reachable = files
    BY DEF Reachable
  <2>4. ~partial => \A g \in files' : \E j \in 0..i' - 1 : dev'[j] = g
    BY <2>1, <2>2 DEF IInv, FilesInv, Child
  <2> QED
    BY <2>3, <2>4 DEF IInv, FilesInv
<1>6. FilesHaveData'
  BY DEF IInv, TypeOK, ProbeInv, FilesInv, FilesHaveData, Reachable, Child
<1> QED
  BY <1>1, <1>2, <1>3, <1>4, <1>5, <1>6 DEF IInv

\* Without the array probe ends.
LEMMA OopsStep ==
  ASSUME IInv, ProbeCreateOops
  PROVE  IInv'
<1> USE DEF ProbeCreateOops, loader, handler
<1>1. TypeOK'
  <2>1. child \in Child
    BY DEF IInv, TypeOK, ProbeInv, Child
  <2>2. files' \subseteq Child
    BY <2>1 DEF IInv, TypeOK
  <2> QED
    BY <2>2 DEF IInv, TypeOK
<1>2. ProbeInv'
  BY DEF IInv, TypeOK, ProbeInv, Child
<1>3. DevInv'
  BY DEF IInv, TypeOK, ProbeInv, DevInv, Child, NULL
<1>4. HandlerInv'
  BY DEF IInv, TypeOK, ProbeInv, HandlerInv, Child
<1>5. FilesInv'
  <2>1. Reachable = files /\ Reachable' = files' /\ files \subseteq files'
    BY DEF Reachable
  <2> QED
    BY <2>1 DEF IInv, FilesInv
<1>6. FilesHaveData'
  BY DEF IInv, TypeOK, ProbeInv, FilesInv, FilesHaveData, Reachable, Child
<1> QED
  BY <1>1, <1>2, <1>3, <1>4, <1>5, <1>6 DEF IInv

\* All the children have been visited.
LEMMA SucceedsStep ==
  ASSUME IInv, ProbeSucceeds
  PROVE  IInv'
<1> USE DEF ProbeSucceeds, loader, handler
<1>1. TypeOK'
  BY DEF IInv, TypeOK, Running, Child, NULL
<1>2. ProbeInv'
  BY DEF IInv, TypeOK, ProbeInv, Child
<1>3. DevInv'
  BY DEF IInv, TypeOK, ProbeInv, DevInv, Child, NULL
<1>4. HandlerInv'
  BY DEF IInv, TypeOK, ProbeInv, HandlerInv, Child
<1>5. FilesInv'
  BY DEF IInv, TypeOK, ProbeInv, FilesInv, FilesHaveData, Reachable, Child
<1>6. FilesHaveData'
  BY DEF IInv, TypeOK, ProbeInv, FilesInv, FilesHaveData, Reachable, Child
<1> QED
  BY <1>1, <1>2, <1>3, <1>4, <1>5, <1>6 DEF IInv

-----------------------------------------------------------------------------
(* remove and exit *)

\* remove begins with the first entry.
LEMMA UnbindStep ==
  ASSUME IInv, Unbind
  PROVE  IInv'
<1> USE DEF Unbind, loader, handler
<1>1. TypeOK'
  BY DEF IInv, TypeOK, Running, Child, NULL
<1>2. ProbeInv'
  BY DEF IInv, TypeOK, ProbeInv, Child
<1>3. DevInv'
  BY DEF IInv, TypeOK, ProbeInv, DevInv, Child, NULL
<1>4. HandlerInv'
  BY DEF IInv, TypeOK, ProbeInv, HandlerInv, Child
<1>5. FilesInv'
  BY DEF IInv, TypeOK, ProbeInv, FilesInv, FilesHaveData, Reachable, Child
<1>6. FilesHaveData'
  BY DEF IInv, TypeOK, ProbeInv, FilesInv, FilesHaveData, Reachable, Child
<1> QED
  BY <1>1, <1>2, <1>3, <1>4, <1>5, <1>6 DEF IInv

\* The file of this entry is hidden; its handlers may go on.
LEMMA HideStep ==
  ASSUME IInv, RemoveHide
  PROVE  IInv'
<1> USE DEF RemoveHide, loader, handler
<1>1. TypeOK'
  <2>1. files' \subseteq files /\ lpc' \in {"oops", "drain"}
    OBVIOUS
  <2> QED
    BY <2>1 DEF IInv, TypeOK, Running
<1>2. ProbeInv'
  BY DEF IInv, TypeOK, ProbeInv, Child
<1>3. DevInv'
  BY DEF IInv, TypeOK, ProbeInv, DevInv, Child, NULL
<1>4. HandlerInv'
  BY DEF IInv, TypeOK, ProbeInv, HandlerInv, Child
<1>5. FilesInv'
  <2>1. Reachable = files /\ files \subseteq Reachable'
    BY DEF Reachable
  <2>2. i \in 0..N - 1 /\ files' \subseteq files
    BY DEF IInv, TypeOK
  <2>3. lpc' = "drain" => dev[i] \notin files'
    OBVIOUS
  <2> QED
    BY <2>1, <2>2, <2>3 DEF IInv, FilesInv
<1>6. FilesHaveData'
  BY DEF IInv, TypeOK, ProbeInv, FilesInv, FilesHaveData, Reachable, Child
<1> QED
  BY <1>1, <1>2, <1>3, <1>4, <1>5, <1>6 DEF IInv

\* The handlers on the hidden file are gone.
LEMMA DrainStep ==
  ASSUME IInv, RemoveDrain
  PROVE  IInv'
<1> USE DEF RemoveDrain, InFlight, loader, handler
<1>1. TypeOK'
  <2>1. i + 1 \in 0..N
    BY DEF IInv, TypeOK, ProbeInv
  <2> QED
    BY <2>1 DEF IInv, TypeOK, Running
<1>2. ProbeInv'
  BY DEF IInv, TypeOK, ProbeInv, Child
<1>3. DevInv'
  BY DEF IInv, TypeOK, ProbeInv, DevInv, Child, NULL
<1>4. HandlerInv'
  BY DEF IInv, TypeOK, ProbeInv, HandlerInv, Child
<1>5. FilesInv'
  <2>1. Reachable = files \cup {dev[i]} /\ Reachable' = files
    BY DEF Reachable
  <2>2. ~partial => \A p \in Proc : pc[p] # "idle" => gpio[p] # dev[i]
    BY DEF IInv, TypeOK, FilesHaveData
  <2> QED
    BY <2>1, <2>2 DEF IInv, FilesInv
<1>6. FilesHaveData'
  BY DEF IInv, TypeOK, ProbeInv, FilesInv, FilesHaveData, Reachable, Child
<1> QED
  BY <1>1, <1>2, <1>3, <1>4, <1>5, <1>6 DEF IInv

\* No file and no handler is left when the data is freed.
LEMMA ReturnsStep ==
  ASSUME IInv, RemoveReturns
  PROVE  IInv'
<1> USE DEF RemoveReturns, Freed, loader, handler
<1>1. TypeOK'
  BY DEF IInv, TypeOK, Running, Child, NULL
<1>2. ProbeInv'
  BY DEF IInv, TypeOK, ProbeInv, Child
<1>3. DevInv'
  BY DEF IInv, TypeOK, ProbeInv, DevInv, Child, NULL
<1>4. HandlerInv'
  BY DEF IInv, TypeOK, ProbeInv, HandlerInv, Child
<1>5. FilesInv'
  BY DEF IInv, TypeOK, ProbeInv, FilesInv, FilesHaveData, Reachable, Child
<1>6. FilesHaveData'
  BY DEF IInv, TypeOK, ProbeInv, FilesInv, FilesHaveData, Reachable, Child
<1> QED
  BY <1>1, <1>2, <1>3, <1>4, <1>5, <1>6 DEF IInv

\* The class goes when nothing is left.
LEMMA ExitStep ==
  ASSUME IInv, GpioSysfsExit
  PROVE  IInv'
<1> USE DEF GpioSysfsExit, loader, handler
<1>1. TypeOK'
  BY DEF IInv, TypeOK, Running, Child, NULL
<1>2. ProbeInv'
  BY DEF IInv, TypeOK, ProbeInv, Child
<1>3. DevInv'
  BY DEF IInv, TypeOK, ProbeInv, DevInv, Child, NULL
<1>4. HandlerInv'
  BY DEF IInv, TypeOK, ProbeInv, HandlerInv, Child
<1>5. FilesInv'
  BY DEF IInv, TypeOK, ProbeInv, FilesInv, FilesHaveData, Reachable, Child
<1>6. FilesHaveData'
  BY DEF IInv, TypeOK, ProbeInv, FilesInv, FilesHaveData, Reachable, Child
<1> QED
  BY <1>1, <1>2, <1>3, <1>4, <1>5, <1>6 DEF IInv

-----------------------------------------------------------------------------
(* the attribute handlers *)

\* A handler begins on a file with its data.
LEMMA EnterStep ==
  ASSUME IInv, NEW p \in Proc, NEW g \in Child, Enter(p, g)
  PROVE  IInv'
<1> USE DEF Enter, Goto, loader, handler
<1>1. TypeOK'
  BY DEF IInv, TypeOK, Running, Child, NULL
<1>2. ProbeInv'
  BY DEF IInv, TypeOK, ProbeInv, Child
<1>3. DevInv'
  BY DEF IInv, TypeOK, ProbeInv, DevInv, Child, NULL
<1>4. HandlerInv'
  BY DEF IInv, TypeOK, ProbeInv, HandlerInv, Child
<1>5. FilesInv'
  BY DEF IInv, TypeOK, ProbeInv, FilesInv, FilesHaveData, Reachable, Child
<1>6. FilesHaveData'
  BY DEF IInv, TypeOK, ProbeInv, FilesInv, FilesHaveData, Reachable, Child
<1> QED
  BY <1>1, <1>2, <1>3, <1>4, <1>5, <1>6 DEF IInv

\* The mutex is taken from nobody.
LEMMA LockStep ==
  ASSUME IInv, NEW p \in Proc, MutexLock(p)
  PROVE  IInv'
<1> USE DEF MutexLock, Goto, loader, handler
<1>1. TypeOK'
  BY DEF IInv, TypeOK, Running, Child, NULL
<1>2. ProbeInv'
  BY DEF IInv, TypeOK, ProbeInv, Child
<1>3. DevInv'
  BY DEF IInv, TypeOK, ProbeInv, DevInv, Child, NULL
<1>4. HandlerInv'
  BY DEF IInv, TypeOK, ProbeInv, HandlerInv, Child
<1>5. FilesInv'
  BY DEF IInv, TypeOK, ProbeInv, FilesInv, FilesHaveData, Reachable, Child
<1>6. FilesHaveData'
  BY DEF IInv, TypeOK, ProbeInv, FilesInv, FilesHaveData, Reachable, Child
<1> QED
  BY <1>1, <1>2, <1>3, <1>4, <1>5, <1>6 DEF IInv

\* The handler keeps its mutex.
LEMMA AccessStep ==
  ASSUME IInv, NEW p \in Proc, Access(p)
  PROVE  IInv'
<1> USE DEF Access, Goto, loader, handler
<1>1. TypeOK'
  BY DEF IInv, TypeOK, Running, Child, NULL
<1>2. ProbeInv'
  BY DEF IInv, TypeOK, ProbeInv, Child
<1>3. DevInv'
  BY DEF IInv, TypeOK, ProbeInv, DevInv, Child, NULL
<1>4. HandlerInv'
  BY DEF IInv, TypeOK, ProbeInv, HandlerInv, Child
<1>5. FilesInv'
  BY DEF IInv, TypeOK, ProbeInv, FilesInv, FilesHaveData, Reachable, Child
<1>6. FilesHaveData'
  BY DEF IInv, TypeOK, ProbeInv, FilesInv, FilesHaveData, Reachable, Child
<1> QED
  BY <1>1, <1>2, <1>3, <1>4, <1>5, <1>6 DEF IInv

\* The mutex that is released is not that of another handler.
LEMMA UnlockStep ==
  ASSUME IInv, NEW p \in Proc, MutexUnlock(p) \/ ValueStoreFails(p)
  PROVE  IInv'
<1> USE DEF MutexUnlock, ValueStoreFails, Goto, loader, handler
<1>1. TypeOK'
  <2>1. gpio[p] \in Child /\ 0 \in Child
    BY DEF IInv, TypeOK, Child
  <2>2. /\ gpio' \in [Proc -> Child]
        /\ pc' \in [Proc -> {"idle", "wait", "locked", "unlock", "undefined"}]
    BY <2>1 DEF IInv, TypeOK
  <2>3. lock' \in [Child -> Proc \cup {Free}] /\ leaked' \subseteq Child
    BY <2>1 DEF IInv, TypeOK
  <2> QED
    BY <2>2, <2>3 DEF IInv, TypeOK
<1>2. ProbeInv'
  BY DEF IInv, TypeOK, ProbeInv, Child
<1>3. DevInv'
  BY DEF IInv, TypeOK, ProbeInv, DevInv, Child, NULL
<1>4. HandlerInv'
  <2>1. pc' = [pc EXCEPT ![p] = "idle"] /\ gpio' = [gpio EXCEPT ![p] = 0] /\ data' = data
    OBVIOUS
  <2>2. pc[p] \in {"locked", "unlock"} /\ \A g \in Child : g # gpio[p] => lock'[g] = lock[g]
    BY DEF IInv, TypeOK
  <2>3. pc'[p] = "idle"
    BY <2>1 DEF IInv, TypeOK
  <2>4. ASSUME NEW q \in Proc, q # p
        PROVE  /\ pc'[q] = pc[q] /\ gpio'[q] = gpio[q]
               /\ pc[q] \in {"locked", "unlock"} => gpio[q] # gpio[p] /\ lock'[gpio[q]] = q
    BY <2>1, <2>2, <2>4 DEF IInv, TypeOK, HandlerInv
  <2> QED
    BY <2>1, <2>3, <2>4 DEF IInv, HandlerInv
<1>5. FilesInv'
  <2>1. /\ Reachable' = Reachable
        /\ \A q \in Proc : pc'[q] # "idle" => q # p /\ pc[q] # "idle" /\ gpio'[q] = gpio[q]
    BY DEF IInv, TypeOK, Reachable
  <2> QED
    BY <2>1 DEF IInv, FilesInv
<1>6. FilesHaveData'
  BY DEF IInv, TypeOK, ProbeInv, FilesInv, FilesHaveData, Reachable, Child
<1> QED
  BY <1>1, <1>2, <1>3, <1>4, <1>5, <1>6 DEF IInv

-----------------------------------------------------------------------------
(* the properties *)

LEMMA StepInv == IInv /\ [Next]_vars => IInv'
<1> SUFFICES ASSUME IInv, [Next]_vars PROVE IInv'
  OBVIOUS
<1>1. CASE UNCHANGED vars
  BY <1>1 DEF vars, loader, handler, IInv, TypeOK, ProbeInv, DevInv, HandlerInv, FilesInv,
              FilesHaveData, Reachable
<1>2. CASE Admin
  BY <1>2, InitStep, UnbindStep DEF Admin
<1>3. CASE Loader
  BY <1>3, CountStep, SkipStep, ChildStep, FailsStep, CreateStep, OopsStep, SucceedsStep,
     HideStep, DrainStep, ReturnsStep, ExitStep DEF Loader
<1>4. CASE \E p \in Proc : MutexLock(p) \/ Handle(p) \/ ValueStoreFails(p)
  BY <1>4, LockStep, AccessStep, UnlockStep DEF Handle
<1>5. CASE \E p \in Proc, g \in Child : Enter(p, g)
  BY <1>5, EnterStep
<1> QED
  BY <1>1, <1>2, <1>3, <1>4, <1>5 DEF Next

\* The invariant the properties follow from, in every reachable state.
THEOREM Invariance == Spec => []IInv
BY InitInv, StepInv, PTL DEF Spec

\* Every variable has its type, through every probe, remove and handler.
THEOREM TypeCorrect == Spec => []TypeOK
<1>1. IInv => TypeOK
  BY DEF IInv
<1> QED
  BY Invariance, <1>1, PTL

\* Two handlers are never at once between mutex_lock and mutex_unlock of the
\* same gpio, in whatever order devices are bound, unbound and probed again.
THEOREM HandlersAreSerialised == Spec => []Serialised
<1>1. IInv => Serialised
  BY DEF IInv, HandlerInv, Serialised
<1> QED
  BY Invariance, <1>1, PTL

\* What devm frees after remove or a failed probe is not in use by a handler
\* and has no file left, unless a probe failed after it made a device.
THEOREM FilesKeepData == Spec => []FilesHaveData
<1>1. IInv => FilesHaveData
  BY DEF IInv
<1> QED
  BY Invariance, <1>1, PTL

\* remove dereferences no empty entry of dev, and probe has an array to store
\* into, if the array was allocated and every child is available.
THEOREM RemoveIsSound == Spec => []RemoveFindsDevices
<1>1. IInv => RemoveFindsDevices
  BY DEF IInv, DevInv, RemoveFindsDevices
<1> QED
  BY Invariance, <1>1, PTL
=============================================================================
