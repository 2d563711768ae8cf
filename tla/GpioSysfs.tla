------------------------------- MODULE GpioSysfs -------------------------------
(***************************************************************************)
(* The gpio driver, src/src/ldd-programming/gpio_sysfs/gpio_sysfs.c: probe *)
(* creates a device with attribute files for each available child of its   *)
(* device tree node, handlers work on one gpio under its mutex, remove     *)
(* unregisters the devices.  The platform device is probed when the module *)
(* is loaded, and may be unbound and bound again through sysfs.            *)
(*                                                                         *)
(* The kernel is external: unregistering a device first hides its files,   *)
(* then waits for the handlers that run on them; what devm allocated goes  *)
(* when probe fails or remove returns.  The levels of the gpios belong to  *)
(* gpiolib and are left out.                                               *)
(***************************************************************************)
EXTENDS Integers, FiniteSets

CONSTANTS
    N,          \* the child nodes of the device tree node
    Proc,       \* processes that read and write the attribute files
    Free        \* no owner of a mutex

ASSUME NAssumption == N \in Nat \ {0}
ASSUME FreeAssumption == Free \notin Proc

VARIABLES
    available,  \* the children whose status is okay
    lpc,        \* where init, probe, remove or exit is
    exiting,    \* is remove called by exit
    class,      \* does the class bone_gpios exist
    child, i,   \* the cursor of probe, and the index of probe and remove
    array,      \* has gpio_drv_data.dev been allocated
    dev,        \* dev[j]: the child in gpio_drv_data.dev[j], N for NULL
    files,      \* the children whose attribute files can be opened
    data,       \* the children whose private data is allocated
    lock,       \* lock[g]: the owner of pcd_lock of g
    pc,         \* pc[p]: idle, wait, locked, unlock, or undefined
    gpio,       \* gpio[p]: the child of the file p uses, while not idle
    partial,    \* history: has a probe failed after it created a device
    leaked      \* history: the children whose mutex a handler left locked

loader == <<lpc, exiting, class, child, i, array, dev>>
handler == <<lock, pc, gpio, leaked>>
vars == <<available, loader, files, data, handler, partial>>

Child == 0..N - 1
NULL == N

\* Unbound is live without its device; oops is a task that died in the kernel.
Running == {"count", "child", "create", "hide", "drain", "exit"}

Init ==
    /\ available \in SUBSET Child
    /\ lpc = "unloaded"
    /\ exiting = FALSE
    /\ class = FALSE
    /\ child = 0
    /\ i = 0
    /\ array = FALSE
    /\ dev = [j \in Child |-> NULL]
    /\ files = {}
    /\ data = {}
    /\ lock = [g \in Child |-> Free]
    /\ pc = [p \in Proc |-> "idle"]
    /\ gpio = [p \in Proc |-> 0]
    /\ partial = FALSE
    /\ leaked = {}

-----------------------------------------------------------------------------
(* init and probe *)

\* class_create may fail, and nothing has happened; the result of
\* platform_driver_register is not looked at.
GpioSysfsInit ==
    /\ lpc = "unloaded"
    /\ class' = TRUE
    /\ lpc' \in {"count", "unbound"}
    /\ UNCHANGED <<available, exiting, child, i, array, dev, files, data, handler, partial>>

\* The device is bound through sysfs.
Bind ==
    /\ lpc = "unbound"
    /\ lpc' = "count"
    /\ UNCHANGED <<available, exiting, class, child, i, array, dev, files, data, handler,
                   partial>>

\* Mutant: the index is not reset.
ProbeCountKeepsIndex ==
    /\ lpc = "count"
    /\ array' \in BOOLEAN
    /\ dev' = [j \in Child |-> NULL]
    /\ child' = 0
    /\ lpc' = "child"
    /\ UNCHANGED <<available, exiting, class, i, files, data, handler, partial>>

\* of_get_child_count, and the array of devices: its allocation is not checked.
ProbeCount ==
    /\ lpc = "count"
    /\ array' \in BOOLEAN
    /\ dev' = [j \in Child |-> NULL]
    /\ child' = 0
    /\ i' = 0
    /\ lpc' = "child"
    /\ UNCHANGED <<available, exiting, class, files, data, handler, partial>>

\* What devm allocated is freed, below files that are still there.
Freed ==
    /\ data' = {}
    /\ pc' = [p \in Proc |-> IF pc[p] = "idle" THEN "idle" ELSE "undefined"]

\* An error return of probe.
ProbeFails ==
    /\ lpc' = "unbound"
    /\ partial' = (partial \/ files # {})
    /\ Freed
    /\ UNCHANGED <<available, exiting, class, child, i, array, dev, files, lock, gpio, leaked>>

\* for_each_available_child_of_node passes over the others.
ProbeSkip ==
    /\ lpc = "child"
    /\ child \in Child \ available
    /\ child' = child + 1
    /\ UNCHANGED <<available, lpc, exiting, class, i, array, dev, files, data, handler,
                   partial>>

\* The private data with its mutex, the label, the descriptor, the direction.
ProbeChild ==
    /\ lpc = "child"
    /\ child \in available
    /\ data' = data \cup {child}
    /\ lock' = [lock EXCEPT ![child] = Free]
    /\ leaked' = leaked \ {child}
    /\ lpc' = "create"
    /\ UNCHANGED <<available, exiting, class, child, i, array, dev, files, pc, gpio, partial>>

ProbeChildFails ==
    /\ lpc = "child"
    /\ child \in available
    /\ ProbeFails

\* Mutant: the index stays where it is.
ProbeCreateInPlace ==
    /\ lpc = "create"
    /\ array
    /\ child \notin files
    /\ files' = files \cup {child}
    /\ dev' = [dev EXCEPT ![i] = child]
    /\ child' = child + 1
    /\ lpc' = "child"
    /\ UNCHANGED <<available, exiting, class, i, array, data, handler, partial>>

\* device_create_with_groups, which fails if a file of that name is left over.
ProbeCreate ==
    /\ lpc = "create"
    /\ array
    /\ child \notin files
    /\ files' = files \cup {child}
    /\ dev' = [dev EXCEPT ![i] = child]
    /\ i' = i + 1
    /\ child' = child + 1
    /\ lpc' = "child"
    /\ UNCHANGED <<available, exiting, class, array, data, handler, partial>>

\* Without the array its result, good or bad, has no place to go.
ProbeCreateOops ==
    /\ lpc = "create"
    /\ ~array
    /\ files' \in {files, files \cup {child}}
    /\ lpc' = "oops"
    /\ UNCHANGED <<available, exiting, class, child, i, array, dev, data, handler, partial>>

ProbeCreateFails ==
    /\ lpc = "create"
    /\ array
    /\ ProbeFails

ProbeSucceeds ==
    /\ lpc = "child"
    /\ child = N
    /\ lpc' = "bound"
    /\ UNCHANGED <<available, exiting, class, child, i, array, dev, files, data, handler,
                   partial>>

-----------------------------------------------------------------------------
(* remove and exit *)

\* The device is unbound through sysfs, or the module unloaded.
Unbind ==
    /\ lpc = "bound"
    /\ lpc' = "hide"
    /\ i' = 0
    /\ exiting' \in BOOLEAN
    /\ UNCHANGED <<available, class, child, array, dev, files, data, handler, partial>>

ExitUnbound ==
    /\ lpc = "unbound"
    /\ lpc' = "exit"
    /\ UNCHANGED <<available, exiting, class, child, i, array, dev, files, data, handler,
                   partial>>

\* The entries behind those that probe has filled are NULL.
RemoveHide ==
    /\ lpc = "hide"
    /\ i < N
    /\ IF dev[i] = NULL
       THEN lpc' = "oops" /\ UNCHANGED files
       ELSE lpc' = "drain" /\ files' = files \ {dev[i]}
    /\ UNCHANGED <<available, exiting, class, child, i, array, dev, data, handler, partial>>

InFlight(g) == {p \in Proc : pc[p] \in {"wait", "locked", "unlock"} /\ gpio[p] = g}

\* Mutant: the loop does not count.
RemoveDrainInPlace ==
    /\ lpc = "drain"
    /\ InFlight(dev[i]) = {}
    /\ lpc' = "hide"
    /\ UNCHANGED <<available, exiting, class, child, i, array, dev, files, data, handler,
                   partial>>

RemoveDrain ==
    /\ lpc = "drain"
    /\ InFlight(dev[i]) = {}
    /\ i' = i + 1
    /\ lpc' = "hide"
    /\ UNCHANGED <<available, exiting, class, child, array, dev, files, data, handler,
                   partial>>

\* Mutant: the loop ends one device early.
RemoveReturnsEarly ==
    /\ lpc = "hide"
    /\ i >= N - 1
    /\ lpc' = IF exiting THEN "exit" ELSE "unbound"
    /\ exiting' = FALSE
    /\ Freed
    /\ UNCHANGED <<available, class, child, i, array, dev, files, lock, gpio, leaked, partial>>

RemoveReturns ==
    /\ lpc = "hide"
    /\ i = N
    /\ lpc' = IF exiting THEN "exit" ELSE "unbound"
    /\ exiting' = FALSE
    /\ Freed
    /\ UNCHANGED <<available, class, child, i, array, dev, files, lock, gpio, leaked, partial>>

\* class_destroy, after platform_driver_unregister.
GpioSysfsExit ==
    /\ lpc = "exit"
    /\ class' = FALSE
    /\ lpc' = "unloaded"
    /\ UNCHANGED <<available, exiting, child, i, array, dev, files, data, handler, partial>>

-----------------------------------------------------------------------------
(* the attribute handlers *)

Goto(p, label) == pc' = [pc EXCEPT ![p] = label]

\* A process reads or writes an attribute file of g.
Enter(p, g) ==
    /\ pc[p] = "idle"
    /\ g \in files \cap data
    /\ gpio' = [gpio EXCEPT ![p] = g]
    /\ Goto(p, "wait")
    /\ UNCHANGED <<available, loader, files, data, lock, leaked, partial>>

\* Mutant: the mutex is not waited for.
MutexLockUnguarded(p) ==
    /\ pc[p] = "wait"
    /\ lock' = [lock EXCEPT ![gpio[p]] = p]
    /\ Goto(p, "locked")
    /\ UNCHANGED <<available, loader, files, data, gpio, leaked, partial>>

MutexLock(p) ==
    /\ pc[p] = "wait"
    /\ lock[gpio[p]] = Free
    /\ lock' = [lock EXCEPT ![gpio[p]] = p]
    /\ Goto(p, "locked")
    /\ UNCHANGED <<available, loader, files, data, gpio, leaked, partial>>

\* What direction_show, direction_store, value_show, value_store and label_show
\* do with the gpio, and the errors they return with the mutex released.
Access(p) ==
    /\ pc[p] = "locked"
    /\ Goto(p, "unlock")
    /\ UNCHANGED <<available, loader, files, data, lock, gpio, leaked, partial>>

\* Mutant: one more return without mutex_unlock.
MutexUnlockForgotten(p) ==
    /\ pc[p] = "unlock"
    /\ Goto(p, "idle")
    /\ gpio' = [gpio EXCEPT ![p] = 0]
    /\ UNCHANGED <<available, loader, files, data, lock, leaked, partial>>

MutexUnlock(p) ==
    /\ pc[p] = "unlock"
    /\ lock' = [lock EXCEPT ![gpio[p]] = Free]
    /\ Goto(p, "idle")
    /\ gpio' = [gpio EXCEPT ![p] = 0]
    /\ UNCHANGED <<available, loader, files, data, leaked, partial>>

\* value_store of something that is no number returns with the mutex locked.
ValueStoreFails(p) ==
    /\ pc[p] = "locked"
    /\ leaked' = leaked \cup {gpio[p]}
    /\ Goto(p, "idle")
    /\ gpio' = [gpio EXCEPT ![p] = 0]
    /\ UNCHANGED <<available, loader, files, data, lock, partial>>

-----------------------------------------------------------------------------
(* the specification *)

Loader ==
    \/ ProbeCount \/ ProbeSkip \/ ProbeChild \/ ProbeChildFails \/ ProbeCreate
    \/ ProbeCreateOops \/ ProbeCreateFails \/ ProbeSucceeds \/ RemoveHide \/ RemoveDrain
    \/ RemoveReturns \/ GpioSysfsExit

Admin == GpioSysfsInit \/ Bind \/ Unbind \/ ExitUnbound

Handle(p) == Access(p) \/ MutexUnlock(p)

Next ==
    \/ Admin \/ Loader
    \/ \E p \in Proc : MutexLock(p) \/ Handle(p) \/ ValueStoreFails(p)
    \/ \E p \in Proc, g \in Child : Enter(p, g)

Spec == Init /\ [][Next]_vars

\* The loader's task and handlers with the mutex keep running; a mutex that is
\* released again and again is handed over to a handler that waits.
FairSpec ==
    /\ Spec
    /\ WF_vars(Loader)
    /\ \A p \in Proc : WF_vars(Handle(p)) /\ SF_vars(MutexLock(p))

-----------------------------------------------------------------------------
(* properties *)

\* Every variable has its type.
TypeOK ==
    /\ available \subseteq Child
    /\ lpc \in Running \cup {"unloaded", "unbound", "bound", "oops"}
    /\ exiting \in BOOLEAN
    /\ class \in BOOLEAN
    /\ child \in 0..N
    /\ i \in 0..N
    /\ array \in BOOLEAN
    /\ dev \in [Child -> 0..N]
    /\ files \subseteq Child
    /\ data \subseteq Child
    /\ lock \in [Child -> Proc \cup {Free}]
    /\ pc \in [Proc -> {"idle", "wait", "locked", "unlock", "undefined"}]
    /\ gpio \in [Proc -> Child]
    /\ partial \in BOOLEAN
    /\ leaked \subseteq Child

\* The handlers on one gpio are serialised, across unbinding and binding again
\* (the mutex of gpio_sysfs.c:26, initialised at 177).
Serialised ==
    \A p, q \in Proc :
        p # q /\ pc[p] \in {"locked", "unlock"} /\ pc[q] \in {"locked", "unlock"}
            => gpio[p] # gpio[q]

\* No handler runs on private data that has been freed, and files whose data is
\* gone cannot be opened: remove takes every file away before it returns, and
\* probe only leaves some behind when it fails after the first
\* (gpio_sysfs.c:220-223 against 170-211).
FilesHaveData ==
    ~partial => /\ \A p \in Proc : pc[p] # "undefined"
                /\ files \subseteq data

\* remove finds a device in every entry it unregisters, if all the children are
\* available and the array was allocated (of_get_child_count at gpio_sysfs.c:160
\* counts all of them, the loop at 170 only the available ones).
RemoveFindsDevices ==
    available = Child /\ array => lpc # "oops"

\* A handler comes back, unless its gpio was left locked by a value that could
\* not be parsed, or its data was freed (gpio_sysfs.c:108-111).
HandlersReturn ==
    \A p \in Proc :
        pc[p] # "idle" ~> pc[p] \in {"idle", "undefined"} \/ gpio[p] \in leaked

\* Loading, unbinding and unloading come to their end, although unregistering
\* waits for handlers: only a mutex left locked can hold them up.
LoaderTerminates ==
    lpc \in Running ~> lpc \notin Running \/ leaked # {}
=============================================================================
