------------------------------ MODULE PcdSingle ------------------------------
(***************************************************************************)
(* The driver of one pseudo character device,                              *)
(* src/src/ldd-programming/pcd/pcd.c: its file operations between loading  *)
(* and unloading.  They are those of PcdOps on one read-write device, with *)
(* one difference: the mutex is waited for with mutex_lock_interruptible,  *)
(* so that a signal ends the wait.  pcd_init and pcd_exit register and     *)
(* unregister one layer at a time, each registration able to fail.         *)
(*                                                                         *)
(* The loader, the VFS and signals are external.  An open resolves the     *)
(* node, then takes a reference on the owner of the cdev, which fails when *)
(* the module is going away; rmmod is refused while there is a reference.  *)
(* The statics of a module are fresh whenever it is loaded.                *)
(***************************************************************************)
EXTENDS PcdOps

\* There is one device, which every mode can open: pcd_open checks nothing.
ASSUME SingleAssumption == \A d, e \in Dev : d = e
ASSUME RdwrAssumption == \A d \in Dev : Perm[d] = "RDWR"

EINTR == -4
EINVAL == -22

VARIABLES
    mod,        \* the module: unloaded, coming, live or going
    ipc,        \* what runs: none, init, its labels (undo), or exit
    step,       \* the registration it is at
    registered, \* the layers that are registered
    fstate,     \* fstate[f]: how far the open of file f is
    signal,     \* signal[p]: has p, which is in a call, a signal pending
    failed      \* history: has a call failed in the driver since it was loaded

loader == <<mod, ipc, step, registered>>
extra == <<loader, fstate, signal, failed>>
singleVars == <<vars, extra>>

SingleInit ==
    /\ Init
    /\ mod = "unloaded" /\ ipc = "none" /\ step = 0
    /\ registered = {}
    /\ fstate = [f \in File |-> "closed"]
    /\ signal = [p \in Proc |-> FALSE]
    /\ failed = FALSE

\* The files for which the module has a reference.
Users == {f \in File : fstate[f] \in {"opening", "open"}}

-----------------------------------------------------------------------------
(* pcd_init and pcd_exit *)

\* What pcd_init registers, in its order.
Layer == <<"region", "cdev", "class", "node">>

\* Mutant: a class that fails leaves through unreg_chrdev.
LabelSkips == <<0, 1, 1, 3>>

\* Label[k]: the label for a failure of registration k (out, unreg_chrdev,
\* cdev_del, cls_destroy), by the layer where the undoing starts.
Label == <<0, 1, 2, 3>>

\* What pcd_exit removes, in its order.
ExitOrder == <<"node", "class", "cdev", "region">>

\* insmod: the buffer is clear and the mutex free.  Bound: an open on its way
\* when the module went is over by now, so that none comes with a stale node
\* between cdev_add and device_create (PcdLifecycle has no such bound).
Insmod ==
    /\ mod = "unloaded"
    /\ \A f \in File : fstate[f] = "closed"
    /\ mod' = "coming" /\ ipc' = "init" /\ step' = 1
    /\ mem' = [d \in Dev |-> [k \in 0..Size[d] - 1 |-> Zero]]
    /\ lock' = [d \in Dev |-> NoProc]
    /\ failed' = FALSE
    /\ UNCHANGED <<files, locals, registered, fstate, signal>>

Register ==
    /\ ipc = "init" /\ step <= 4
    /\ \/ registered' = registered \cup {Layer[step]} /\ step' = step + 1 /\ ipc' = ipc
       \/ registered' = registered /\ step' = Label[step] /\ ipc' = "undo"
    /\ UNCHANGED <<vars, mod, fstate, signal, failed>>

InitSucceeds ==
    /\ ipc = "init" /\ step = 5
    /\ mod' = "live" /\ ipc' = "none" /\ step' = 0
    /\ UNCHANGED <<vars, registered, fstate, signal, failed>>

\* From a label down through the next ones.
Undo ==
    /\ ipc = "undo" /\ step > 0
    /\ registered' = registered \ {Layer[step]}
    /\ step' = step - 1
    /\ UNCHANGED <<vars, mod, ipc, fstate, signal, failed>>

\* return ret: the loader frees the module.
InitFails ==
    /\ ipc = "undo" /\ step = 0
    /\ mod' = "unloaded" /\ ipc' = "none"
    /\ UNCHANGED <<vars, step, registered, fstate, signal, failed>>

\* rmmod of a module without users.
Rmmod ==
    /\ mod = "live" /\ Users = {}
    /\ mod' = "going" /\ ipc' = "exit" /\ step' = 1
    /\ UNCHANGED <<vars, registered, fstate, signal, failed>>

\* The next call of pcd_exit; after the last one the loader frees the module.
PcdExit ==
    /\ ipc = "exit"
    /\ registered' = registered \ {ExitOrder[step]}
    /\ IF step = 4
       THEN mod' = "unloaded" /\ ipc' = "none" /\ step' = 0
       ELSE step' = step + 1 /\ UNCHANGED <<mod, ipc>>
    /\ UNCHANGED <<vars, fstate, signal, failed>>

Loader ==
    Insmod \/ Register \/ InitSucceeds \/ Undo \/ InitFails \/ Rmmod \/ PcdExit

-----------------------------------------------------------------------------
(* files *)

SetState(f, s) == fstate' = [fstate EXCEPT ![f] = s]

\* open(2) resolves the node.
Lookup(f) ==
    /\ fstate[f] = "closed" /\ "node" \in registered
    /\ SetState(f, "lookup")
    /\ UNCHANGED <<vars, loader, signal, failed>>

\* The VFS finds the cdev and takes a reference on its owner, or gives up.
CdevGet(f) ==
    /\ fstate[f] = "lookup"
    /\ SetState(f, IF "cdev" \in registered /\ mod # "going" THEN "opening" ELSE "closed")
    /\ UNCHANGED <<vars, loader, signal, failed>>

SingleOpen(f, d, mode) ==
    /\ fstate[f] = "opening"
    /\ PcdOpen(f, d, mode)
    /\ SetState(f, "open")
    /\ UNCHANGED <<loader, signal, failed>>

SingleRelease(f) ==
    /\ PcdRelease(f)
    /\ SetState(f, "closed")
    /\ UNCHANGED <<loader, signal, failed>>

-----------------------------------------------------------------------------
(* calls *)

\* Mutant: the wait ends through the label that unlocks.
InterruptedUnlocks(p) ==
    /\ pc[p] = "lock" /\ signal[p]
    /\ ret' = [ret EXCEPT ![p] = EINTR]
    /\ pc' = [pc EXCEPT ![p] = "ret"]
    /\ MutexUnlock(p)
    /\ UNCHANGED <<mem, files, arg, pos, count, done, got, extra>>

\* Mutant: signals are looked at when the mutex is free, as if by mutex_lock.
InterruptedWhenFree(p) ==
    /\ pc[p] = "lock" /\ signal[p] /\ lock[DevOf(p)] = NoProc
    /\ ret' = [ret EXCEPT ![p] = EINTR]
    /\ pc' = [pc EXCEPT ![p] = "ret"]
    /\ UNCHANGED <<mem, lock, files, arg, pos, count, done, got, extra>>

\* return -EINTR.  A waiter looks for a signal after each attempt that failed;
\* the mutex may have been released since.  (Whether p has made its first
\* attempt is not modelled: it may be interrupted before.)
Interrupted(p) ==
    /\ pc[p] = "lock" /\ signal[p]
    /\ ret' = [ret EXCEPT ![p] = EINTR]
    /\ pc' = [pc EXCEPT ![p] = "ret"]
    /\ UNCHANGED <<mem, lock, files, arg, pos, count, done, got, extra>>

\* The rest of pcd_read, from the mutex to its release or a failure.
SingleRead(p) ==
    /\ ReadEnter(p) \/ ReadByte(p) \/ ReadFault(p) \/ ReadDone(p)
    /\ failed' = (failed \/ ret'[p] < 0)
    /\ UNCHANGED <<loader, fstate, signal>>

SingleWrite(p) ==
    /\ WriteEnter(p) \/ WriteNoSpace(p) \/ WriteByte(p) \/ WriteFault(p) \/ WriteDone(p)
    /\ failed' = (failed \/ ret'[p] < 0)
    /\ UNCHANGED <<loader, fstate, signal>>

SingleCall(p, op, f, n, limit, b) ==
    /\ Call(p, op, f, n, limit, b)
    /\ UNCHANGED extra

\* Back to user mode, where a pending signal is taken.
SingleReturn(p) ==
    /\ Return(p)
    /\ signal' = [signal EXCEPT ![p] = FALSE]
    /\ UNCHANGED <<loader, fstate, failed>>

\* Somebody sends a signal to a process in a call.
Signal(p) ==
    /\ InCall(p) /\ ~signal[p]
    /\ signal' = [signal EXCEPT ![p] = TRUE]
    /\ UNCHANGED <<vars, loader, fstate, failed>>

\* What pcd_lseek does to an offset at.  It is not an action: pcd_fops has no
\* llseek, so nothing calls it.  SEEK_CUR adds its target to the offset.
PcdLseek(size, at, offset, whence) ==
    LET target == CASE whence = "SEEK_SET" -> offset
                    [] whence = "SEEK_CUR" -> at + offset
                    [] whence = "SEEK_END" -> size + offset
        next == IF whence = "SEEK_CUR" THEN at + target ELSE target
    IN  IF target \in 0..size THEN [ret |-> next, at |-> next]
        ELSE [ret |-> EINVAL, at |-> at]

-----------------------------------------------------------------------------
(* the specification *)

Handler(p) == Interrupted(p) \/ SingleRead(p) \/ SingleWrite(p) \/ SingleReturn(p)

SingleNext ==
    \/ Loader
    \/ \E f \in File : Lookup(f) \/ CdevGet(f) \/ SingleRelease(f)
    \/ \E f \in File, d \in Dev, mode \in OpenModes : SingleOpen(f, d, mode)
    \/ \E p \in Proc, op \in Modes, f \in File, n \in 0..MaxCount :
         \E limit \in 0..n, b \in Payload(op) : SingleCall(p, op, f, n, limit, b)
    \/ \E p \in Proc : Handler(p) \/ Signal(p)

SingleSpec == SingleInit /\ [][SingleNext]_singleVars

\* A task in the driver keeps running while it has something to do: a waiter
\* has when the mutex is free or a signal is pending.
SingleFairSpec == SingleSpec /\ \A p \in Proc : WF_singleVars(Handler(p))

-----------------------------------------------------------------------------
(* properties *)

LoadTypeOK ==
    /\ mod \in {"unloaded", "coming", "live", "going"}
    /\ ipc \in {"none", "init", "undo", "exit"}
    /\ step \in 0..5
    /\ registered \subseteq {"region", "cdev", "class", "node"}
    /\ fstate \in [File -> {"closed", "lookup", "opening", "open"}]
    /\ signal \in [Proc -> BOOLEAN]
    /\ failed \in BOOLEAN

\* The variables of PcdOps and of the life cycle have their types.
SingleTypeOK == TypeOK /\ LoadTypeOK

\* The mutex is accounted for: a copy has it and, until a call has failed since
\* the module was loaded, nobody else has.  A wait that a signal ends takes no
\* mutex and gives none back (pcd.c:141-162, 170-195).
MutexAccounted ==
    /\ \A p \in Proc : pc[p] = "copy" => lock[DevOf(p)] = p
    /\ ~failed => \A d \in Dev : lock[d] # NoProc =>
           pc[lock[d]] = "copy" /\ DevOf(lock[d]) = d

\* Region, cdev, class, node and files stand on each other, through every
\* failure of pcd_init and through pcd_exit: a layer has those below it, a file
\* has them all in a module that stays, and a module that is not loaded has
\* none (the labels at pcd.c:81-86; the node is the last thing to appear).
Stacked ==
    /\ \A k \in 1..3 : Layer[k + 1] \in registered => Layer[k] \in registered
    /\ "node" \in registered => "class" \in registered
    /\ Users # {} => "node" \in registered /\ mod \in {"coming", "live"}
    /\ mod = "unloaded" => registered = {}

\* A call to whose process a signal is sent comes back, even when a call that
\* failed has kept the mutex for good (pcd.c:141-143, 170-172).
SignalledCallsReturn == \A p \in Proc : signal[p] ~> ~InCall(p)
=============================================================================
