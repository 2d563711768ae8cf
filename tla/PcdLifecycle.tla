---------------------------- MODULE PcdLifecycle ----------------------------
(***************************************************************************)
(* Loading and unloading of the four-device pseudo character driver,       *)
(* src/src/ldd-programming/pcd/pcd_n.c: pcd_init, one registration at a    *)
(* time and each of them able to fail, with its unwinding labels, and      *)
(* pcd_exit, while user space opens and closes the device files.           *)
(*                                                                         *)
(* The module loader and the VFS are external.  A module whose init        *)
(* function is still running can already be opened; one that is going      *)
(* away cannot; rmmod waits for nobody, it is refused while the usage      *)
(* count is positive.  A load that fails frees the module whatever the     *)
(* count is: a file opened meanwhile is then stranded.                     *)
(***************************************************************************)
EXTENDS Integers

CONSTANTS
    N,          \* NO_OF_DEVICES
    File        \* the files user space may have open

ASSUME NAssumption == N \in Nat

VARIABLES
    mod,        \* the state of the module, in Unloaded, Coming, Live, Going
    ipc,        \* where pcd_init or pcd_exit is, "none" when neither runs
    i,          \* the loop variable of both
    region,     \* is the device number region reserved
    class,      \* does the class pcd_class exist
    cdev,       \* the devices whose cdev is registered with the VFS
    node,       \* the devices whose node /dev/pcdev-<i+1> exists
    fstate,     \* fstate[f]: how far the open of file f is
    fdev,       \* fdev[f]: the device of f, meaningful unless f is closed
    refcnt      \* the usage count of the module

vars == <<mod, ipc, i, region, class, cdev, node, fstate, fdev, refcnt>>
user == <<fstate, fdev, refcnt>>

Dev == 0..N - 1

Init ==
    /\ mod = "unloaded"
    /\ ipc = "none"
    /\ i = 0
    /\ region = FALSE
    /\ class = FALSE
    /\ cdev = {}
    /\ node = {}
    /\ fstate = [f \in File |-> "closed"]
    /\ fdev = [f \in File |-> 0]
    /\ refcnt = 0

-----------------------------------------------------------------------------
(* pcd_init *)

\* insmod: the loader runs pcd_init.
Insmod ==
    /\ mod = "unloaded"
    /\ mod' = "coming"
    /\ ipc' = "region"
    /\ i' = 0
    /\ UNCHANGED <<region, class, cdev, node, user>>

AllocRegion ==
    /\ ipc = "region"
    /\ \/ region' = TRUE /\ ipc' = "class"
       \/ region' = region /\ ipc' = "out"
    /\ UNCHANGED <<mod, i, class, cdev, node, user>>

\* Mutant: a failure leaves through out and not through unreg_chrdev.
ClassCreateToOut ==
    /\ ipc = "class"
    /\ \/ class' = TRUE /\ ipc' = "cdev"
       \/ class' = class /\ ipc' = "out"
    /\ UNCHANGED <<mod, i, region, cdev, node, user>>

ClassCreate ==
    /\ ipc = "class"
    /\ \/ class' = TRUE /\ ipc' = "cdev"
       \/ class' = class /\ ipc' = "unreg_chrdev"
    /\ UNCHANGED <<mod, i, region, cdev, node, user>>

\* The test of the loop, then cdev_init and cdev_add of device i.
CdevAdd ==
    /\ ipc = "cdev"
    /\ i < N
    /\ \/ cdev' = cdev \cup {i} /\ ipc' = "device"
       \/ cdev' = cdev /\ ipc' = "destroy"
    /\ UNCHANGED <<mod, i, region, class, node, user>>

\* Mutant: the unwinding starts below the device that failed.
DeviceCreateBelow ==
    /\ ipc = "device"
    /\ \/ node' = node \cup {i} /\ i' = i + 1 /\ ipc' = "cdev"
       \/ node' = node /\ i' = i - 1 /\ ipc' = "destroy"
    /\ UNCHANGED <<mod, region, class, cdev, user>>

DeviceCreate ==
    /\ ipc = "device"
    /\ \/ node' = node \cup {i} /\ i' = i + 1 /\ ipc' = "cdev"
       \/ node' = node /\ i' = i /\ ipc' = "destroy"
    /\ UNCHANGED <<mod, region, class, cdev, user>>

\* return 0: the loader marks the module live.
InitSucceeds ==
    /\ ipc = "cdev"
    /\ i = N
    /\ mod' = "live"
    /\ ipc' = "none"
    /\ UNCHANGED <<i, region, class, cdev, node, user>>

\* cdev_destroy, cls_destroy: from device i, which is half registered, down.
DeviceDestroy ==
    /\ ipc = "destroy"
    /\ i >= 0
    /\ node' = node \ {i}
    /\ ipc' = "del"
    /\ UNCHANGED <<mod, i, region, class, cdev, user>>

\* Mutant: the loop counts up.
CdevDelUpwards ==
    /\ ipc = "del"
    /\ cdev' = cdev \ {i}
    /\ i' = i + 1
    /\ ipc' = "destroy"
    /\ UNCHANGED <<mod, region, class, node, user>>

\* Mutant: the loop does not count down.
CdevDelInPlace ==
    /\ ipc = "del"
    /\ cdev' = cdev \ {i}
    /\ ipc' = "destroy"
    /\ UNCHANGED <<mod, i, region, class, node, user>>

CdevDel ==
    /\ ipc = "del"
    /\ cdev' = cdev \ {i}
    /\ i' = i - 1
    /\ ipc' = "destroy"
    /\ UNCHANGED <<mod, region, class, node, user>>

ClassDestroy ==
    /\ ipc = "destroy"
    /\ i < 0
    /\ class' = FALSE
    /\ ipc' = "unreg_chrdev"
    /\ UNCHANGED <<mod, i, region, cdev, node, user>>

UnregChrdev ==
    /\ ipc = "unreg_chrdev"
    /\ region' = FALSE
    /\ ipc' = "out"
    /\ UNCHANGED <<mod, i, class, cdev, node, user>>

\* A file counted in refcnt: its open has a reference on the module.
Counted(f) == fstate[f] \in {"opening", "open"}

\* return ret: the loader frees the module, and does not look at its count.
InitFails ==
    /\ ipc = "out"
    /\ mod' = "unloaded"
    /\ ipc' = "none"
    /\ fstate' = [f \in File |-> IF Counted(f) THEN "stranded" ELSE fstate[f]]
    /\ refcnt' = 0
    /\ UNCHANGED <<i, region, class, cdev, node, fdev>>

-----------------------------------------------------------------------------
(* pcd_exit *)

\* Mutant: the usage count is not looked at.
RmmodForced ==
    /\ mod = "live"
    /\ mod' = "going"
    /\ ipc' = "exit_destroy"
    /\ i' = 0
    /\ UNCHANGED <<region, class, cdev, node, user>>

\* rmmod of a module nobody uses: the loader runs pcd_exit.
Rmmod ==
    /\ mod = "live"
    /\ refcnt = 0
    /\ mod' = "going"
    /\ ipc' = "exit_destroy"
    /\ i' = 0
    /\ UNCHANGED <<region, class, cdev, node, user>>

ExitDeviceDestroy ==
    /\ ipc = "exit_destroy"
    /\ i < N
    /\ node' = node \ {i}
    /\ ipc' = "exit_del"
    /\ UNCHANGED <<mod, i, region, class, cdev, user>>

ExitCdevDel ==
    /\ ipc = "exit_del"
    /\ cdev' = cdev \ {i}
    /\ i' = i + 1
    /\ ipc' = "exit_destroy"
    /\ UNCHANGED <<mod, region, class, node, user>>

ExitClassDestroy ==
    /\ ipc = "exit_destroy"
    /\ i = N
    /\ class' = FALSE
    /\ ipc' = "exit_unreg"
    /\ UNCHANGED <<mod, i, region, cdev, node, user>>

\* The last call of pcd_exit; the loader then frees the module.
ExitUnregChrdev ==
    /\ ipc = "exit_unreg"
    /\ region' = FALSE
    /\ mod' = "unloaded"
    /\ ipc' = "none"
    /\ UNCHANGED <<i, class, cdev, node, user>>

-----------------------------------------------------------------------------
(* user space *)

\* The path of a device node is resolved.
Lookup(f, d) ==
    /\ fstate[f] = "closed"
    /\ d \in node
    /\ fstate' = [fstate EXCEPT ![f] = "lookup"]
    /\ fdev' = [fdev EXCEPT ![f] = d]
    /\ UNCHANGED <<mod, ipc, i, region, class, cdev, node, refcnt>>

\* The VFS finds the cdev of the number and takes a reference on its owner; by
\* now the cdev may be gone, or its module going, and the open fails.
CdevGet(f) ==
    /\ fstate[f] = "lookup"
    /\ IF fdev[f] \in cdev /\ mod # "going"
       THEN fstate' = [fstate EXCEPT ![f] = "opening"] /\ refcnt' = refcnt + 1
       ELSE fstate' = [fstate EXCEPT ![f] = "closed"] /\ UNCHANGED refcnt
    /\ UNCHANGED <<mod, ipc, i, region, class, cdev, node, fdev>>

PcdOpen(f) ==
    /\ fstate[f] = "opening"
    /\ fstate' = [fstate EXCEPT ![f] = "open"]
    /\ UNCHANGED <<mod, ipc, i, region, class, cdev, node, fdev, refcnt>>

\* check_permission refuses: the VFS drops the reference.
PcdOpenRefused(f) ==
    /\ fstate[f] = "opening"
    /\ fstate' = [fstate EXCEPT ![f] = "closed"]
    /\ refcnt' = refcnt - 1
    /\ UNCHANGED <<mod, ipc, i, region, class, cdev, node, fdev>>

PcdRelease(f) ==
    /\ fstate[f] = "open"
    /\ fstate' = [fstate EXCEPT ![f] = "closed"]
    /\ refcnt' = refcnt - 1
    /\ UNCHANGED <<mod, ipc, i, region, class, cdev, node, fdev>>

-----------------------------------------------------------------------------
(* the specification *)

\* The task that runs pcd_init or pcd_exit.
LoaderStep ==
    \/ AllocRegion \/ ClassCreate \/ CdevAdd \/ DeviceCreate \/ InitSucceeds
    \/ DeviceDestroy \/ CdevDel \/ ClassDestroy \/ UnregChrdev \/ InitFails
    \/ ExitDeviceDestroy \/ ExitCdevDel \/ ExitClassDestroy \/ ExitUnregChrdev

UserStep(f) == CdevGet(f) \/ PcdOpen(f) \/ PcdOpenRefused(f) \/ PcdRelease(f)

Next ==
    \/ Insmod \/ Rmmod \/ LoaderStep
    \/ \E f \in File, d \in Dev : Lookup(f, d)
    \/ \E f \in File : UserStep(f)

Spec == Init /\ [][Next]_vars

\* Nothing in pcd_init or pcd_exit waits for another task.
FairSpec == Spec /\ WF_vars(LoaderStep)

-----------------------------------------------------------------------------
(* properties *)

\* Every variable has its type.
TypeOK ==
    /\ mod \in {"unloaded", "coming", "live", "going"}
    /\ ipc \in {"none", "region", "class", "cdev", "device", "destroy", "del",
                "unreg_chrdev", "out", "exit_destroy", "exit_del", "exit_unreg"}
    /\ i \in -1..N
    /\ region \in BOOLEAN
    /\ class \in BOOLEAN
    /\ cdev \subseteq Dev
    /\ node \subseteq Dev
    /\ fstate \in [File -> {"closed", "lookup", "opening", "open", "stranded"}]
    /\ fdev \in [File -> Nat]
    /\ refcnt \in Nat

\* What is registered rests on what it needs, through every failure and every
\* unwinding: a node has its cdev behind it and its class around it, a cdev has
\* its number reserved (pcd_n.c:97-138 against 144-153 and 163-168).
LayersOrdered ==
    /\ node \subseteq cdev
    /\ node # {} => class
    /\ cdev # {} => region

\* An init that fails, wherever it does, leaves nothing registered, and so does
\* an unload; one that succeeds has registered every device (the labels at
\* pcd_n.c:144-155, pcd_exit at 160-171).
AllOrNothing ==
    /\ mod = "unloaded" => ~region /\ ~class /\ cdev = {} /\ node = {}
    /\ mod = "live" => region /\ class /\ cdev = Dev /\ node = Dev

\* From the decision to unload until the module is loaded again no file is open
\* or on its way to be: the owner of pcd_fops counts them all (pcd_n.c:88, 124).
UnloadWaitsForFiles ==
    mod \in {"going", "unloaded"} => \A f \in File : ~Counted(f)

\* A load and an unload come to their end, whichever step fails (the loops at
\* pcd_n.c:111, 146 and 163).
LoaderTerminates ==
    mod \in {"coming", "going"} ~> mod \in {"live", "unloaded"}
=============================================================================
