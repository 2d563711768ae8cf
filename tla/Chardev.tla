------------------------------- MODULE Chardev -------------------------------
(***************************************************************************)
(* The exclusive character device src/src/lkmpg/chardev.c: its init and    *)
(* exit functions, and device_open, device_read and device_release run by  *)
(* processes that race for the device and with rmmod.                      *)
(*                                                                         *)
(* chardev_fops has no owner, so the VFS does not count open files of this *)
(* module: device_open does it with try_module_get, whose result it drops, *)
(* and device_release undoes it with module_put.  The loader (external)    *)
(* refuses rmmod while the count is positive, and otherwise frees the      *)
(* module when chardev_exit returns; a task that is then inside one of its *)
(* functions, or has its file open, is stranded: what it does next is      *)
(* undefined, and here it does nothing.                                    *)
(***************************************************************************)
EXTENDS Integers, Sequences, FiniteSets

CONSTANTS
    Proc,       \* the processes
    MsgLen,     \* the length of the message, in pieces that are copied at once
    MaxOpens    \* bound: no open starts when counter has come this far

ASSUME LenAssumption == MsgLen \in Nat \ {0}
ASSUME OpensAssumption == MaxOpens \in Nat

VARIABLES
    mod,            \* "unloaded", "coming", "live" or "going"
    lpc,            \* the next call of chardev_init or chardev_exit, or "none"
    registered,     \* does the major number lead to chardev_fops
    node,           \* does /dev/chardev exist
    already_open,   \* the atomic: is it CDEV_EXCLUSIVE_OPEN
    counter,        \* the static counter of device_open
    msg,            \* msg[k]: the open that piece k of the message tells of
    refcnt,         \* the usage count of the module
    pc,             \* pc[p]: where process p is
    mine,           \* mine[p]: the value of counter that the open of p printed
    counted,        \* counted[p]: did try_module_get succeed in the open of p
    done,           \* done[p]: how many pieces p has printed, then its offset
    got             \* got[p]: what the reads of p have delivered

vars == <<mod, lpc, registered, node, already_open, counter, msg, refcnt,
          pc, mine, counted, done, got>>
static == <<already_open, counter, msg>>
kernel == <<mod, lpc, registered, node>>
session == <<mine, counted, done, got>>

Init ==
    /\ mod = "unloaded" /\ lpc = "none"
    /\ registered = FALSE /\ node = FALSE
    /\ already_open = FALSE /\ counter = 0 /\ msg = [k \in 1..MsgLen |-> -1]
    /\ refcnt = 0
    /\ pc = [p \in Proc |-> "user"]
    /\ mine = [p \in Proc |-> -1]
    /\ counted = [p \in Proc |-> FALSE]
    /\ done = [p \in Proc |-> 0]
    /\ got = [p \in Proc |-> <<>>]

-----------------------------------------------------------------------------
(* chardev_init and chardev_exit *)

\* insmod: the static variables have their initial values.
Insmod ==
    /\ mod = "unloaded"
    /\ mod' = "coming" /\ lpc' = "register"
    /\ already_open' = FALSE /\ counter' = 0 /\ msg' = [k \in 1..MsgLen |-> -1]
    /\ UNCHANGED <<registered, node, refcnt, pc, session>>

RegisterChrdev ==
    /\ lpc = "register"
    /\ \/ registered' = TRUE /\ lpc' = "create" /\ mod' = mod
       \/ registered' = FALSE /\ lpc' = "none" /\ mod' = "unloaded"
    /\ UNCHANGED <<node, static, refcnt, pc, session>>

\* The result of device_create is not looked at: init succeeds without a node.
DeviceCreate ==
    /\ lpc = "create"
    /\ node' \in BOOLEAN
    /\ lpc' = "none" /\ mod' = "live"
    /\ UNCHANGED <<registered, static, refcnt, pc, session>>

\* Mutant: the usage count is not looked at.
RmmodForced ==
    /\ mod = "live"
    /\ mod' = "going" /\ lpc' = "destroy"
    /\ UNCHANGED <<registered, node, static, refcnt, pc, session>>

Rmmod ==
    /\ mod = "live" /\ refcnt = 0
    /\ mod' = "going" /\ lpc' = "destroy"
    /\ UNCHANGED <<registered, node, static, refcnt, pc, session>>

DeviceDestroy ==
    /\ lpc = "destroy"
    /\ node' = FALSE /\ lpc' = "unregister"
    /\ UNCHANGED <<mod, registered, static, refcnt, pc, session>>

\* Processes that run a function of the module or have its file open.
Inside == {p \in Proc : pc[p] \notin {"user", "lookup", "stranded"}}

\* The last call of chardev_exit, and the loader frees the module.
UnregisterChrdev ==
    /\ lpc = "unregister"
    /\ registered' = FALSE
    /\ lpc' = "none" /\ mod' = "unloaded"
    /\ pc' = [p \in Proc |-> IF p \in Inside THEN "stranded" ELSE pc[p]]
    /\ counted' = [p \in Proc |-> FALSE]
    /\ refcnt' = 0
    /\ UNCHANGED <<node, static, mine, done, got>>

-----------------------------------------------------------------------------
(* device_open *)

\* open(2) resolves the path of the node.
Lookup(p) ==
    /\ pc[p] = "user" /\ node /\ counter < MaxOpens
    /\ pc' = [pc EXCEPT ![p] = "lookup"]
    /\ UNCHANGED <<kernel, static, refcnt, session>>

\* The VFS finds the driver of the number, if there is one still, and calls its
\* open; without an owner there is no module to take a reference on.
VfsOpen(p) ==
    /\ pc[p] = "lookup"
    /\ pc' = [pc EXCEPT ![p] = IF registered THEN "cmpxchg" ELSE "user"]
    /\ UNCHANGED <<kernel, static, refcnt, session>>

\* Mutant: the flag is set without looking at its old value.
AtomicSetOpen(p) ==
    /\ pc[p] = "cmpxchg"
    /\ already_open' = TRUE
    /\ pc' = [pc EXCEPT ![p] = "sprintf"]
    /\ mine' = [mine EXCEPT ![p] = counter]
    /\ counter' = counter + 1
    /\ UNCHANGED <<kernel, msg, refcnt, counted, done, got>>

\* atomic_cmpxchg finds the device free, and counter++ is evaluated.
AtomicCmpxchg(p) ==
    /\ pc[p] = "cmpxchg" /\ ~already_open
    /\ already_open' = TRUE
    /\ pc' = [pc EXCEPT ![p] = "sprintf"]
    /\ mine' = [mine EXCEPT ![p] = counter]
    /\ counter' = counter + 1
    /\ UNCHANGED <<kernel, msg, refcnt, counted, done, got>>

\* Mutant: the refused open gives the device back.
BusyClears(p) ==
    /\ pc[p] = "cmpxchg" /\ already_open
    /\ already_open' = FALSE
    /\ pc' = [pc EXCEPT ![p] = "user"]
    /\ UNCHANGED <<kernel, counter, msg, refcnt, session>>

\* return -EBUSY: there is no file, and no release.
Busy(p) ==
    /\ pc[p] = "cmpxchg" /\ already_open
    /\ pc' = [pc EXCEPT ![p] = "user"]
    /\ UNCHANGED <<kernel, static, refcnt, session>>

\* sprintf, one piece of the message at a time.
Sprintf(p) ==
    /\ pc[p] = "sprintf" /\ done[p] < MsgLen
    /\ msg' = [msg EXCEPT ![done[p] + 1] = mine[p]]
    /\ done' = [done EXCEPT ![p] = @ + 1]
    /\ UNCHANGED <<kernel, already_open, counter, refcnt, pc, mine, counted, got>>

\* Mutant: the reference is counted although the module is going away.
TryModuleGetAlways(p) ==
    /\ pc[p] = "sprintf" /\ done[p] = MsgLen
    /\ counted' = [counted EXCEPT ![p] = mod # "going"]
    /\ refcnt' = refcnt + 1
    /\ done' = [done EXCEPT ![p] = 0]
    /\ pc' = [pc EXCEPT ![p] = "open"]
    /\ UNCHANGED <<kernel, static, mine, got>>

\* try_module_get fails when the module is going away; the open succeeds anyway.
TryModuleGet(p) ==
    /\ pc[p] = "sprintf" /\ done[p] = MsgLen
    /\ counted' = [counted EXCEPT ![p] = mod # "going"]
    /\ refcnt' = IF mod # "going" THEN refcnt + 1 ELSE refcnt
    /\ done' = [done EXCEPT ![p] = 0]
    /\ pc' = [pc EXCEPT ![p] = "open"]
    /\ UNCHANGED <<kernel, static, mine, got>>

-----------------------------------------------------------------------------
(* device_read and device_release *)

StartRead(p) ==
    /\ pc[p] = "open"
    /\ pc' = [pc EXCEPT ![p] = "reading"]
    /\ UNCHANGED <<kernel, static, refcnt, session>>

\* put_user of the piece at the offset, until the terminating zero.
PutUser(p) ==
    /\ pc[p] = "reading" /\ done[p] < MsgLen
    /\ got' = [got EXCEPT ![p] = Append(@, msg[done[p] + 1])]
    /\ done' = [done EXCEPT ![p] = @ + 1]
    /\ UNCHANGED <<kernel, static, refcnt, pc, mine, counted>>

\* length is used up, or the message is.
EndRead(p) ==
    /\ pc[p] = "reading"
    /\ pc' = [pc EXCEPT ![p] = "open"]
    /\ UNCHANGED <<kernel, static, refcnt, session>>

\* The last close calls device_release: the device is free for the next caller.
AtomicSet(p) ==
    /\ pc[p] = "open"
    /\ already_open' = FALSE
    /\ pc' = [pc EXCEPT ![p] = "put"]
    /\ UNCHANGED <<kernel, counter, msg, refcnt, session>>

\* Mutant: the count goes down even when it is zero.
ModulePutBelow(p) ==
    /\ pc[p] = "put"
    /\ refcnt' = refcnt - 1
    /\ counted' = [counted EXCEPT ![p] = FALSE]
    /\ pc' = [pc EXCEPT ![p] = "leave"]
    /\ UNCHANGED <<kernel, static, mine, done, got>>

\* module_put lowers the count only if it is positive.
ModulePut(p) ==
    /\ pc[p] = "put"
    /\ refcnt' = IF refcnt > 0 THEN refcnt - 1 ELSE 0
    /\ counted' = [counted EXCEPT ![p] = FALSE]
    /\ pc' = [pc EXCEPT ![p] = "leave"]
    /\ UNCHANGED <<kernel, static, mine, done, got>>

\* return SUCCESS, out of the module.
Leave(p) ==
    /\ pc[p] = "leave"
    /\ pc' = [pc EXCEPT ![p] = "user"]
    /\ mine' = [mine EXCEPT ![p] = -1]
    /\ done' = [done EXCEPT ![p] = 0]
    /\ got' = [got EXCEPT ![p] = <<>>]
    /\ UNCHANGED <<kernel, static, refcnt, counted>>

-----------------------------------------------------------------------------
(* the specification *)

LoaderStep ==
    \/ Insmod \/ RegisterChrdev \/ DeviceCreate
    \/ Rmmod \/ DeviceDestroy \/ UnregisterChrdev

ProcStep(p) ==
    \/ Lookup(p) \/ VfsOpen(p) \/ AtomicCmpxchg(p) \/ Busy(p) \/ Sprintf(p)
    \/ TryModuleGet(p) \/ StartRead(p) \/ PutUser(p) \/ EndRead(p)
    \/ AtomicSet(p) \/ ModulePut(p) \/ Leave(p)

Next == LoaderStep \/ \E p \in Proc : ProcStep(p)

Spec == Init /\ [][Next]_vars

-----------------------------------------------------------------------------
(* properties *)

\* Every variable has its type; a count is never negative.
TypeOK ==
    /\ mod \in {"unloaded", "coming", "live", "going"}
    /\ lpc \in {"none", "register", "create", "destroy", "unregister"}
    /\ registered \in BOOLEAN /\ node \in BOOLEAN /\ already_open \in BOOLEAN
    /\ counter \in Nat /\ refcnt \in Nat
    /\ msg \in [1..MsgLen -> Nat \cup {-1}]
    /\ pc \in [Proc -> {"user", "lookup", "cmpxchg", "sprintf", "open", "reading",
                        "put", "leave", "stranded"}]
    /\ mine \in [Proc -> Nat \cup {-1}]
    /\ counted \in [Proc -> BOOLEAN]
    /\ done \in [Proc -> 0..MsgLen]
    /\ got \in [Proc -> Seq(Nat)]

\* The processes that have the device to themselves.
Owners == {p \in Proc : pc[p] \in {"sprintf", "open", "reading"}}

\* One process at a time has the device, the flag says whether one does, and an
\* open that is refused or a close that is under way does not upset it
\* (chardev.c:87-89 against 102).
ExclusiveOpen ==
    /\ \A p, q \in Owners : p = q
    /\ mod # "unloaded" => (already_open <=> Owners # {})

\* From its open to its close a process reads its own message, whole: no other
\* open prints over it between two of its reads (chardev.c:91, 130-135).
MessageIsOwn ==
    \A p \in Proc : pc[p] \in {"open", "reading"} =>
        /\ \A k \in 1..MsgLen : msg[k] = mine[p]
        /\ Len(got[p]) = done[p] /\ \A k \in 1..done[p] : got[p][k] = mine[p]

\* The usage count is the number of opens that try_module_get has counted: the
\* module_put of an open it refused takes nothing from another (chardev.c:93, 106).
UsageCountAccurate == refcnt = Cardinality({p \in Proc : counted[p]})

\* An open that was counted keeps the module in memory until its release has
\* reached module_put (chardev.c:93-106 against chardev_exit).
CountedIsNotStranded ==
    [][\A p \in Proc : pc[p] # "stranded" /\ pc'[p] = "stranded" => ~counted[p]]_vars

\* "Decrement the usage count, or else once you opened the file, you will never
\* get rid of the module" (chardev.c:104-105): while a file is open the module
\* is not being removed.
OpenKeepsModule ==
    \A p \in Proc : pc[p] \in {"open", "reading"} => mod \in {"coming", "live"}
=============================================================================
