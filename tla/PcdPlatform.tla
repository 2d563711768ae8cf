----------------------------- MODULE PcdPlatform -----------------------------
(***************************************************************************)
(* The three pseudo character platform drivers of src/src/ldd-programming: *)
(* "platform" (pcd_platform_drv), "dt" (pcd_platform_drv_dt) and "sysfs"   *)
(* (pcd_platform_drv_dt_sysfs).  Two tasks call into a driver: "drv" loads *)
(* and unloads it, "bus" adds and removes the devices (the device setup    *)
(* module for "platform", device tree overlays for the others).  Either    *)
(* may probe or remove a device, one task per device at a time.            *)
(*                                                                         *)
(* The driver core and the char device map are external.  The map keeps    *)
(* the cdevs of a number as a stack: cdev_add puts a new one in front,     *)
(* cdev_del takes the first one off, whosever it is.                       *)
(***************************************************************************)
EXTENDS Integers, Sequences, FiniteSets

CONSTANTS
    N,              \* the number of devices, 4 in pcd_device_setup.c
    Drivers,        \* the drivers the run is about
    Overlapping,    \* those with which the two tasks may run at the same time
    MaxRegions,     \* bound: device number regions the kernel has left
    MaxTotal        \* bound: total_devices up to which sysfs groups may fail,
                    \* and each number may have one cdev left behind

ASSUME NAssumption == N \in 1..4
ASSUME DriversAssumption == Drivers \subseteq {"platform", "dt", "sysfs"}
ASSUME OverlapAssumption == Overlapping \subseteq Drivers
ASSUME BoundAssumption == MaxRegions \in Nat /\ MaxTotal \in Nat

VARIABLES
    driver,     \* which of the three drivers this is
    mod,        \* the state of the driver module
    dpc,        \* where its init or exit is, "none" when neither runs
    visited,    \* the devices the driver core has offered since registration
    registered, \* is the driver on the platform bus
    regions,    \* device number regions reserved
    class,      \* does the class pcd_class exist
    total,      \* pcdrv_data.total_devices
    pcdDev,     \* pcdrv_data.pcd_dev: "err" for an error pointer
    present,    \* the devices on the platform bus
    bound,      \* the devices bound to the driver
    buf,        \* buf[d]: bytes of the buffer of d, 0 without private data
    num,        \* num[d]: dev_data->device_num, less device_num_base
    cdevs,      \* cdevs[n]: the cdevs registered for number n, newest first
    nodes,      \* the device nodes: name pcdev-<name>, number, whose probe
                \* created it, and whether its class still exists
    tpc,        \* tpc[t]: where task t is in a probe or a remove
    tdev,       \* tdev[t]: the device it is called for
    seen,       \* seen[t]: total_devices as t has loaded it, to store it changed
    failed      \* history: has a kernel call ever failed

drv == <<mod, dpc, visited, registered, regions, class>>
task == <<tpc, tdev, seen>>
vars == <<driver, drv, total, pcdDev, present, bound, buf, num, cdevs, nodes,
          task, failed>>

Task == {"drv", "bus"}
Dev == 0..N - 1
Number == 0..MaxTotal + N
ProbePc == {"alloc", "number", "cdev", "device", "check", "undo", "count",
            "incr", "group", "undo_node"}
RemovePc == {"destroy", "del", "uncount", "decr"}

\* The sizes in the platform data, and what is allocated: sizeof(pdata.size).
PlatformSize(d) == <<512, 1024, 128, 32>>[d + 1]
SizeofSize == 4

Locked(d) == \E t \in Task : tpc[t] # "idle" /\ tdev[t] = d
Idle(t) == tpc[t] = "idle"

Init ==
    /\ driver \in Drivers
    /\ mod = "unloaded"
    /\ dpc = "none"
    /\ visited = {}
    /\ registered = FALSE
    /\ regions = 0
    /\ class = FALSE
    /\ total = 0
    /\ pcdDev = "ok"
    /\ present = {}
    /\ bound = {}
    /\ buf = [d \in Dev |-> 0]
    /\ num = [d \in Dev |-> 0]
    /\ cdevs = [n \in Number |-> <<>>]
    /\ nodes = {}
    /\ tpc = [t \in Task |-> "idle"]
    /\ tdev = [t \in Task |-> 0]
    /\ seen = [t \in Task |-> 0]
    /\ failed = FALSE

-----------------------------------------------------------------------------
(* pcd_platform_driver_probe, called by task t for device tdev[t] *)

At(t, pc) == tpc[t] = pc
Goto(t, pc) == tpc' = [tpc EXCEPT ![t] = pc] /\ UNCHANGED <<tdev, seen>>

\* The driver core is done with the device.
Leave(t) ==
    /\ tpc' = [tpc EXCEPT ![t] = "idle"]
    /\ tdev' = [tdev EXCEPT ![t] = 0]
    /\ seen' = [seen EXCEPT ![t] = 0]

\* The driver core locks the device and calls probe.
Enter(t, d, pc) ==
    /\ tpc' = [tpc EXCEPT ![t] = pc]
    /\ tdev' = [tdev EXCEPT ![t] = d]
    /\ UNCHANGED seen

\* A kernel call fails for want of memory, or a property is missing.
Fails == failed' = TRUE

\* The device is not bound, or no more: what devm allocated for it is freed.
Unprobed(t) ==
    /\ Leave(t)
    /\ buf' = [buf EXCEPT ![tdev[t]] = 0]
    /\ num' = [num EXCEPT ![tdev[t]] = 0]

\* The platform data, the private data and the buffer.
ProbeAlloc(t) ==
    /\ At(t, "alloc")
    /\ \/ buf' = [buf EXCEPT ![tdev[t]] = SizeofSize]
          /\ Goto(t, "number") /\ UNCHANGED <<num, failed>>
       \/ Unprobed(t) /\ Fails
    /\ UNCHANGED <<driver, drv, total, pcdDev, present, bound, cdevs, nodes>>

\* Mutant: the platform driver numbers its devices like the others.
NumberByCount(d) == total

\* By the id of the platform device, or by the number of devices so far.
NumberOf(d) == IF driver = "platform" THEN d ELSE total

DeviceNumber(t) ==
    /\ At(t, "number")
    /\ num' = [num EXCEPT ![tdev[t]] = NumberOf(tdev[t])]
    /\ Goto(t, "cdev")
    /\ UNCHANGED <<driver, drv, total, pcdDev, present, bound, buf, cdevs, nodes,
                   failed>>

CdevAdd(t) ==
    /\ At(t, "cdev")
    /\ \/ /\ cdevs' = [cdevs EXCEPT ![num[tdev[t]]] = <<tdev[t]>> \o @]
          /\ Goto(t, "device")
          /\ UNCHANGED <<buf, num, failed>>
       \/ Unprobed(t) /\ Fails /\ UNCHANGED cdevs
    /\ UNCHANGED <<driver, drv, total, pcdDev, present, bound, nodes>>

Node(name, n, d) == [name |-> name, num |-> n, dev |-> d, inClass |-> TRUE]

\* There is no node of that name or of that number yet.
Fresh(name, n) == \A x \in nodes : x.name # name /\ x.num # n

\* The result goes to pcdrv_data.pcd_dev, which all probes share.
DeviceCreate(t) ==
    /\ At(t, "device")
    /\ LET d == tdev[t] IN
       \/ /\ Fresh(NumberOf(d), num[d])
          /\ nodes' = nodes \cup {Node(NumberOf(d), num[d], d)}
          /\ pcdDev' = "ok"
          /\ UNCHANGED failed
       \/ /\ pcdDev' = "err"
          /\ failed' = (failed \/ Fresh(NumberOf(d), num[d]))
          /\ UNCHANGED nodes
    /\ Goto(t, "check")
    /\ UNCHANGED <<driver, drv, total, present, bound, buf, num, cdevs>>

\* Mutant: the result of device_create is not looked at.
CheckNothing(t) ==
    /\ At(t, "check")
    /\ Goto(t, "count")
    /\ UNCHANGED <<driver, drv, total, pcdDev, present, bound, buf, num, cdevs,
                   nodes, failed>>

CheckDevice(t) ==
    /\ At(t, "check")
    /\ Goto(t, IF pcdDev = "err" THEN "undo" ELSE "count")
    /\ UNCHANGED <<driver, drv, total, pcdDev, present, bound, buf, num, cdevs,
                   nodes, failed>>

\* cdev_del takes the first cdev of the number off the map.
CdevDel(n) == cdevs' = [cdevs EXCEPT ![n] = IF @ = <<>> THEN @ ELSE Tail(@)]

\* Mutant: the cdev stays in the map.
ProbeUndoNothing(t) ==
    /\ At(t, "undo")
    /\ Unprobed(t)
    /\ UNCHANGED <<driver, drv, total, pcdDev, present, bound, cdevs, nodes,
                   failed>>

\* Mutant: a device is uncounted that was not counted yet.
ProbeUndoUncounts(t) ==
    /\ At(t, "undo")
    /\ CdevDel(num[tdev[t]])
    /\ total' = total - 1
    /\ Unprobed(t)
    /\ UNCHANGED <<driver, drv, pcdDev, present, bound, nodes, failed>>

ProbeUndo(t) ==
    /\ At(t, "undo")
    /\ CdevDel(num[tdev[t]])
    /\ Unprobed(t)
    /\ UNCHANGED <<driver, drv, total, pcdDev, present, bound, nodes, failed>>

\* total_devices++ and -- load the count and store it changed, without a lock:
\* what the other task stores in between is lost.
LoadTotal(t) ==
    /\ \/ At(t, "count") /\ tpc' = [tpc EXCEPT ![t] = "incr"]
       \/ At(t, "uncount") /\ tpc' = [tpc EXCEPT ![t] = "decr"]
    /\ seen' = [seen EXCEPT ![t] = total]
    /\ UNCHANGED <<driver, drv, total, pcdDev, present, bound, buf, num, cdevs,
                   nodes, tdev, failed>>

\* The store; probe returns 0, and the driver core keeps the device bound.
CountDevice(t) ==
    /\ At(t, "incr")
    /\ total' = seen[t] + 1
    /\ IF driver = "sysfs"
       THEN Goto(t, "group") /\ UNCHANGED bound
       ELSE Leave(t) /\ bound' = bound \cup {tdev[t]}
    /\ UNCHANGED <<driver, drv, pcdDev, present, buf, num, cdevs, nodes, failed>>

\* pcd_sysfs_create_files, in the sysfs driver alone.
CreateGroup(t) ==
    /\ At(t, "group")
    /\ \/ bound' = bound \cup {tdev[t]} /\ Leave(t) /\ UNCHANGED failed
       \/ /\ total < MaxTotal /\ Len(cdevs[num[tdev[t]]]) = 1
          /\ Goto(t, "undo_node") /\ Fails /\ UNCHANGED bound
    /\ UNCHANGED <<driver, drv, total, pcdDev, present, buf, num, cdevs, nodes>>

\* device_destroy finds the node in the class, by its number.
DeviceDestroy(n) == nodes' = {x \in nodes : ~(x.inClass /\ x.num = n)}

\* The node goes; the cdev stays in the map and the device in the count.
GroupUndo(t) ==
    /\ At(t, "undo_node")
    /\ DeviceDestroy(num[tdev[t]])
    /\ Unprobed(t)
    /\ UNCHANGED <<driver, drv, total, pcdDev, present, bound, cdevs, failed>>

-----------------------------------------------------------------------------
(* pcd_platform_driver_remove, called by task t for device tdev[t] *)

\* Mutant: the node is not destroyed.
RemoveNoNode(t) ==
    /\ At(t, "destroy")
    /\ Goto(t, "del")
    /\ UNCHANGED <<driver, drv, total, pcdDev, present, bound, buf, num, cdevs, nodes,
                   failed>>

RemoveNode(t) ==
    /\ At(t, "destroy")
    /\ DeviceDestroy(num[tdev[t]])
    /\ Goto(t, "del")
    /\ UNCHANGED <<driver, drv, total, pcdDev, present, bound, buf, num, cdevs,
                   failed>>

RemoveCdev(t) ==
    /\ At(t, "del")
    /\ CdevDel(num[tdev[t]])
    /\ Goto(t, "uncount")
    /\ UNCHANGED <<driver, drv, total, pcdDev, present, bound, buf, num, nodes,
                   failed>>

\* Mutant: total_devices only ever grows.
UncountNothing(t) ==
    /\ At(t, "decr")
    /\ bound' = bound \ {tdev[t]}
    /\ present' = IF t = "bus" THEN present \ {tdev[t]} ELSE present
    /\ Unprobed(t)
    /\ UNCHANGED <<driver, drv, total, pcdDev, cdevs, nodes, failed>>

\* The store, and the return: the driver core unbinds the device and frees its
\* private data; the bus task goes on to take the device off the bus.
Uncount(t) ==
    /\ At(t, "decr")
    /\ total' = seen[t] - 1
    /\ bound' = bound \ {tdev[t]}
    /\ present' = IF t = "bus" THEN present \ {tdev[t]} ELSE present
    /\ Unprobed(t)
    /\ UNCHANGED <<driver, drv, pcdDev, cdevs, nodes, failed>>

-----------------------------------------------------------------------------
(* the devices: pcd_device_setup.c, or overlays *)

\* The setup module adds and removes its devices in order; overlays in any.
MayAdd(d) ==
    IF driver = "platform" THEN present = 0..d - 1 ELSE d \notin present
MayRemove(d) ==
    IF driver = "platform" THEN present = d..N - 1 ELSE d \in present

\* Without overlap a task starts when the other one has come to its end.
MayStart(t) ==
    /\ Idle(t)
    /\ driver \in Overlapping \/ (dpc = "none" /\ Idle("bus"))

\* A device comes to the bus, and is probed if the driver is there.
DeviceAdd(d) ==
    /\ MayStart("bus")
    /\ MayAdd(d)
    /\ present' = present \cup {d}
    /\ IF registered THEN Enter("bus", d, "alloc") ELSE UNCHANGED task
    /\ UNCHANGED <<driver, drv, total, pcdDev, bound, buf, num, cdevs, nodes, failed>>

\* A device leaves the bus, through remove if it is bound.
DeviceDel(d) ==
    /\ MayStart("bus")
    /\ MayRemove(d)
    /\ ~Locked(d)
    /\ IF d \in bound
       THEN Enter("bus", d, "destroy") /\ UNCHANGED present
       ELSE present' = present \ {d} /\ UNCHANGED task
    /\ UNCHANGED <<driver, drv, total, pcdDev, bound, buf, num, cdevs, nodes, failed>>

-----------------------------------------------------------------------------
(* pcd_platform_driver_init and pcd_platform_driver_exit, in task "drv" *)

devices == <<driver, pcdDev, present, bound, buf, num, cdevs, nodes>>

\* insmod; the statics of the module are zero again.
Insmod ==
    /\ mod = "unloaded"
    /\ MayStart("drv")
    /\ mod' = "coming"
    /\ dpc' = "region"
    /\ total' = 0
    /\ pcdDev' = "ok"
    /\ UNCHANGED <<driver, visited, registered, regions, class, present, bound, buf,
                   num, cdevs, nodes, task, failed>>

\* init returned an error: the module is freed.
InitFails == mod' = "unloaded" /\ dpc' = "none"

AllocRegion ==
    /\ dpc = "region"
    /\ \/ regions < MaxRegions /\ regions' = regions + 1 /\ dpc' = "class" /\ UNCHANGED mod
       \/ InitFails /\ UNCHANGED regions
    /\ UNCHANGED <<visited, registered, class, total, devices, task, failed>>

\* A failure returns at once: the region stays reserved, so the next load gets
\* another device_num_base and never meets a cdev left at this one.
ClassCreate ==
    /\ dpc = "class"
    /\ \/ class' = TRUE /\ dpc' = "register" /\ UNCHANGED <<mod, cdevs>>
       \/ InitFails /\ cdevs' = [n \in Number |-> <<>>] /\ UNCHANGED class
    /\ UNCHANGED <<driver, visited, registered, regions, total, pcdDev, present,
                   bound, buf, num, nodes, task, failed>>

\* platform_driver_register, whose result nobody looks at.
DriverRegister ==
    /\ dpc = "register"
    /\ \/ registered' = TRUE /\ dpc' = "attach" /\ UNCHANGED <<mod, failed>>
       \/ registered' = FALSE /\ mod' = "live" /\ dpc' = "none" /\ Fails
    /\ UNCHANGED <<visited, regions, class, total, devices, task>>

Unvisited == (present \ bound) \ visited

\* The driver core offers the driver the devices on the bus, one at a time.
DriverAttach(d) ==
    /\ dpc = "attach"
    /\ Idle("drv")
    /\ d \in Unvisited
    /\ ~Locked(d)
    /\ visited' = visited \cup {d}
    /\ Enter("drv", d, "alloc")
    /\ UNCHANGED <<mod, dpc, registered, regions, class, total, devices, failed>>

InitSucceeds ==
    /\ dpc = "attach"
    /\ Idle("drv")
    /\ Unvisited = {}
    /\ mod' = "live"
    /\ dpc' = "none"
    /\ visited' = {}
    /\ UNCHANGED <<registered, regions, class, total, devices, task, failed>>

Rmmod ==
    /\ mod = "live"
    /\ MayStart("drv")
    /\ mod' = "going"
    /\ dpc' = "unregister"
    /\ UNCHANGED <<visited, registered, regions, class, total, devices, task, failed>>

\* The driver leaves the bus once nobody offers it a device any more.
DriverUnregister ==
    /\ dpc = "unregister"
    /\ tpc["bus"] \notin ProbePc
    /\ registered' = FALSE
    /\ dpc' = "detach"
    /\ UNCHANGED <<mod, visited, regions, class, total, devices, task, failed>>

DriverDetach(d) ==
    /\ dpc = "detach"
    /\ Idle("drv")
    /\ d \in bound
    /\ ~Locked(d)
    /\ Enter("drv", d, "destroy")
    /\ UNCHANGED <<drv, total, devices, failed>>

\* Mutant: the class is destroyed around what is still in it.
ClassDestroyEarly ==
    /\ dpc = "detach"
    /\ Idle("drv")
    /\ class' = FALSE
    /\ dpc' = "unreg"
    /\ nodes' = {[x EXCEPT !.inClass = FALSE] : x \in nodes}
    /\ UNCHANGED <<driver, mod, visited, registered, regions, total, pcdDev, present,
                   bound, buf, num, cdevs, task, failed>>

ClassDestroy ==
    /\ dpc = "detach"
    /\ Idle("drv")
    /\ bound = {}
    /\ class' = FALSE
    /\ dpc' = "unreg"
    /\ nodes' = {[x EXCEPT !.inClass = FALSE] : x \in nodes}
    /\ UNCHANGED <<driver, mod, visited, registered, regions, total, pcdDev, present,
                   bound, buf, num, cdevs, task, failed>>

UnregChrdev ==
    /\ dpc = "unreg"
    /\ regions' = regions - 1
    /\ mod' = "unloaded"
    /\ dpc' = "none"
    /\ UNCHANGED <<visited, registered, class, total, devices, task, failed>>

-----------------------------------------------------------------------------
(* the specification *)

Probe(t) ==
    \/ ProbeAlloc(t) \/ DeviceNumber(t) \/ CdevAdd(t) \/ DeviceCreate(t)
    \/ CheckDevice(t) \/ ProbeUndo(t) \/ CountDevice(t) \/ CreateGroup(t) \/ GroupUndo(t)

Remove(t) == RemoveNode(t) \/ RemoveCdev(t) \/ Uncount(t)

Call(t) == Probe(t) \/ LoadTotal(t) \/ Remove(t)

Loader ==
    \/ AllocRegion \/ ClassCreate \/ DriverRegister \/ InitSucceeds
    \/ DriverUnregister \/ ClassDestroy \/ UnregChrdev
    \/ \E d \in Dev : DriverAttach(d) \/ DriverDetach(d)

Next ==
    \/ Insmod \/ Rmmod \/ Loader
    \/ \E t \in Task : Call(t)
    \/ \E d \in Dev : DeviceAdd(d) \/ DeviceDel(d)

Spec == Init /\ [][Next]_vars

-----------------------------------------------------------------------------
(* properties *)

Quiet == \A t \in Task : Idle(t)

\* Every variable has its type.  The tasks of the platform driver overlap and its
\* count may be anything, negative too; the others', one task at a time, cannot.
TypeOK ==
    /\ driver \in Drivers
    /\ mod \in {"unloaded", "coming", "live", "going"}
    /\ dpc \in {"none", "region", "class", "register", "attach", "unregister",
                "detach", "unreg"}
    /\ visited \subseteq Dev
    /\ registered \in BOOLEAN
    /\ regions \in 0..MaxRegions
    /\ class \in BOOLEAN
    /\ total \in Int
    /\ driver # "platform" => total \in Number
    /\ pcdDev \in {"ok", "err"}
    /\ present \subseteq Dev
    /\ bound \subseteq present
    /\ buf \in [Dev -> {0, SizeofSize}]
    /\ num \in [Dev -> Number]
    /\ DOMAIN cdevs = Number
    /\ \A n \in Number : cdevs[n] \in Seq(Dev)
    /\ nodes \subseteq [name : Number, num : Number, dev : Dev, inClass : BOOLEAN]
    /\ tpc \in [Task -> {"idle"} \cup ProbePc \cup RemovePc]
    /\ tdev \in [Task -> Dev]
    /\ seen \in [Task -> Int]
    /\ failed \in BOOLEAN

\* Numbers by id: whatever else is probed or removed meanwhile, and whichever
\* call fails, opening the number of a bound device leads to that device and to
\* no other (pcd_platform_driver.c:195-214 and 227-228).
BoundIsReachable ==
    driver = "platform" =>
        \A d \in bound : ~Locked(d) => cdevs[num[d]] = <<d>>

\* No number leads to a device whose private data is gone, neither after a probe
\* that failed at any of its calls nor after a remove (the returns at
\* pcd_platform_driver.c:204 and 213, and lines 227-228; pcd_fops would work on
\* freed memory).  The sysfs driver breaks it at its line 261.
CdevsAreAlive ==
    driver # "sysfs" =>
        \A n \in Number : \A k \in 1..Len(cdevs[n]) : buf[cdevs[n][k]] # 0

\* However loading the driver and adding devices interleave, no device is missed:
\* as long as no call failed, each device on the bus is bound, with the node and
\* the number of its id (pcd_platform_driver.c:133, 195, 208 against
\* pcd_device_setup.c:83).
EveryDeviceServed ==
    driver = "platform" /\ mod = "live" /\ Quiet /\ ~failed =>
        /\ bound = present
        /\ nodes = {Node(d, d, d) : d \in present}

\* Numbers by count: between calls every bound device has a node of its own that
\* leads to its own number, and there is no other node, although devices leave
\* in any order and the count repeats numbers in use
\* (pcd_platform_driver_dt.c:254-273 and 286).
NodesMatchDevices ==
    driver # "platform" /\ Quiet =>
        /\ {x.dev : x \in nodes} = bound
        /\ Cardinality(nodes) = Cardinality(bound)
        /\ \A x, y \in nodes : x.num = num[x.dev] /\ (x # y => x.num # y.num)

\* total_devices, by which the dt driver numbers the next device, is the number of
\* devices that are bound, with failed probes and removes in any order
\* (pcd_platform_driver_dt.c:275 against 288, and 254).  The sysfs driver counts a
\* device whose attributes it could not create; the tasks of the platform driver
\* overlap and lose updates, so that its count stays wrong until the next load.
CountAccurate ==
    driver = "dt" /\ mod # "unloaded" /\ Quiet => total = Cardinality(bound)

\* An unload, or a load that fails, leaves no device bound, no node, no class and
\* no cdev behind (pcd_platform_driver_dt.c:150-157).  Excepted are the cdev of the
\* sysfs driver, a node of the platform driver when two probes at once mistake
\* each other's pcd_dev, and the region left by a failed class_create.
UnloadLeavesNothing ==
    mod = "unloaded" =>
        /\ bound = {} /\ ~class /\ ~registered
        /\ driver # "platform" => nodes = {}
        /\ driver # "sysfs" => \A n \in Number : cdevs[n] = <<>>

\* "Dynamically allocate memory for the device buffer using size information from
\* the platform data" (pcd_platform_driver.c:186-187): the buffer of a bound
\* device has the size its platform data gives.
BufferHoldsDevice ==
    \A d \in bound : ~Locked(d) => buf[d] >= PlatformSize(d)
=============================================================================
