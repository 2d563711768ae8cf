-------------------------- MODULE PcdPlatformProofs --------------------------
(***************************************************************************)
(* The safety properties of PcdPlatform for any number of devices and any  *)
(* bounds, with the platform driver and the device setup running at the    *)
(* same time, and the device tree drivers one task at a time: two probes   *)
(* of theirs at once may read the same count before either adds to it.     *)
(***************************************************************************)
EXTENDS PcdPlatform, FiniteSetTheorems, SequenceTheorems, TLAPS

\* The tasks do not overlap, except with the platform driver.
SerialOverlays == Overlapping \subseteq {"platform"}

\* Where the loader is, and what exists there.
LoadInv ==
    /\ driver \in Overlapping => driver = "platform"
    /\ mod \in {"unloaded", "live"} <=> dpc = "none"
    /\ mod = "coming" <=> dpc \in {"region", "class", "register", "attach"}
    /\ class <=> dpc \in {"register", "attach", "unregister", "detach"} \/ mod = "live"
    /\ registered => dpc \in {"attach", "unregister"} \/ mod = "live"
    /\ dpc = "attach" => registered
    /\ dpc \notin {"none", "region"} \/ mod = "live" => regions > 0
    /\ bound # {} => registered \/ dpc = "detach"
    /\ visited # {} => dpc = "attach"

\* Which devices the tasks work on, and when.
TaskInv ==
    /\ \A t \in Task :
        /\ ~Idle(t) => tdev[t] \in present
        /\ tpc[t] \in ProbePc => tdev[t] \notin bound
        /\ tpc[t] \in RemovePc => tdev[t] \in bound
        /\ tpc[t] \in {"group", "undo_node"} => driver = "sysfs"
    /\ \A t, u \in Task : t # u /\ ~Idle(t) /\ ~Idle(u) => tdev[t] # tdev[u]
    /\ tpc["drv"] \in ProbePc => dpc = "attach"
    /\ tpc["drv"] \in RemovePc => dpc = "detach"
    /\ tpc["bus"] \in ProbePc => registered
    /\ driver \notin Overlapping /\ ~Idle("bus") => dpc = "none"

\* Private data lives from its allocation until probe fails or remove returns.
DataInv ==
    /\ \A d \in bound : buf[d] = SizeofSize /\ (driver = "platform" => num[d] = d)
    /\ \A t \in Task :
        /\ tpc[t] \in ProbePc \ {"alloc"} => buf[tdev[t]] = SizeofSize
        /\ driver = "platform" /\ tpc[t] \in ProbePc \ {"alloc", "number"} =>
               num[tdev[t]] = tdev[t]

\* The sysfs driver counts a device before its attributes are there.
Grouping == IF \E t \in Task : At(t, "group") THEN 1 ELSE 0

CountInv ==
    /\ driver = "dt" => total = Cardinality(bound)
    /\ driver = "sysfs" => /\ total >= Cardinality(bound) + Grouping
                           /\ total <= MaxTotal + Cardinality(bound) + Grouping
    /\ driver # "platform" =>
           \A t \in Task : tpc[t] \in {"incr", "decr"} => seen[t] = total

\* The devices that have a cdev in the map, except with the sysfs driver.
CdevBound(d) == d \in bound /\ \A t \in Task : tdev[t] = d => tpc[t] \notin {"uncount", "decr"}
CdevProbing(t) == tpc[t] \in {"device", "check", "undo", "count", "incr"}
HasCdev(d) == CdevBound(d) \/ \E t \in Task : tdev[t] = d /\ CdevProbing(t)

\* With the platform driver each number has the cdev of its device, or none.
PlatformCdevs ==
    driver = "platform" =>
        \A n \in Number : cdevs[n] = IF n \in Dev /\ HasCdev(n) THEN <<n>> ELSE <<>>

\* With the dt driver the cdev of a device that is being probed may lie in front
\* of the cdev of a bound device with the same number.
DtCdevs ==
    driver = "dt" =>
        /\ \A d \in Dev : CdevBound(d) /\ (\A t \in Task : CdevProbing(t) => num[tdev[t]] # num[d])
               => cdevs[num[d]] = <<d>>
        /\ \A t \in Task : CdevProbing(t) =>
               /\ \A d \in Dev : CdevBound(d) /\ num[d] = num[tdev[t]]
                      => cdevs[num[d]] = <<tdev[t], d>>
               /\ (\A d \in Dev : CdevBound(d) => num[d] # num[tdev[t]])
                      => cdevs[num[tdev[t]]] = <<tdev[t]>>
        /\ \A n \in Number :
               /\ \A d \in Dev : CdevBound(d) => num[d] # n
               /\ \A t \in Task : CdevProbing(t) => num[tdev[t]] # n
               => cdevs[n] = <<>>

\* The probes that have created their node, and the devices that have one.
MadeNode(t) ==
    tpc[t] \in {"count", "incr", "group", "undo_node"} \/ (tpc[t] = "check" /\ pcdDev = "ok")
HasNode(d) ==
    \/ d \in bound /\ \A t \in Task : tdev[t] = d => tpc[t] \notin {"del", "uncount", "decr"}
    \/ \E t \in Task : tdev[t] = d /\ MadeNode(t)

\* Numbers by count repeat, but device_create admits none twice.
NumbersInv ==
    driver # "platform" =>
        /\ \A d, e \in bound : num[d] = num[e] => d = e
        /\ \A t \in Task : MadeNode(t) => \A d \in bound : num[d] # num[tdev[t]]

NodesInv ==
    driver # "platform" =>
        /\ \A x \in nodes : x.inClass /\ HasNode(x.dev) /\ x.num = num[x.dev]
        /\ \A d \in Dev : HasNode(d) => \E x \in nodes : x.dev = d
        /\ \A x, y \in nodes : x.dev = y.dev => x = y

\* Until a call fails, the probes of the platform driver all succeed.
ServedInv ==
    driver = "platform" /\ ~failed =>
        /\ pcdDev = "ok" /\ \A t \in Task : tpc[t] # "undo"
        /\ nodes = {Node(d, d, d) : d \in {e \in Dev : HasNode(e)}}
        /\ mod = "live" => registered
        /\ dpc = "attach" \/ mod = "live" =>
               \A d \in present \ bound :
                   \/ \E t \in Task : tdev[t] = d /\ tpc[t] \in ProbePc
                   \/ dpc = "attach" /\ d \notin visited

IInv ==
    /\ TypeOK /\ LoadInv /\ TaskInv /\ DataInv /\ CountInv
    /\ PlatformCdevs /\ DtCdevs /\ NumbersInv /\ NodesInv /\ ServedInv

USE NAssumption, DriversAssumption, OverlapAssumption, BoundAssumption

-----------------------------------------------------------------------------
(* sets, sequences and tasks *)

\* A set of devices is finite and has at most N members.
LEMMA DevicesCounted ==
  ASSUME NEW S, S \subseteq Dev
  PROVE  IsFiniteSet(S) /\ Cardinality(S) \in 0..N
<1>1. IsFiniteSet(Dev) /\ Cardinality(Dev) = N
  BY FS_Interval DEF Dev
<1>2. IsFiniteSet(S) /\ Cardinality(S) <= Cardinality(Dev)
  BY <1>1, FS_Subset
<1> QED
  BY <1>1, <1>2, FS_CardinalityType

LEMMA DeviceAddedToCount ==
  ASSUME NEW S, S \subseteq Dev, NEW d \in Dev \ S
  PROVE  Cardinality(S \cup {d}) = Cardinality(S) + 1
BY DevicesCounted, FS_AddElement

LEMMA DeviceTakenFromCount ==
  ASSUME NEW S, S \subseteq Dev, NEW d \in S
  PROVE  Cardinality(S \ {d}) = Cardinality(S) - 1
BY DevicesCounted, FS_RemoveElement

\* A cdev in front of the others, and the first one taken off.
LEMMA StackPush ==
  ASSUME NEW S, NEW s \in Seq(S), NEW x \in S
  PROVE  /\ <<x>> \o s \in Seq(S)
         /\ s = <<>> => <<x>> \o s = <<x>>
         /\ \A y \in S : s = <<y>> => <<x>> \o s = <<x, y>>
<1>1. <<x>> \in Seq(S)
  OBVIOUS
<1>2. <<x>> \o s \in Seq(S)
  BY <1>1, ConcatProperties
<1>3. s = <<>> => <<x>> \o s = <<x>>
  BY <1>1, ConcatEmptySeq
<1>4. \A y \in S : <<x>> \o <<y>> = <<x, y>>
  <2> SUFFICES ASSUME NEW y \in S PROVE <<x>> \o <<y>> = <<x, y>>
    OBVIOUS
  <2> DEFINE pair == <<x, y>>
  <2>1. <<y>> \in Seq(S) /\ Len(<<x>>) = 1 /\ Len(<<y>>) = 1 /\ <<x>>[1] = x /\ <<y>>[1] = y
    OBVIOUS
  <2>2. pair \in Seq(S) /\ Len(pair) = 2 /\ pair[1] = x /\ pair[2] = y
    OBVIOUS
  <2>3. /\ <<x>> \o <<y>> \in Seq(S) /\ Len(<<x>> \o <<y>>) = 2
        /\ (<<x>> \o <<y>>)[1] = x /\ (<<x>> \o <<y>>)[2] = y
    BY <1>1, <2>1, ConcatProperties
  <2> HIDE DEF pair
  <2>4. \A i \in 1..Len(pair) : (<<x>> \o <<y>>)[i] = pair[i]
    BY <2>2, <2>3
  <2>5. <<x>> \o <<y>> = pair
    BY <2>2, <2>3, <2>4, SeqEqual
  <2> QED
    BY <2>5 DEF pair
<1> QED
  BY <1>2, <1>3, <1>4

LEMMA StackPop ==
  ASSUME NEW S, NEW s \in Seq(S), s # <<>>
  PROVE  Tail(s) \in Seq(S)
BY HeadTailProperties

LEMMA TailOfPair ==
  ASSUME NEW S, NEW x \in S, NEW y \in S
  PROVE  Tail(<<x>>) = <<>> /\ Tail(<<x, y>>) = <<y>> /\ <<x>> # <<>> /\ <<x, y>> # <<>>
OBVIOUS

\* A task that is not idle is in a probe or in a remove.
LEMMA TaskPc ==
  ASSUME TypeOK, NEW t \in Task
  PROVE  Idle(t) \/ tpc[t] \in ProbePc \/ tpc[t] \in RemovePc
BY DEF TypeOK, Idle

\* Without the driver on the bus nothing is bound and no task works on a device.
LEMMA Quiescent ==
  ASSUME TypeOK, LoadInv, TaskInv, ~registered,
         dpc = "detach" => Idle("drv") /\ bound = {}
  PROVE  bound = {} /\ \A t \in Task : Idle(t)
<1>1. bound = {}
  BY DEF LoadInv
<1>2. tpc["drv"] \notin RemovePc /\ tpc["bus"] \notin RemovePc
  BY <1>1 DEF TaskInv, Task
<1>3. tpc["drv"] \notin ProbePc /\ tpc["bus"] \notin ProbePc
  BY DEF TaskInv, LoadInv
<1> QED
  BY <1>1, <1>2, <1>3, TaskPc DEF Task

\* Then the map is empty, and the class as well, if nothing has failed.
LEMMA NothingLeft ==
  ASSUME IInv, bound = {}, \A t \in Task : Idle(t)
  PROVE  /\ driver # "sysfs" => \A n \in Number : cdevs[n] = <<>>
         /\ driver # "platform" \/ ~failed => nodes = {}
<1>1. \A d \in Dev : ~HasCdev(d) /\ ~CdevBound(d) /\ ~HasNode(d)
  BY DEF HasCdev, HasNode, CdevBound, CdevProbing, MadeNode, Idle
<1>2. \A t \in Task : ~CdevProbing(t)
  BY DEF CdevProbing, Idle
<1>3. driver \in {"platform", "dt", "sysfs"}
  BY DEF IInv, TypeOK
<1>4. driver # "sysfs" => \A n \in Number : cdevs[n] = <<>>
  <2>1. CASE driver = "platform"
    BY <1>1, <2>1 DEF IInv, PlatformCdevs
  <2>2. CASE driver = "dt"
    BY <1>1, <1>2, <2>2 DEF IInv, DtCdevs, CdevBound
  <2> QED
    BY <1>3, <2>1, <2>2
<1>5. driver # "platform" => nodes = {}
  BY <1>1 DEF IInv, NodesInv, TypeOK
<1>6. driver = "platform" /\ ~failed => nodes = {}
  BY <1>1 DEF IInv, ServedInv
<1> QED
  BY <1>4, <1>5, <1>6

\* The tasks of the device tree drivers do not overlap.
LEMMA Serial ==
  ASSUME IInv, driver # "platform", NEW t \in Task, ~Idle(t), NEW u \in Task \ {t}
  PROVE  Idle(u)
<1>1. driver \notin Overlapping
  BY DEF IInv, LoadInv
<1>2. ~Idle("bus") => Idle("drv")
  BY <1>1, TaskPc DEF IInv, TaskInv, Task
<1> QED
  BY <1>2 DEF Task

-----------------------------------------------------------------------------
(* the initial states *)

LEMMA InitInv == SerialOverlays /\ Init => IInv
<1> SUFFICES ASSUME SerialOverlays, Init PROVE IInv
  OBVIOUS
<1>1. bound = {} /\ Cardinality(bound) = 0 /\ \A t \in Task : tpc[t] = "idle"
  BY FS_EmptySet DEF Init
<1>2. TypeOK
  <2>1. 0 \in Dev /\ 0 \in Number /\ <<>> \in Seq(Dev)
    BY DEF Dev, Number
  <2>2. /\ buf \in [Dev -> {0, SizeofSize}] /\ num \in [Dev -> Number]
        /\ DOMAIN cdevs = Number /\ \A n \in Number : cdevs[n] \in Seq(Dev)
    BY <2>1 DEF Init
  <2>3. /\ tpc \in [Task -> {"idle"} \cup ProbePc \cup RemovePc] /\ tdev \in [Task -> Dev]
        /\ seen \in [Task -> Int]
    BY <2>1 DEF Init
  <2> QED
    BY <2>1, <2>2, <2>3 DEF Init, TypeOK
<1>3. LoadInv
  BY DEF Init, LoadInv, SerialOverlays
<1>4. TaskInv /\ DataInv
  BY <1>1 DEF Init, TaskInv, DataInv, Idle, ProbePc, RemovePc, Task
<1>5. CountInv
  <2>1. Grouping = 0
    BY <1>1 DEF Grouping, At
  <2> QED
    BY <1>1, <2>1 DEF Init, CountInv
<1>6. \A d \in Dev : ~HasCdev(d) /\ ~CdevBound(d) /\ ~HasNode(d)
  BY <1>1 DEF HasCdev, HasNode, CdevBound, CdevProbing, MadeNode
<1>7. PlatformCdevs /\ DtCdevs
  BY <1>1, <1>6 DEF Init, PlatformCdevs, DtCdevs, CdevProbing
<1>8. NumbersInv /\ NodesInv
  BY <1>1, <1>6 DEF Init, NumbersInv, NodesInv, MadeNode
<1>9. ServedInv
  BY <1>1, <1>6 DEF Init, ServedInv
<1> QED
  BY <1>2, <1>3, <1>4, <1>5, <1>7, <1>8, <1>9 DEF IInv

-----------------------------------------------------------------------------
(* the module: steps that leave the devices and the tasks alone *)

\* What is said of the devices and the tasks holds as long as they stay.
LEMMA DevicesStay ==
  ASSUME IInv, UNCHANGED <<devices, task, total>>
  PROVE  DataInv' /\ CountInv' /\ PlatformCdevs' /\ DtCdevs' /\ NumbersInv' /\ NodesInv'
<1> USE DEF devices, task
<1>1. /\ \A d : CdevBound(d)' = CdevBound(d) /\ HasCdev(d)' = HasCdev(d) /\ HasNode(d)' = HasNode(d)
      /\ \A t : CdevProbing(t)' = CdevProbing(t) /\ MadeNode(t)' = MadeNode(t)
  BY DEF CdevBound, HasCdev, HasNode, CdevProbing, MadeNode
<1>2. DataInv' /\ NumbersInv' /\ NodesInv'
  BY <1>1 DEF IInv, DataInv, NumbersInv, NodesInv
<1>3. CountInv'
  BY DEF IInv, CountInv, Grouping, At
<1>4. PlatformCdevs' /\ DtCdevs'
  BY <1>1 DEF IInv, PlatformCdevs, DtCdevs
<1> QED
  BY <1>2, <1>3, <1>4

\* Which devices are served depends on the module and the failures as well.
LEMMA ServedStays ==
  ASSUME IInv, UNCHANGED <<devices, task>>, ~failed' => ~failed,
         ~failed' /\ mod' = "live" => registered',
         ~failed' /\ driver = "platform" /\ (dpc' = "attach" \/ mod' = "live") =>
           \A d \in present \ bound : \/ \E t \in Task : tdev[t] = d /\ tpc[t] \in ProbePc
                                      \/ dpc' = "attach" /\ d \notin visited'
  PROVE  ServedInv'
<1> USE DEF devices, task
<1>1. \A d : HasNode(d)' = HasNode(d)
  BY DEF HasNode, MadeNode
<1>2. driver = "platform" /\ ~failed' =>
        pcdDev = "ok" /\ (\A t \in Task : tpc[t] # "undo")
          /\ nodes = {Node(d, d, d) : d \in {e \in Dev : HasNode(e)}}
  BY DEF IInv, ServedInv
<1> QED
  BY <1>1, <1>2 DEF ServedInv

\* No device is offered while the driver is not on the bus.
LEMMA InsmodStep == ASSUME IInv, Insmod PROVE IInv'
<1> USE DEF Insmod, task
<1>1. bound = {} /\ Cardinality(bound) = 0 /\ \A t \in Task : tpc[t] = "idle"
  BY Quiescent, FS_EmptySet DEF IInv, LoadInv, Idle
<1>2. TypeOK'
  BY DEF IInv, TypeOK, Number
<1>3. LoadInv'
  BY <1>1 DEF IInv, LoadInv
<1>4. TaskInv'
  BY <1>1 DEF TaskInv, Idle, ProbePc, RemovePc, Task
<1>5. DataInv'
  BY DEF IInv, DataInv
<1>6. PlatformCdevs' /\ DtCdevs'
  <2>1. /\ \A d : CdevBound(d)' = CdevBound(d) /\ HasCdev(d)' = HasCdev(d)
        /\ \A t : CdevProbing(t)' = CdevProbing(t)
    BY DEF HasCdev, CdevBound, CdevProbing
  <2> QED
    BY <2>1 DEF IInv, PlatformCdevs, DtCdevs
<1>7. CountInv'
  <2>1. Grouping' = 0
    BY <1>1 DEF Grouping, At
  <2> QED
    BY <1>1, <2>1 DEF CountInv
<1>8. NumbersInv' /\ NodesInv'
  <2>1. \A t \in Task : ~MadeNode(t)' /\ ~MadeNode(t)
    BY <1>1 DEF MadeNode
  <2>2. \A d : HasNode(d)' <=> HasNode(d)
    BY <2>1 DEF HasNode
  <2> QED
    BY <2>1, <2>2 DEF IInv, NumbersInv, NodesInv
<1>9. ServedInv'
  <2>1. \A d : ~HasNode(d)' /\ ~HasNode(d)
    BY <1>1 DEF HasNode, MadeNode
  <2> QED
    BY <1>1, <2>1 DEF IInv, ServedInv
<1> QED
  BY <1>2, <1>3, <1>4, <1>5, <1>6, <1>7, <1>8, <1>9 DEF IInv

LEMMA AllocRegionStep == ASSUME IInv, AllocRegion PROVE IInv'
<1> USE DEF AllocRegion, InitFails, task, devices
<1>1. TypeOK'
  <2>1. regions' \in 0..MaxRegions
    BY DEF IInv, TypeOK
  <2> QED
    BY <2>1 DEF IInv, TypeOK
<1>2. LoadInv' /\ TaskInv'
  BY DEF IInv, TypeOK, LoadInv, TaskInv, Idle
<1>3. ServedInv'
  <2>1. mod' # "live" /\ dpc' # "attach"
    BY DEF IInv, LoadInv
  <2> QED
    BY <2>1, ServedStays
<1> QED
  BY <1>1, <1>2, <1>3, DevicesStay DEF IInv

LEMMA ClassCreateStep == ASSUME IInv, ClassCreate PROVE IInv'
<1> USE DEF ClassCreate, InitFails, task
<1>1. bound = {} /\ \A t \in Task : Idle(t)
  BY Quiescent DEF IInv, LoadInv
<1>2. TypeOK'
  <2>1. <<>> \in Seq(Dev)
    OBVIOUS
  <2>2. cdevs' = cdevs \/ cdevs' = [n \in Number |-> <<>>]
    OBVIOUS
  <2>3. DOMAIN cdevs' = Number /\ \A n \in Number : cdevs'[n] \in Seq(Dev)
    BY <2>1, <2>2 DEF IInv, TypeOK
  <2> QED
    BY <2>3 DEF IInv, TypeOK
<1>3. LoadInv' /\ TaskInv'
  BY DEF IInv, TypeOK, LoadInv, TaskInv, Idle
<1>4. DataInv' /\ NumbersInv' /\ NodesInv'
  BY DEF IInv, DataInv, NumbersInv, NodesInv, HasNode, MadeNode
<1>5. CountInv'
  BY DEF IInv, CountInv, Grouping, At
<1>6. PlatformCdevs' /\ DtCdevs'
  <2>1. \A d \in Dev : ~HasCdev(d)' /\ ~CdevBound(d)'
    BY <1>1 DEF HasCdev, CdevBound, CdevProbing, Idle
  <2>2. driver # "sysfs" => \A n \in Number : cdevs'[n] = <<>>
    BY <1>1, NothingLeft
  <2>3. \A t \in Task : ~CdevProbing(t)'
    BY <1>1 DEF CdevProbing, Idle
  <2> QED
    BY <2>1, <2>2, <2>3 DEF PlatformCdevs, DtCdevs, CdevBound
<1>7. ServedInv'
  <2>1. \A d : HasNode(d)' <=> HasNode(d)
    BY DEF HasNode, MadeNode
  <2> QED
    BY <2>1 DEF IInv, ServedInv
<1> QED
  BY <1>2, <1>3, <1>4, <1>5, <1>6, <1>7 DEF IInv

LEMMA DriverRegisterStep == ASSUME IInv, DriverRegister PROVE IInv'
<1> USE DEF DriverRegister, Fails, task, devices
<1>1. mod = "coming" /\ ~registered /\ bound = {} /\ visited = {}
  BY DEF IInv, LoadInv
<1>2. \A t \in Task : tpc[t] = "idle"
  BY <1>1, Quiescent DEF IInv, Idle
<1>3. TypeOK'
  BY DEF IInv, TypeOK
<1>4. LoadInv'
  BY <1>1 DEF IInv, LoadInv
<1>5. TaskInv'
  BY <1>2 DEF TaskInv, Idle, ProbePc, RemovePc, Task
<1>6. ServedInv'
  <2>1. CASE registered'
    <3>1. dpc' = "attach" /\ mod' = "coming" /\ visited' = {} /\ failed' = failed
      BY <1>1, <2>1
    <3> QED
      BY <3>1, ServedStays
  <2>2. CASE ~registered'
    <3>1. failed'
      BY <2>2
    <3> QED
      BY <3>1 DEF ServedInv
  <2> QED
    BY <2>1, <2>2
<1> QED
  BY <1>3, <1>4, <1>5, <1>6, DevicesStay DEF IInv

LEMMA InitSucceedsStep == ASSUME IInv, InitSucceeds PROVE IInv'
<1> USE DEF InitSucceeds, task, devices
<1>1. mod = "coming" /\ registered /\ (driver \in Overlapping => driver = "platform")
  BY DEF IInv, LoadInv
<1>2. TypeOK'
  BY DEF IInv, TypeOK
<1>3. LoadInv'
  BY <1>1 DEF IInv, LoadInv
<1>4. TaskInv'
  BY <1>1 DEF IInv, TaskInv, Idle, ProbePc, RemovePc
<1>5. ServedInv'
  <2>1. ASSUME driver = "platform", ~failed, NEW d \in present \ bound
        PROVE  \E t \in Task : tdev[t] = d /\ tpc[t] \in ProbePc
    <3>1. d \in visited
      BY DEF Unvisited
    <3>2. d \in present \ bound
      OBVIOUS
    <3> QED
      BY <2>1, <3>1, <3>2 DEF IInv, ServedInv
  <2> QED
    BY <1>1, <2>1, ServedStays
<1> QED
  BY <1>2, <1>3, <1>4, <1>5, DevicesStay DEF IInv

LEMMA RmmodStep == ASSUME IInv, Rmmod PROVE IInv'
<1> USE DEF Rmmod, task, devices
<1>1. dpc = "none"
  BY DEF IInv, LoadInv
<1>2. TypeOK'
  BY DEF IInv, TypeOK
<1>3. LoadInv'
  BY <1>1 DEF IInv, LoadInv
<1>4. TaskInv'
  <2>1. tpc["drv"] \notin ProbePc /\ tpc["drv"] \notin RemovePc
    BY DEF MayStart, Idle, ProbePc, RemovePc
  <2>2. driver \notin Overlapping => Idle("bus")
    BY DEF MayStart
  <2> QED
    BY <2>1, <2>2 DEF IInv, TaskInv, Idle
<1>5. ServedInv'
  BY ServedStays
<1> QED
  BY <1>2, <1>3, <1>4, <1>5, DevicesStay DEF IInv

LEMMA DriverUnregisterStep == ASSUME IInv, DriverUnregister PROVE IInv'
<1> USE DEF DriverUnregister, task, devices
<1>1. mod = "going"
  BY DEF IInv, TypeOK, LoadInv
<1>2. TypeOK'
  BY DEF IInv, TypeOK
<1>3. LoadInv'
  BY <1>1 DEF IInv, LoadInv
<1>4. TaskInv'
  BY DEF IInv, TaskInv, Idle
<1>5. ServedInv'
  BY <1>1, ServedStays
<1> QED
  BY <1>2, <1>3, <1>4, <1>5, DevicesStay DEF IInv

\* No device is bound any more, so no node is left in the class.
LEMMA ClassDestroyStep == ASSUME IInv, ClassDestroy PROVE IInv'
<1> USE DEF ClassDestroy, task
<1>1. mod = "going" /\ ~registered
  BY DEF IInv, TypeOK, LoadInv
<1>2. bound = {} /\ \A t \in Task : tpc[t] = "idle"
  BY <1>1, Quiescent DEF IInv, Idle
<1>3. TypeOK'
  <2> DEFINE R == [name : Number, num : Number, dev : Dev, inClass : BOOLEAN]
  <2>1. \A x \in R : [x EXCEPT !.inClass = FALSE] \in R
    OBVIOUS
  <2>2. nodes \subseteq R
    BY DEF IInv, TypeOK
  <2> HIDE DEF R
  <2>3. nodes' \subseteq R
    BY <2>1, <2>2
  <2> QED
    BY <2>3 DEF IInv, TypeOK, R
<1>4. LoadInv'
  BY <1>1, <1>2 DEF IInv, LoadInv
<1>5. TaskInv'
  BY <1>2 DEF TaskInv, Idle, ProbePc, RemovePc, Task
<1>6. DataInv'
  BY DEF IInv, DataInv
<1>7. CountInv'
  BY DEF IInv, CountInv, Grouping, At
<1>8. PlatformCdevs' /\ DtCdevs'
  <2>1. /\ \A d : CdevBound(d)' = CdevBound(d) /\ HasCdev(d)' = HasCdev(d)
        /\ \A t : CdevProbing(t)' = CdevProbing(t)
    BY DEF HasCdev, CdevBound, CdevProbing
  <2> QED
    BY <2>1 DEF IInv, PlatformCdevs, DtCdevs
<1>9. driver # "platform" \/ ~failed => nodes' = {}
  BY <1>2, NothingLeft DEF Idle
<1>10. \A d : ~HasNode(d)'
  BY <1>2 DEF HasNode, MadeNode
<1>11. NumbersInv' /\ NodesInv'
  BY <1>2, <1>9, <1>10 DEF NumbersInv, NodesInv, MadeNode
<1>12. ServedInv'
  <2>1. driver = "platform" /\ ~failed => pcdDev = "ok"
    BY DEF IInv, ServedInv
  <2> QED
    BY <1>1, <1>2, <1>9, <1>10, <2>1 DEF ServedInv
<1> QED
  BY <1>3, <1>4, <1>5, <1>6, <1>7, <1>8, <1>11, <1>12 DEF IInv

LEMMA UnregChrdevStep == ASSUME IInv, UnregChrdev PROVE IInv'
<1> USE DEF UnregChrdev, task, devices
<1>1. mod = "going" /\ ~registered /\ bound = {} /\ regions > 0
  BY DEF IInv, TypeOK, LoadInv
<1>2. \A t \in Task : tpc[t] = "idle"
  BY <1>1, Quiescent DEF IInv, Idle
<1>3. TypeOK'
  BY <1>1 DEF IInv, TypeOK
<1>4. LoadInv'
  BY <1>1 DEF IInv, LoadInv
<1>5. TaskInv'
  BY <1>2 DEF TaskInv, Idle, ProbePc, RemovePc, Task
<1>6. ServedInv'
  BY ServedStays
<1> QED
  BY <1>3, <1>4, <1>5, <1>6, DevicesStay DEF IInv

-----------------------------------------------------------------------------
(* the tasks: what a step of task t on device d leaves alone *)

\* Before the step t is idle or works on d, and after it as well; nobody else
\* works on d.
Moves(t, d) ==
    /\ Idle(t) \/ tdev[t] = d
    /\ Idle(t)' \/ tdev'[t] = d
    /\ \A u \in Task \ {t} :
           /\ tpc'[u] = tpc[u] /\ tdev'[u] = tdev[u] /\ seen'[u] = seen[u]
           /\ Idle(u) \/ tdev[u] # d

\* No other device is bound or unbound.
BindsOnly(d) == \A e \in Dev \ {d} : e \in bound' <=> e \in bound

\* A task that works on a device has it to itself.
LEMMA OwnDevice ==
  ASSUME IInv, NEW t \in Task, ~Idle(t)
  PROVE  /\ tdev[t] \in present /\ tdev[t] \in Dev
         /\ \A u \in Task \ {t} : Idle(u) \/ tdev[u] # tdev[t]
BY DEF IInv, TaskInv, TypeOK

LEMMA CdevFrame ==
  ASSUME NEW t \in Task, NEW d \in Dev, Moves(t, d), BindsOnly(d)
  PROVE  /\ \A e \in Dev \ {d} : /\ CdevBound(e)' <=> CdevBound(e)
                                 /\ HasCdev(e)' <=> HasCdev(e)
         /\ \A u \in Task \ {t} : CdevProbing(u)' <=> CdevProbing(u)
         /\ CdevBound(d) <=> d \in bound /\ tpc[t] \notin {"uncount", "decr"}
         /\ HasCdev(d) <=> CdevBound(d) \/ CdevProbing(t)
         /\ CdevBound(d)' <=> d \in bound' /\ tpc'[t] \notin {"uncount", "decr"}
         /\ HasCdev(d)' <=> CdevBound(d)' \/ CdevProbing(t)'
<1> USE DEF Moves, BindsOnly, Idle
<1>1. \A u \in Task \ {t} : CdevProbing(u)' <=> CdevProbing(u)
  BY DEF CdevProbing
<1>2. \A e \in Dev \ {d} : CdevBound(e)' <=> CdevBound(e)
  BY DEF CdevBound
<1>3. \A e \in Dev \ {d} : HasCdev(e)' <=> HasCdev(e)
  BY <1>1, <1>2 DEF HasCdev, CdevProbing
<1>4. /\ CdevBound(d) <=> d \in bound /\ tpc[t] \notin {"uncount", "decr"}
      /\ CdevBound(d)' <=> d \in bound' /\ tpc'[t] \notin {"uncount", "decr"}
  BY DEF CdevBound
<1>5. HasCdev(d) <=> CdevBound(d) \/ CdevProbing(t)
  BY DEF HasCdev, CdevProbing
<1>6. HasCdev(d)' <=> CdevBound(d)' \/ CdevProbing(t)'
  BY DEF HasCdev, CdevProbing
<1> QED
  BY <1>1, <1>2, <1>3, <1>4, <1>5, <1>6

LEMMA NodeFrame ==
  ASSUME NEW t \in Task, NEW d \in Dev, Moves(t, d), BindsOnly(d),
         pcdDev' = pcdDev \/ \A u \in Task \ {t} : Idle(u)
  PROVE  /\ \A e \in Dev \ {d} : HasNode(e)' <=> HasNode(e)
         /\ \A u \in Task \ {t} : MadeNode(u)' <=> MadeNode(u)
         /\ HasNode(d) <=> (d \in bound /\ tpc[t] \notin {"del", "uncount", "decr"}) \/ MadeNode(t)
         /\ HasNode(d)' <=>
                (d \in bound' /\ tpc'[t] \notin {"del", "uncount", "decr"}) \/ MadeNode(t)'
<1> USE DEF Moves, BindsOnly, Idle
<1>1. \A u \in Task \ {t} : MadeNode(u)' <=> MadeNode(u)
  BY DEF MadeNode
<1>2. \A e \in Dev \ {d} : HasNode(e)' <=> HasNode(e)
  BY <1>1 DEF HasNode, MadeNode
<1>3. HasNode(d) <=> (d \in bound /\ tpc[t] \notin {"del", "uncount", "decr"}) \/ MadeNode(t)
  BY DEF HasNode, MadeNode
<1>4. HasNode(d)' <=> (d \in bound' /\ tpc'[t] \notin {"del", "uncount", "decr"}) \/ MadeNode(t)'
  BY DEF HasNode, MadeNode
<1> QED
  BY <1>1, <1>2, <1>3, <1>4

\* A step of a probe or of a remove leaves the module alone.
LEMMA TaskStays ==
  ASSUME IInv, NEW t \in Task, NEW d \in Dev, ~Idle(t), Moves(t, d), BindsOnly(d),
         UNCHANGED <<driver, dpc, registered>>,
         \A e \in Dev \ {d} : e \in present' <=> e \in present,
         ~Idle(t)' => d \in present',
         tpc'[t] \in ProbePc => tpc[t] \in ProbePc /\ d \notin bound',
         tpc'[t] \in RemovePc => tpc[t] \in RemovePc /\ d \in bound',
         tpc'[t] \in {"group", "undo_node"} => driver = "sysfs"
  PROVE  TaskInv'
<1>1. \A u \in Task \ {t} : /\ tpc'[u] = tpc[u] /\ tdev'[u] = tdev[u] /\ tdev[u] \in Dev
                            /\ Idle(u) \/ tdev[u] # d
                            /\ Idle(u)' <=> Idle(u)
  BY DEF Moves, IInv, TypeOK, Idle
<1>2. tdev[t] = d /\ (Idle(t)' \/ tdev'[t] = d)
  BY DEF Moves
<1>3. \A u \in Task : ~Idle(u)' => tdev'[u] \in present'
  BY <1>1, <1>2 DEF IInv, TaskInv
<1>4. \A u \in Task : /\ tpc'[u] \in ProbePc => tdev'[u] \notin bound'
                      /\ tpc'[u] \in RemovePc => tdev'[u] \in bound'
                      /\ tpc'[u] \in {"group", "undo_node"} => driver = "sysfs"
  BY <1>1, <1>2 DEF IInv, TaskInv, BindsOnly, Idle, ProbePc, RemovePc
<1>5. \A u, v \in Task : u # v /\ ~Idle(u)' /\ ~Idle(v)' => tdev'[u] # tdev'[v]
  BY <1>1, <1>2 DEF IInv, TaskInv
<1>6. /\ tpc'["drv"] \in ProbePc => dpc = "attach"
      /\ tpc'["drv"] \in RemovePc => dpc = "detach"
      /\ tpc'["bus"] \in ProbePc => registered
      /\ driver \notin Overlapping /\ ~Idle("bus")' => dpc = "none"
  BY <1>1 DEF IInv, TaskInv, Task
<1> QED
  BY <1>3, <1>4, <1>5, <1>6 DEF TaskInv

LEMMA DataStays ==
  ASSUME IInv, NEW t \in Task, NEW d \in Dev, Moves(t, d), BindsOnly(d), driver' = driver,
         \A e \in Dev \ {d} : buf'[e] = buf[e] /\ num'[e] = num[e],
         d \in bound' => buf'[d] = SizeofSize /\ (driver = "platform" => num'[d] = d),
         tpc'[t] \in ProbePc \ {"alloc"} => buf'[d] = SizeofSize,
         driver = "platform" /\ tpc'[t] \in ProbePc \ {"alloc", "number"} => num'[d] = d,
         bound' \subseteq Dev
  PROVE  DataInv'
<1>1. \A u \in Task \ {t} : /\ tpc'[u] = tpc[u] /\ tdev'[u] = tdev[u] /\ tdev[u] \in Dev
                            /\ Idle(u) \/ tdev[u] # d
  BY DEF Moves, IInv, TypeOK
<1>2. Idle(t)' \/ tdev'[t] = d
  BY DEF Moves
<1>3. \A e \in bound' : buf'[e] = SizeofSize /\ (driver = "platform" => num'[e] = e)
  BY DEF IInv, DataInv, BindsOnly
<1>4. \A u \in Task : tpc'[u] \in ProbePc \ {"alloc"} => buf'[tdev'[u]] = SizeofSize
  BY <1>1, <1>2 DEF IInv, DataInv, Idle, ProbePc
<1>5. \A u \in Task : driver = "platform" /\ tpc'[u] \in ProbePc \ {"alloc", "number"} =>
                        num'[tdev'[u]] = tdev'[u]
  BY <1>1, <1>2 DEF IInv, DataInv, Idle, ProbePc
<1> QED
  BY <1>3, <1>4, <1>5 DEF DataInv

\* With the device tree drivers nobody else is at work.
Alone(t) == driver # "platform" => \A u \in Task \ {t} : Idle(u)

\* A step that leaves the map alone, and what cdevs are known to be there.
LEMMA CdevsStay ==
  ASSUME IInv, NEW t \in Task, NEW d \in Dev, Moves(t, d), BindsOnly(d),
         UNCHANGED <<driver, cdevs>>,
         \A e \in Dev \ {d} : num'[e] = num[e],
         CdevBound(d)' <=> CdevBound(d), CdevProbing(t)' <=> CdevProbing(t),
         CdevBound(d) \/ CdevProbing(t) => num'[d] = num[d]
  PROVE  PlatformCdevs' /\ DtCdevs'
<1>1. /\ \A e \in Dev : (CdevBound(e)' <=> CdevBound(e)) /\ (HasCdev(e)' <=> HasCdev(e))
      /\ \A u \in Task : CdevProbing(u)' <=> CdevProbing(u)
  BY CdevFrame
<1>2. \A e \in Dev : CdevBound(e) => num'[e] = num[e]
  OBVIOUS
<1>3. \A u \in Task : CdevProbing(u) => tdev'[u] = tdev[u] /\ num'[tdev[u]] = num[tdev[u]]
  <2>1. \A u \in Task \ {t} : CdevProbing(u) =>
          tdev'[u] = tdev[u] /\ tdev[u] # d /\ tdev[u] \in Dev
    BY DEF Moves, CdevProbing, Idle, IInv, TypeOK
  <2>2. CdevProbing(t) => tdev'[t] = d /\ tdev[t] = d
    BY DEF Moves, CdevProbing, Idle
  <2> QED
    BY <2>1, <2>2
<1>4. PlatformCdevs'
  BY <1>1 DEF IInv, PlatformCdevs
<1>5. DtCdevs'
  <2> SUFFICES ASSUME driver = "dt" PROVE DtCdevs'
    BY DEF DtCdevs
  <2>1. \A u \in Task : CdevProbing(u) => num'[tdev'[u]] = num[tdev[u]] /\ tdev'[u] = tdev[u]
    BY <1>3
  <2>2. ASSUME NEW e \in Dev, CdevBound(e)',
               \A u \in Task : CdevProbing(u)' => num'[tdev'[u]] # num'[e]
        PROVE  cdevs'[num'[e]] = <<e>>
    BY <1>1, <1>2, <2>1, <2>2 DEF IInv, DtCdevs
  <2>3. ASSUME NEW u \in Task, CdevProbing(u)'
        PROVE  /\ \A e \in Dev : CdevBound(e)' /\ num'[e] = num'[tdev'[u]]
                      => cdevs'[num'[e]] = <<tdev'[u], e>>
               /\ (\A e \in Dev : CdevBound(e)' => num'[e] # num'[tdev'[u]])
                      => cdevs'[num'[tdev'[u]]] = <<tdev'[u]>>
    <3>1. CdevProbing(u) /\ num'[tdev'[u]] = num[tdev[u]] /\ tdev'[u] = tdev[u]
      BY <1>1, <2>1, <2>3
    <3>2. /\ \A e \in Dev : CdevBound(e) /\ num[e] = num[tdev[u]]
                 => cdevs[num[e]] = <<tdev[u], e>>
          /\ (\A e \in Dev : CdevBound(e) => num[e] # num[tdev[u]])
                 => cdevs[num[tdev[u]]] = <<tdev[u]>>
      BY <3>1 DEF IInv, DtCdevs
    <3> QED
      BY <1>1, <1>2, <3>1, <3>2
  <2>4. ASSUME NEW n \in Number, \A e \in Dev : CdevBound(e)' => num'[e] # n,
               \A u \in Task : CdevProbing(u)' => num'[tdev'[u]] # n
        PROVE  cdevs'[n] = <<>>
    BY <1>1, <1>2, <2>1, <2>4 DEF IInv, DtCdevs
  <2> QED
    BY <2>2, <2>3, <2>4 DEF DtCdevs
<1> QED
  BY <1>4, <1>5

\* A step that changes the map for the number of its device alone.
LEMMA PlatformCdevsStep ==
  ASSUME IInv, NEW t \in Task, NEW d \in Dev, Moves(t, d), BindsOnly(d), driver' = driver,
         driver = "platform" =>
           /\ \A n \in Number \ {d} : cdevs'[n] = cdevs[n]
           /\ cdevs'[d] = IF HasCdev(d)' THEN <<d>> ELSE <<>>
  PROVE  PlatformCdevs'
<1>1. \A e \in Dev \ {d} : HasCdev(e)' <=> HasCdev(e)
  BY CdevFrame
<1> QED
  BY <1>1 DEF IInv, PlatformCdevs

\* The map of the dt driver while no device is being probed, and while d is.
DtRest ==
    /\ \A e \in Dev : CdevBound(e) => cdevs[num[e]] = <<e>>
    /\ \A n \in Number : (\A e \in Dev : CdevBound(e) => num[e] # n) => cdevs[n] = <<>>

DtFront(d) ==
    /\ \A e \in Dev : CdevBound(e) => cdevs[num[e]] = IF num[e] = num[d] THEN <<d, e>> ELSE <<e>>
    /\ (\A e \in Dev : CdevBound(e) => num[e] # num[d]) => cdevs[num[d]] = <<d>>
    /\ \A n \in Number \ {num[d]} :
           (\A e \in Dev : CdevBound(e) => num[e] # n) => cdevs[n] = <<>>

LEMMA DtBefore ==
  ASSUME IInv, driver = "dt", NEW t \in Task, NEW d \in Dev, tdev[t] = d,
         \A u \in Task \ {t} : Idle(u)
  PROVE  IF CdevProbing(t) THEN DtFront(d) ELSE DtRest
<1>1. \A u \in Task \ {t} : ~CdevProbing(u)
  BY DEF Idle, CdevProbing
<1>2. \A e \in Dev : num[e] \in Number
  BY DEF IInv, TypeOK
<1>3. CASE CdevProbing(t)
  BY <1>1, <1>2, <1>3 DEF IInv, DtCdevs, DtFront
<1>4. CASE ~CdevProbing(t)
  BY <1>1, <1>2, <1>4 DEF IInv, DtCdevs, DtRest
<1> QED
  BY <1>3, <1>4

LEMMA DtAfter ==
  ASSUME NEW t \in Task, NEW d \in Dev, Moves(t, d), Alone(t), driver' = driver,
         driver = "dt" => IF CdevProbing(t)' THEN DtFront(d)' ELSE DtRest',
         \A e \in Dev : num'[e] \in Number
  PROVE  DtCdevs'
<1> SUFFICES ASSUME driver = "dt" PROVE DtCdevs'
  BY DEF DtCdevs
<1>1. \A u \in Task \ {t} : ~CdevProbing(u)'
  BY DEF Moves, Alone, Idle, CdevProbing
<1>2. CASE CdevProbing(t)'
  <2>1. tdev'[t] = d
    BY <1>2 DEF Moves, Idle, CdevProbing
  <2> QED
    BY <1>1, <1>2, <2>1 DEF DtCdevs, DtFront
<1>3. CASE ~CdevProbing(t)'
  BY <1>1, <1>3 DEF DtCdevs, DtRest
<1> QED
  BY <1>2, <1>3

\* A step that leaves the nodes alone, and who has one.
LEMMA NodesStay ==
  ASSUME IInv, NEW t \in Task, NEW d \in Dev, Moves(t, d), BindsOnly(d), Alone(t),
         UNCHANGED <<driver, nodes>>,
         \A e \in Dev \ {d} : num'[e] = num[e],
         driver # "platform" => (HasNode(d)' <=> HasNode(d)),
         HasNode(d) => num'[d] = num[d]
  PROVE  NodesInv'
<1> SUFFICES ASSUME driver # "platform" PROVE NodesInv'
  BY DEF NodesInv
<1>1. \A e \in Dev : HasNode(e)' <=> HasNode(e)
  BY NodeFrame DEF Alone
<1>2. \A x \in nodes : x.dev \in Dev
  BY DEF IInv, TypeOK
<1>3. \A e \in Dev : HasNode(e) => num'[e] = num[e]
  OBVIOUS
<1> QED
  BY <1>1, <1>2, <1>3 DEF IInv, NodesInv

LEMMA NumbersStep ==
  ASSUME IInv, NEW t \in Task, NEW d \in Dev, Moves(t, d), BindsOnly(d), Alone(t),
         driver' = driver, bound' \subseteq Dev,
         \A e \in Dev \ {d} : num'[e] = num[e],
         MadeNode(t)' => d \notin bound',
         driver # "platform" /\ (d \in bound' \/ MadeNode(t)') =>
           \A e \in bound \ {d} : num[e] # num'[d]
  PROVE  NumbersInv'
<1> SUFFICES ASSUME driver # "platform" PROVE NumbersInv'
  BY DEF NumbersInv
<1>1. \A u \in Task \ {t} : ~MadeNode(u)'
  BY DEF Moves, Alone, Idle, MadeNode
<1>2. MadeNode(t)' => tdev'[t] = d
  BY DEF Moves, Idle, MadeNode
<1>3. \A e \in bound' \ {d} : e \in bound /\ e \in Dev /\ num'[e] = num[e]
  BY DEF BindsOnly
<1>4. \A e, f \in bound' : num'[e] = num'[f] => e = f
  BY <1>3 DEF IInv, NumbersInv
<1>5. MadeNode(t)' => \A e \in bound' : num'[e] # num'[tdev'[t]]
  BY <1>2, <1>3
<1> QED
  BY <1>1, <1>4, <1>5 DEF NumbersInv

\* A step that binds no device and counts none.
LEMMA CountStays ==
  ASSUME IInv, NEW t \in Task, \A u \in Task \ {t} : tpc'[u] = tpc[u] /\ seen'[u] = seen[u],
         UNCHANGED <<driver, total, bound>>, tpc'[t] = "group" <=> tpc[t] = "group",
         tpc'[t] \notin {"incr", "decr"}
  PROVE  CountInv'
<1>1. Grouping' = Grouping
  BY DEF Grouping, At
<1> QED
  BY <1>1 DEF IInv, CountInv

\* The share of task t in Grouping, when it is alone.
LEMMA GroupingOf ==
  ASSUME NEW t \in Task, NEW d \in Dev, Moves(t, d), Alone(t), driver # "platform"
  PROVE  /\ Grouping = IF tpc[t] = "group" THEN 1 ELSE 0
         /\ Grouping' = IF tpc'[t] = "group" THEN 1 ELSE 0
BY DEF Moves, Alone, Idle, Grouping, At

LEMMA ServedStep ==
  ASSUME IInv, NEW t \in Task, NEW d \in Dev, Moves(t, d), BindsOnly(d),
         UNCHANGED <<driver, mod, dpc, registered>>, failed => failed',
         visited' \subseteq visited \cup {d},
         \A e \in Dev \ {d} : e \in present' <=> e \in present,
         present' \subseteq Dev,
         driver = "platform" /\ ~failed' =>
           /\ pcdDev' = "ok" /\ tpc'[t] # "undo"
           /\ nodes' = {Node(e, e, e) : e \in {f \in Dev : HasNode(f)'}},
         driver = "platform" /\ ~failed' /\ (dpc = "attach" \/ mod = "live")
             /\ d \in present' \ bound' =>
           tpc'[t] \in ProbePc \/ (dpc = "attach" /\ d \notin visited')
  PROVE  ServedInv'
<1> SUFFICES ASSUME driver = "platform", ~failed' PROVE ServedInv'
  BY DEF ServedInv
<1>1. \A u \in Task : tpc'[u] # "undo"
  BY DEF IInv, ServedInv, Moves
<1>2. mod = "live" => registered
  BY DEF IInv, ServedInv
<1>3. ASSUME dpc = "attach" \/ mod = "live", NEW e \in present' \ bound'
      PROVE  \/ \E u \in Task : tdev'[u] = e /\ tpc'[u] \in ProbePc
             \/ dpc = "attach" /\ e \notin visited'
  <2>1. CASE e = d
    BY <1>3, <2>1 DEF Moves, Idle, ProbePc
  <2>2. CASE e # d
    <3>1. e \in Dev /\ e \in present \ bound
      BY <2>2 DEF BindsOnly
    <3>2. \/ \E u \in Task : tdev[u] = e /\ tpc[u] \in ProbePc
          \/ dpc = "attach" /\ e \notin visited
      BY <1>3, <3>1 DEF IInv, ServedInv
    <3>3. \A u \in Task : tdev[u] = e /\ tpc[u] \in ProbePc => tdev'[u] = e /\ tpc'[u] \in ProbePc
      BY <2>2 DEF Moves, Idle, ProbePc
    <3> QED
      BY <2>2, <3>2, <3>3
  <2> QED
    BY <2>1, <2>2
<1> QED
  BY <1>1, <1>2, <1>3 DEF ServedInv

-----------------------------------------------------------------------------
(* a device is offered, taken away, or comes and goes without the driver *)

\* A task starts a probe or a remove of a device that nobody else works on.
LEMMA EnterStep ==
  ASSUME IInv, NEW t \in Task, NEW d \in Dev, NEW pc \in {"alloc", "destroy"},
         Idle(t), Alone(t), ~Locked(d), Enter(t, d, pc),
         UNCHANGED <<driver, mod, dpc, registered, regions, class, total, pcdDev, bound, buf,
                     num, cdevs, nodes, failed>>,
         present' = present \cup {d}, visited' \subseteq visited \cup {d},
         visited' # {} => dpc = "attach",
         pc = "alloc" <=> d \notin bound,
         t = "drv" => dpc = IF pc = "alloc" THEN "attach" ELSE "detach",
         t = "bus" => /\ pc = "alloc" => registered
                      /\ driver \notin Overlapping => dpc = "none"
  PROVE  IInv'
<1>1. /\ tpc[t] = "idle" /\ tpc'[t] = pc /\ tdev'[t] = d /\ ~Idle(t)'
      /\ \A u \in Task \ {t} : tpc'[u] = tpc[u] /\ tdev'[u] = tdev[u] /\ seen'[u] = seen[u]
      /\ tpc' \in [Task -> {"idle"} \cup ProbePc \cup RemovePc] /\ tdev' \in [Task -> Dev]
      /\ seen' \in [Task -> Int]
  BY DEF Enter, IInv, TypeOK, Idle, ProbePc, RemovePc
<1>2. Moves(t, d) /\ BindsOnly(d)
  BY <1>1 DEF Moves, BindsOnly, Locked, Idle
<1>3. TypeOK'
  BY <1>1 DEF IInv, TypeOK
<1>4. LoadInv'
  BY DEF IInv, LoadInv
<1>5. TaskInv'
  <2>1. \A u \in Task \ {t} : (Idle(u) \/ tdev[u] # d) /\ (Idle(u)' <=> Idle(u))
    BY <1>1, <1>2 DEF Moves, Idle
  <2>2. \A u \in Task : /\ ~Idle(u)' => tdev'[u] \in present'
                        /\ tpc'[u] \in ProbePc => tdev'[u] \notin bound'
                        /\ tpc'[u] \in RemovePc => tdev'[u] \in bound'
                        /\ tpc'[u] \in {"group", "undo_node"} => driver' = "sysfs"
    BY <1>1, <2>1 DEF IInv, TaskInv, ProbePc, RemovePc
  <2>3. \A u, v \in Task : u # v /\ ~Idle(u)' /\ ~Idle(v)' => tdev'[u] # tdev'[v]
    BY <1>1, <2>1 DEF IInv, TaskInv
  <2>4. /\ tpc'["drv"] \in ProbePc => dpc' = "attach"
        /\ tpc'["drv"] \in RemovePc => dpc' = "detach"
        /\ tpc'["bus"] \in ProbePc => registered'
        /\ driver' \notin Overlapping /\ ~Idle("bus")' => dpc' = "none"
    BY <1>1, <2>1 DEF IInv, TaskInv, ProbePc, RemovePc, Task
  <2> QED
    BY <2>2, <2>3, <2>4 DEF TaskInv
<1>6. DataInv'
  <2>1. d \in bound' => buf'[d] = SizeofSize /\ (driver = "platform" => num'[d] = d)
    BY DEF IInv, DataInv
  <2>2. bound' \subseteq Dev
    BY DEF IInv, TypeOK
  <2> QED
    BY <1>1, <1>2, <2>1, <2>2, DataStays DEF ProbePc
<1>7. CountInv'
  BY <1>1, CountStays
<1>8. PlatformCdevs' /\ DtCdevs'
  <2>1. (CdevBound(d)' <=> CdevBound(d)) /\ (CdevProbing(t)' <=> CdevProbing(t))
    BY <1>1, <1>2, CdevFrame DEF CdevProbing
  <2> QED
    BY <1>2, <2>1, CdevsStay
<1>9. (HasNode(d)' <=> HasNode(d)) /\ ~MadeNode(t)' /\ \A e \in Dev : HasNode(e)' <=> HasNode(e)
  <2>1. ~MadeNode(t)' /\ ~MadeNode(t)
    BY <1>1 DEF MadeNode
  <2> QED
    BY <1>1, <1>2, <2>1, NodeFrame
<1>10. NumbersInv'
  <2>1. d \in bound' /\ driver # "platform" => \A e \in bound \ {d} : num[e] # num'[d]
    BY DEF IInv, NumbersInv
  <2>2. bound' \subseteq Dev
    BY DEF IInv, TypeOK
  <2> QED
    BY <1>2, <1>9, <2>1, <2>2, NumbersStep
<1>11. NodesInv'
  BY <1>2, <1>9, NodesStay
<1>12. ServedInv'
  <2>1. present' \subseteq Dev
    BY DEF IInv, TypeOK
  <2>2. driver = "platform" /\ ~failed' =>
          /\ pcdDev' = "ok" /\ tpc'[t] # "undo"
          /\ nodes' = {Node(e, e, e) : e \in {f \in Dev : HasNode(f)'}}
    BY <1>1, <1>9 DEF IInv, ServedInv
  <2>3. d \in present' \ bound' => tpc'[t] \in ProbePc
    BY <1>1 DEF ProbePc
  <2> QED
    BY <1>2, <2>1, <2>2, <2>3, ServedStep
<1> QED
  BY <1>3, <1>4, <1>5, <1>6, <1>7, <1>8, <1>10, <1>11, <1>12 DEF IInv

\* While drv attaches or detaches, the bus task of an overlay rests.
LEMMA LoaderAlone ==
  ASSUME IInv, dpc # "none"
  PROVE  Alone("drv")
BY DEF IInv, LoadInv, TaskInv, Alone, Task

LEMMA BusAlone ==
  ASSUME IInv, MayStart("bus")
  PROVE  Alone("bus") /\ Idle("bus") /\ (driver \notin Overlapping => dpc = "none")
<1>1. Idle("bus") /\ (driver \notin Overlapping => dpc = "none")
  BY DEF MayStart
<1>2. driver \notin Overlapping => Idle("drv")
  BY <1>1, TaskPc DEF IInv, TaskInv, Task
<1> QED
  BY <1>1, <1>2 DEF IInv, LoadInv, Alone, Task

LEMMA DriverAttachStep == ASSUME IInv, NEW d \in Dev, DriverAttach(d) PROVE IInv'
<1> USE DEF DriverAttach, devices
<1>1. d \in present /\ d \notin bound /\ present' = present \cup {d}
  BY DEF Unvisited
<1>2. Alone("drv")
  BY LoaderAlone
<1> QED
  BY <1>1, <1>2, EnterStep DEF Task

LEMMA DriverDetachStep == ASSUME IInv, NEW d \in Dev, DriverDetach(d) PROVE IInv'
<1> USE DEF DriverDetach, devices, drv
<1>1. d \in present /\ present' = present \cup {d}
  BY DEF IInv, TypeOK
<1>2. Alone("drv") /\ visited = {}
  BY LoaderAlone DEF IInv, LoadInv
<1> QED
  BY <1>1, <1>2, EnterStep DEF Task

\* A device comes or goes while the driver is not there, or has not bound it.
LEMMA PresentStep ==
  ASSUME IInv, NEW d \in Dev, Idle("bus"), Alone("bus"), ~Locked(d), d \notin bound,
         UNCHANGED <<driver, drv, total, pcdDev, bound, buf, num, cdevs, nodes, task, failed>>,
         \/ present' = present \cup {d} /\ ~registered
         \/ present' = present \ {d}
  PROVE  IInv'
<1> USE DEF drv, task
<1>1. \A e \in Dev \ {d} : e \in present' <=> e \in present
  OBVIOUS
<1>2. Moves("bus", d) /\ BindsOnly(d) /\ "bus" \in Task
  BY DEF Moves, BindsOnly, Locked, Idle, Task
<1>3. TypeOK'
  <2>1. present' \subseteq Dev /\ bound' \subseteq present'
    BY DEF IInv, TypeOK
  <2> QED
    BY <2>1 DEF IInv, TypeOK
<1>4. LoadInv'
  BY DEF IInv, LoadInv
<1>5. TaskInv'
  <2>1. \A t \in Task : ~Idle(t) => tdev[t] \in present'
    BY <1>1 DEF IInv, TaskInv, TypeOK, Locked, Idle
  <2> QED
    BY <2>1 DEF IInv, TaskInv, Idle
<1>6. DataInv' /\ CountInv' /\ NumbersInv'
  BY DEF IInv, DataInv, CountInv, NumbersInv, Grouping, At, MadeNode
<1>7. PlatformCdevs' /\ DtCdevs'
  <2>1. (CdevBound(d)' <=> CdevBound(d)) /\ (CdevProbing("bus")' <=> CdevProbing("bus"))
    BY DEF CdevBound, CdevProbing
  <2> QED
    BY <1>2, <2>1, CdevsStay
<1>8. \A e : HasNode(e)' <=> HasNode(e)
  BY DEF HasNode, MadeNode
<1>9. NodesInv'
  BY <1>8 DEF IInv, NodesInv
<1>10. ServedInv'
  <2>1. present' \subseteq Dev
    BY DEF IInv, TypeOK
  <2>2. driver = "platform" /\ ~failed' =>
          /\ pcdDev' = "ok" /\ tpc'["bus"] # "undo"
          /\ nodes' = {Node(e, e, e) : e \in {f \in Dev : HasNode(f)'}}
    BY <1>2, <1>8 DEF IInv, ServedInv
  <2>3. driver = "platform" /\ ~failed' /\ (dpc = "attach" \/ mod = "live") => registered
    BY DEF IInv, LoadInv, ServedInv
  <2> QED
    BY <1>1, <1>2, <2>1, <2>2, <2>3, ServedStep
<1> QED
  BY <1>3, <1>4, <1>5, <1>6, <1>7, <1>9, <1>10 DEF IInv

LEMMA DeviceAddStep == ASSUME IInv, NEW d \in Dev, DeviceAdd(d) PROVE IInv'
<1> USE DEF DeviceAdd
<1>1. Alone("bus") /\ Idle("bus") /\ (driver \notin Overlapping => dpc = "none")
  BY BusAlone
<1>2. d \notin present
  BY DEF MayAdd, Dev
<1>3. ~Locked(d) /\ d \notin bound
  BY <1>2 DEF Locked, IInv, TaskInv, TypeOK, Idle
<1>4. CASE registered
  <2>1. visited # {} => dpc = "attach"
    BY DEF IInv, LoadInv
  <2> QED
    BY <1>1, <1>3, <1>4, <2>1, EnterStep DEF Task, drv
<1>5. CASE ~registered
  BY <1>1, <1>3, <1>5, PresentStep
<1> QED
  BY <1>4, <1>5

LEMMA DeviceDelStep == ASSUME IInv, NEW d \in Dev, DeviceDel(d) PROVE IInv'
<1> USE DEF DeviceDel
<1>1. Alone("bus") /\ Idle("bus") /\ (driver \notin Overlapping => dpc = "none")
  BY BusAlone
<1>2. CASE d \in bound
  <2>1. d \in present /\ present' = present \cup {d}
    BY <1>2 DEF IInv, TypeOK
  <2>2. visited # {} => dpc = "attach"
    BY DEF IInv, LoadInv
  <2> QED
    BY <1>1, <1>2, <2>1, <2>2, EnterStep DEF Task, drv
<1>3. CASE d \notin bound
  BY <1>1, <1>3, PresentStep
<1> QED
  BY <1>2, <1>3

-----------------------------------------------------------------------------
(* the steps of a probe *)

\* Task t, alone with device d, goes on or comes to its end.
LEMMA GotoMoves ==
  ASSUME IInv, NEW t \in Task, NEW d \in Dev, tdev[t] = d, ~Idle(t),
         NEW pc \in ProbePc \cup RemovePc, Goto(t, pc)
  PROVE  /\ Moves(t, d) /\ Alone(t) /\ tpc'[t] = pc /\ tdev'[t] = d /\ ~Idle(t)'
         /\ tpc' \in [Task -> {"idle"} \cup ProbePc \cup RemovePc] /\ tdev' \in [Task -> Dev]
         /\ seen' \in [Task -> Int]
<1>1. /\ tpc'[t] = pc /\ tdev' = tdev /\ seen' = seen /\ \A u \in Task \ {t} : tpc'[u] = tpc[u]
      /\ tpc' \in [Task -> {"idle"} \cup ProbePc \cup RemovePc] /\ tdev' \in [Task -> Dev]
      /\ seen' \in [Task -> Int]
  BY DEF Goto, IInv, TypeOK
<1>2. ~Idle(t)'
  BY <1>1 DEF Idle, ProbePc, RemovePc
<1>3. Alone(t)
  BY Serial DEF Alone
<1>4. Moves(t, d)
  BY <1>1, OwnDevice DEF Moves
<1> QED
  BY <1>1, <1>2, <1>3, <1>4

LEMMA LeaveMoves ==
  ASSUME IInv, NEW t \in Task, NEW d \in Dev, tdev[t] = d, ~Idle(t), Leave(t)
  PROVE  /\ Moves(t, d) /\ Alone(t) /\ tpc'[t] = "idle" /\ Idle(t)'
         /\ tpc' \in [Task -> {"idle"} \cup ProbePc \cup RemovePc] /\ tdev' \in [Task -> Dev]
         /\ seen' \in [Task -> Int]
<1>0. 0 \in Dev
  BY DEF Dev
<1>1. /\ tpc'[t] = "idle"
      /\ \A u \in Task \ {t} : tpc'[u] = tpc[u] /\ tdev'[u] = tdev[u] /\ seen'[u] = seen[u]
      /\ tpc' \in [Task -> {"idle"} \cup ProbePc \cup RemovePc] /\ tdev' \in [Task -> Dev]
      /\ seen' \in [Task -> Int]
  BY <1>0 DEF Leave, IInv, TypeOK
<1>2. Idle(t)'
  BY <1>1 DEF Idle
<1>3. Alone(t)
  BY Serial DEF Alone
<1>4. Moves(t, d)
  BY <1>1, <1>2, OwnDevice DEF Moves
<1> QED
  BY <1>1, <1>2, <1>3, <1>4

LEMMA UnprobedData ==
  ASSUME IInv, NEW t \in Task, NEW d \in Dev, tdev[t] = d, Unprobed(t)
  PROVE  /\ buf' \in [Dev -> {0, SizeofSize}] /\ num' \in [Dev -> Number]
         /\ \A e \in Dev \ {d} : buf'[e] = buf[e] /\ num'[e] = num[e]
<1>1. 0 \in Number
  BY DEF Number
<1> QED
  BY <1>1 DEF Unprobed, IInv, TypeOK

\* A probe is running, so the driver is on the bus and the device not bound.
LEMMA Probing ==
  ASSUME IInv, NEW t \in Task, NEW d \in Dev, tdev[t] = d, tpc[t] \in ProbePc
  PROVE  registered /\ d \in present /\ d \notin bound /\ ~Idle(t) /\ ~CdevBound(d)
<1>1. ~Idle(t)
  BY DEF Idle, ProbePc
<1>2. d \in present /\ d \notin bound
  BY <1>1 DEF IInv, TaskInv
<1>3. registered
  BY DEF IInv, TaskInv, LoadInv, Task
<1> QED
  BY <1>1, <1>2, <1>3 DEF CdevBound

\* A probe that fails before the cdev is added, or in the sysfs driver: what it
\* allocated is freed, and nothing leads to the device.
LEMMA ProbeFailsStep ==
  ASSUME IInv, NEW t \in Task, NEW d \in Dev, tdev[t] = d, tpc[t] \in {"alloc", "cdev"},
         Unprobed(t), Fails,
         UNCHANGED <<driver, drv, total, pcdDev, present, bound, cdevs, nodes>>
  PROVE  IInv'
<1> USE DEF drv
<1>1. registered /\ d \in present /\ d \notin bound /\ ~Idle(t) /\ ~CdevBound(d)
  BY Probing DEF ProbePc
<1>2. /\ Moves(t, d) /\ Alone(t) /\ tpc'[t] = "idle" /\ Idle(t)'
      /\ tpc' \in [Task -> {"idle"} \cup ProbePc \cup RemovePc] /\ tdev' \in [Task -> Dev]
      /\ seen' \in [Task -> Int]
  BY <1>1, LeaveMoves DEF Unprobed
<1>3. /\ buf' \in [Dev -> {0, SizeofSize}] /\ num' \in [Dev -> Number]
      /\ \A e \in Dev \ {d} : buf'[e] = buf[e] /\ num'[e] = num[e]
  BY UnprobedData
<1>4. BindsOnly(d) /\ bound \subseteq Dev /\ \A e \in Dev : num'[e] \in Number
  BY <1>3 DEF BindsOnly, IInv, TypeOK
<1>5. TypeOK'
  BY <1>2, <1>3 DEF IInv, TypeOK, Fails
<1>6. LoadInv'
  BY DEF IInv, LoadInv
<1>7. TaskInv'
  BY <1>1, <1>2, <1>4, TaskStays DEF ProbePc, RemovePc
<1>8. DataInv'
  BY <1>1, <1>2, <1>3, <1>4, DataStays DEF ProbePc
<1>9. CountInv'
  BY <1>2, CountStays DEF Moves
<1>10. PlatformCdevs' /\ DtCdevs'
  <2>1. ~CdevBound(d)' /\ ~CdevProbing(t)' /\ ~CdevProbing(t)
    BY <1>1, <1>2 DEF CdevBound, CdevProbing
  <2> QED
    BY <1>1, <1>2, <1>3, <1>4, <2>1, CdevsStay
<1>11. ~HasNode(d)' /\ ~HasNode(d) /\ ~MadeNode(t)'
  <2>1. ~MadeNode(t)' /\ ~MadeNode(t)
    BY <1>2 DEF MadeNode
  <2> QED
    BY <1>1, <1>2, <1>4, <2>1, NodeFrame
<1>12. NumbersInv'
  BY <1>1, <1>2, <1>3, <1>4, <1>11, NumbersStep
<1>13. NodesInv'
  BY <1>2, <1>3, <1>4, <1>11, NodesStay
<1>14. ServedInv'
  BY DEF ServedInv, Fails
<1> QED
  BY <1>5, <1>6, <1>7, <1>8, <1>9, <1>10, <1>12, <1>13, <1>14 DEF IInv

\* The steps of a probe that touch its private data alone.
LEMMA ProbeDataStep ==
  ASSUME IInv, NEW t \in Task, NEW d \in Dev, tdev[t] = d,
         \/ tpc[t] = "alloc" /\ Goto(t, "number") /\ buf' = [buf EXCEPT ![d] = SizeofSize]
            /\ num' = num
         \/ DeviceNumber(t),
         UNCHANGED <<driver, drv, total, pcdDev, present, bound, cdevs, nodes, failed>>
  PROVE  IInv'
<1> USE DEF drv
<1>1. tpc[t] \in {"alloc", "number"}
  BY DEF DeviceNumber, At
<1>2. registered /\ d \in present /\ d \notin bound /\ ~Idle(t) /\ ~CdevBound(d)
  BY <1>1, Probing DEF ProbePc
<1>3. /\ Moves(t, d) /\ Alone(t) /\ tpc'[t] \in {"number", "cdev"} /\ ~Idle(t)'
      /\ tpc' \in [Task -> {"idle"} \cup ProbePc \cup RemovePc] /\ tdev' \in [Task -> Dev]
      /\ seen' \in [Task -> Int]
  BY <1>2, GotoMoves DEF DeviceNumber, ProbePc
<1>4. /\ buf' \in [Dev -> {0, SizeofSize}] /\ num' \in [Dev -> Number]
      /\ \A e \in Dev \ {d} : buf'[e] = buf[e] /\ num'[e] = num[e]
  <2>1. NumberOf(d) \in Number
    BY DEF NumberOf, Number, Dev, IInv, TypeOK
  <2>2. CASE DeviceNumber(t)
    BY <2>1, <2>2 DEF DeviceNumber, IInv, TypeOK
  <2>3. CASE buf' = [buf EXCEPT ![d] = SizeofSize] /\ num' = num
    BY <2>3 DEF IInv, TypeOK
  <2> QED
    BY <2>2, <2>3
<1>5. buf'[d] = SizeofSize /\ (driver = "platform" /\ tpc'[t] = "cdev" => num'[d] = d)
  <2>1. CASE DeviceNumber(t)
    <3>1. buf[d] = SizeofSize
      BY <2>1 DEF DeviceNumber, At, ProbePc, IInv, DataInv
    <3> QED
      BY <2>1, <3>1 DEF DeviceNumber, NumberOf, IInv, TypeOK
  <2>2. CASE tpc[t] = "alloc" /\ Goto(t, "number") /\ buf' = [buf EXCEPT ![d] = SizeofSize]
    <3>1. tpc'[t] = "number"
      BY <2>2 DEF Goto, IInv, TypeOK
    <3> QED
      BY <2>2, <3>1 DEF IInv, TypeOK
  <2> QED
    BY <2>1, <2>2
<1>6. BindsOnly(d) /\ bound \subseteq Dev
  BY DEF BindsOnly, IInv, TypeOK
<1>7. TypeOK'
  BY <1>3, <1>4 DEF IInv, TypeOK
<1>8. LoadInv'
  BY DEF IInv, LoadInv
<1>9. TaskInv'
  BY <1>1, <1>2, <1>3, <1>6, TaskStays DEF ProbePc, RemovePc
<1>10. DataInv'
  BY <1>2, <1>3, <1>4, <1>5, <1>6, DataStays DEF ProbePc
<1>11. CountInv'
  BY <1>1, <1>3, CountStays DEF Moves
<1>12. PlatformCdevs' /\ DtCdevs'
  <2>1. ~CdevBound(d)' /\ ~CdevProbing(t)' /\ ~CdevProbing(t)
    BY <1>1, <1>2, <1>3 DEF CdevBound, CdevProbing
  <2> QED
    BY <1>2, <1>3, <1>4, <1>6, <2>1, CdevsStay
<1>13. /\ ~HasNode(d)' /\ ~HasNode(d) /\ ~MadeNode(t)'
       /\ driver = "platform" => \A e \in Dev : HasNode(e)' <=> HasNode(e)
  <2>1. ~MadeNode(t)' /\ ~MadeNode(t)
    BY <1>1, <1>3 DEF MadeNode
  <2> QED
    BY <1>2, <1>3, <1>6, <2>1, NodeFrame
<1>14. NumbersInv'
  BY <1>2, <1>3, <1>4, <1>6, <1>13, NumbersStep
<1>15. NodesInv'
  BY <1>3, <1>4, <1>6, <1>13, NodesStay
<1>16. ServedInv'
  <2>1. driver = "platform" /\ ~failed' =>
          /\ pcdDev' = "ok" /\ tpc'[t] # "undo"
          /\ nodes' = {Node(e, e, e) : e \in {f \in Dev : HasNode(f)'}}
    BY <1>3, <1>13 DEF IInv, ServedInv
  <2>2. present' \subseteq Dev /\ tpc'[t] \in ProbePc
    BY <1>3 DEF IInv, TypeOK, ProbePc
  <2> QED
    BY <1>3, <1>6, <2>1, <2>2, ServedStep
<1> QED
  BY <1>7, <1>8, <1>9, <1>10, <1>11, <1>12, <1>14, <1>15, <1>16 DEF IInv

LEMMA ProbeAllocStep ==
  ASSUME IInv, NEW t \in Task, NEW d \in Dev, tdev[t] = d, ProbeAlloc(t)
  PROVE  IInv'
<1>1. tpc[t] = "alloc"
  BY DEF ProbeAlloc, At
<1> QED
  BY <1>1, ProbeFailsStep, ProbeDataStep DEF ProbeAlloc

LEMMA DeviceNumberStep ==
  ASSUME IInv, NEW t \in Task, NEW d \in Dev, tdev[t] = d, DeviceNumber(t)
  PROVE  IInv'
<1>1. UNCHANGED <<driver, drv, total, pcdDev, present, bound, cdevs, nodes, failed>>
  BY DEF DeviceNumber
<1> QED
  BY <1>1, ProbeDataStep

\* A cdev put in front of those of number n, and the first one taken off.
LEMMA CdevPushed ==
  ASSUME TypeOK, NEW n \in Number, NEW d \in Dev,
         cdevs' = [cdevs EXCEPT ![n] = <<d>> \o @]
  PROVE  /\ DOMAIN cdevs' = Number /\ \A m \in Number : cdevs'[m] \in Seq(Dev)
         /\ \A m \in Number \ {n} : cdevs'[m] = cdevs[m]
         /\ cdevs[n] = <<>> => cdevs'[n] = <<d>>
         /\ \A e \in Dev : cdevs[n] = <<e>> => cdevs'[n] = <<d, e>>
<1> DEFINE s == cdevs[n]
<1>1. s \in Seq(Dev) /\ DOMAIN cdevs = Number
  BY DEF TypeOK
<1>2. /\ cdevs'[n] = <<d>> \o s
      /\ DOMAIN cdevs' = Number /\ \A m \in Number \ {n} : cdevs'[m] = cdevs[m]
  BY <1>1
<1> HIDE DEF s
<1>3. /\ <<d>> \o s \in Seq(Dev)
      /\ s = <<>> => <<d>> \o s = <<d>>
      /\ \A e \in Dev : s = <<e>> => <<d>> \o s = <<d, e>>
  BY <1>1, StackPush
<1>4. \A m \in Number : cdevs'[m] \in Seq(Dev)
  BY <1>2, <1>3 DEF TypeOK
<1> QED
  BY <1>2, <1>3, <1>4 DEF s

LEMMA CdevPopped ==
  ASSUME TypeOK, NEW n \in Number, CdevDel(n)
  PROVE  /\ DOMAIN cdevs' = Number /\ \A m \in Number : cdevs'[m] \in Seq(Dev)
         /\ \A m \in Number \ {n} : cdevs'[m] = cdevs[m]
         /\ \A d \in Dev : cdevs[n] = <<d>> => cdevs'[n] = <<>>
         /\ \A d, e \in Dev : cdevs[n] = <<d, e>> => cdevs'[n] = <<e>>
<1> DEFINE s == cdevs[n]
<1>1. s \in Seq(Dev) /\ DOMAIN cdevs = Number
  BY DEF TypeOK
<1>2. /\ cdevs'[n] = IF s = <<>> THEN s ELSE Tail(s)
      /\ DOMAIN cdevs' = Number /\ \A m \in Number \ {n} : cdevs'[m] = cdevs[m]
  BY <1>1 DEF CdevDel
<1> HIDE DEF s
<1>3. s # <<>> => Tail(s) \in Seq(Dev)
  BY <1>1, StackPop
<1>4. \A m \in Number : cdevs'[m] \in Seq(Dev)
  BY <1>1, <1>2, <1>3 DEF TypeOK
<1>5. \A d \in Dev : s = <<d>> => cdevs'[n] = <<>>
  BY <1>2, TailOfPair
<1>6. \A d, e \in Dev : s = <<d, e>> => cdevs'[n] = <<e>>
  BY <1>2, TailOfPair
<1> QED
  BY <1>2, <1>4, <1>5, <1>6 DEF s

LEMMA DeviceIsNumber == \A d \in Dev : d \in Number
BY DEF Dev, Number

\* cdev_add puts the cdev in front: of nothing, with the platform driver, and of
\* at most one other, with the dt driver.
LEMMA CdevAddStep ==
  ASSUME IInv, NEW t \in Task, NEW d \in Dev, tdev[t] = d, CdevAdd(t)
  PROVE  IInv'
<1> USE DEF drv
<1>1. tpc[t] = "cdev"
  BY DEF CdevAdd, At
<1> SUFFICES ASSUME cdevs' = [cdevs EXCEPT ![num[d]] = <<d>> \o @], Goto(t, "device"),
                    UNCHANGED <<driver, drv, total, pcdDev, present, bound, buf, num, nodes,
                                failed>>
             PROVE  IInv'
  BY <1>1, ProbeFailsStep DEF CdevAdd
<1>2. registered /\ d \in present /\ d \notin bound /\ ~Idle(t) /\ ~CdevBound(d)
  BY <1>1, Probing DEF ProbePc
<1>3. /\ Moves(t, d) /\ Alone(t) /\ tpc'[t] = "device" /\ tdev'[t] = d /\ ~Idle(t)'
      /\ tpc' \in [Task -> {"idle"} \cup ProbePc \cup RemovePc] /\ tdev' \in [Task -> Dev]
      /\ seen' \in [Task -> Int]
  BY <1>2, GotoMoves DEF ProbePc
<1>4. BindsOnly(d) /\ bound \subseteq Dev /\ TypeOK /\ \A e \in Dev : num[e] \in Number
  BY DEF BindsOnly, IInv, TypeOK
<1>5. /\ DOMAIN cdevs' = Number /\ \A m \in Number : cdevs'[m] \in Seq(Dev)
      /\ \A m \in Number \ {num[d]} : cdevs'[m] = cdevs[m]
      /\ cdevs[num[d]] = <<>> => cdevs'[num[d]] = <<d>>
      /\ \A e \in Dev : cdevs[num[d]] = <<e>> => cdevs'[num[d]] = <<d, e>>
  <2>1. TypeOK /\ num[d] \in Number /\ cdevs' = [cdevs EXCEPT ![num[d]] = <<d>> \o @]
    BY <1>4
  <2> QED
    BY <2>1, CdevPushed
<1>6. TypeOK'
  BY <1>3, <1>5 DEF IInv, TypeOK
<1>7. LoadInv'
  BY DEF IInv, LoadInv
<1>8. TaskInv'
  BY <1>1, <1>2, <1>3, <1>4, TaskStays DEF ProbePc, RemovePc
<1>9. buf[d] = SizeofSize /\ (driver = "platform" => num[d] = d)
  BY <1>1 DEF IInv, DataInv, ProbePc
<1>10. DataInv'
  BY <1>2, <1>3, <1>4, <1>9, DataStays
<1>11. CountInv'
  BY <1>1, <1>3, CountStays DEF Moves
<1>12. ~CdevProbing(t) /\ CdevProbing(t)' /\ ~CdevBound(d)' /\ ~HasCdev(d) /\ HasCdev(d)'
  <2>1. ~CdevProbing(t) /\ CdevProbing(t)' /\ ~CdevBound(d)'
    BY <1>1, <1>2, <1>3 DEF CdevProbing, CdevBound
  <2> QED
    BY <1>2, <1>3, <1>4, <2>1, CdevFrame
<1>13. PlatformCdevs'
  <2>1. driver = "platform" => cdevs[d] = <<>>
    BY <1>12, DeviceIsNumber DEF IInv, PlatformCdevs
  <2> QED
    BY <1>3, <1>4, <1>5, <1>9, <1>12, <2>1, PlatformCdevsStep
<1>14. DtCdevs'
  <2>1. ASSUME driver = "dt" PROVE DtFront(d)'
    <3>1. DtRest
      BY <1>3, <1>12, <2>1, DtBefore DEF Alone
    <3>2. \A e \in Dev : CdevBound(e)' <=> CdevBound(e)
      BY <1>2, <1>3, <1>4, <1>12, CdevFrame
    <3>3. ASSUME NEW e \in Dev, CdevBound(e)
          PROVE  cdevs'[num[e]] = IF num[e] = num[d] THEN <<d, e>> ELSE <<e>>
      <4>1. cdevs[num[e]] = <<e>>
        BY <3>1, <3>3 DEF DtRest
      <4> QED
        BY <1>4, <1>5, <4>1
    <3>4. ASSUME \A e \in Dev : CdevBound(e) => num[e] # num[d]
          PROVE  cdevs'[num[d]] = <<d>>
      <4>1. cdevs[num[d]] = <<>>
        BY <1>4, <3>1, <3>4 DEF DtRest
      <4> QED
        BY <1>5, <4>1
    <3>5. ASSUME NEW n \in Number \ {num[d]}, \A e \in Dev : CdevBound(e) => num[e] # n
          PROVE  cdevs'[n] = <<>>
      BY <1>5, <3>1, <3>5 DEF DtRest
    <3> QED
      BY <3>2, <3>3, <3>4, <3>5 DEF DtFront
  <2> QED
    BY <1>3, <1>4, <1>12, <2>1, DtAfter
<1>15. /\ ~HasNode(d)' /\ ~HasNode(d) /\ ~MadeNode(t)'
       /\ driver = "platform" => \A e \in Dev : HasNode(e)' <=> HasNode(e)
  <2>1. ~MadeNode(t)' /\ ~MadeNode(t)
    BY <1>1, <1>3 DEF MadeNode
  <2> QED
    BY <1>2, <1>3, <1>4, <2>1, NodeFrame
<1>16. NumbersInv'
  BY <1>2, <1>3, <1>4, <1>15, NumbersStep
<1>17. NodesInv'
  BY <1>3, <1>4, <1>15, NodesStay
<1>18. ServedInv'
  <2>1. driver = "platform" /\ ~failed' =>
          /\ pcdDev' = "ok" /\ tpc'[t] # "undo"
          /\ nodes' = {Node(e, e, e) : e \in {f \in Dev : HasNode(f)'}}
    BY <1>3, <1>15 DEF IInv, ServedInv
  <2>2. present' \subseteq Dev /\ tpc'[t] \in ProbePc
    BY <1>3 DEF IInv, TypeOK, ProbePc
  <2> QED
    BY <1>3, <1>4, <2>1, <2>2, ServedStep
<1> QED
  BY <1>6, <1>7, <1>8, <1>10, <1>11, <1>13, <1>14, <1>16, <1>17, <1>18 DEF IInv

\* device_create fails, or makes the first node of that number.
LEMMA DeviceCreateStep ==
  ASSUME IInv, NEW t \in Task, NEW d \in Dev, tdev[t] = d, DeviceCreate(t)
  PROVE  IInv'
<1> USE DEF drv
<1>1. /\ tpc[t] = "device"
      /\ UNCHANGED <<driver, drv, total, present, bound, buf, num, cdevs>> /\ Goto(t, "check")
      /\ \/ /\ Fresh(NumberOf(d), num[d]) /\ pcdDev' = "ok" /\ UNCHANGED failed
            /\ nodes' = nodes \cup {Node(NumberOf(d), num[d], d)}
         \/ /\ pcdDev' = "err" /\ UNCHANGED nodes
            /\ failed' = (failed \/ Fresh(NumberOf(d), num[d]))
  BY DEF DeviceCreate, At
<1>2. registered /\ d \in present /\ d \notin bound /\ ~Idle(t) /\ ~CdevBound(d)
  BY <1>1, Probing DEF ProbePc
<1>3. /\ Moves(t, d) /\ Alone(t) /\ tpc'[t] = "check" /\ tdev'[t] = d /\ ~Idle(t)'
      /\ tpc' \in [Task -> {"idle"} \cup ProbePc \cup RemovePc] /\ tdev' \in [Task -> Dev]
      /\ seen' \in [Task -> Int]
  BY <1>1, <1>2, GotoMoves DEF ProbePc
<1>4. /\ BindsOnly(d) /\ bound \subseteq Dev /\ \A e \in Dev : num[e] \in Number
      /\ failed \in BOOLEAN /\ failed' \in BOOLEAN
  BY <1>1 DEF BindsOnly, IInv, TypeOK, Fresh
<1>5. NumberOf(d) \in Number
  BY DEF NumberOf, Number, Dev, IInv, TypeOK
<1>6. TypeOK'
  <2> DEFINE R == [name : Number, num : Number, dev : Dev, inClass : BOOLEAN]
  <2>1. Node(NumberOf(d), num[d], d) \in R
    BY <1>4, <1>5 DEF Node
  <2>2. nodes \subseteq R
    BY DEF IInv, TypeOK
  <2> HIDE DEF R
  <2>3. nodes' \subseteq R
    BY <1>1, <2>1, <2>2
  <2> QED
    BY <1>1, <1>3, <1>4, <2>3 DEF IInv, TypeOK, R
<1>7. LoadInv'
  BY <1>1 DEF IInv, LoadInv
<1>8. TaskInv'
  BY <1>1, <1>2, <1>3, <1>4, TaskStays DEF ProbePc, RemovePc
<1>9. buf[d] = SizeofSize /\ (driver = "platform" => num[d] = d)
  BY <1>1 DEF IInv, DataInv, ProbePc
<1>10. DataInv'
  BY <1>1, <1>2, <1>3, <1>4, <1>9, DataStays
<1>11. CountInv'
  BY <1>1, <1>3, CountStays DEF Moves
<1>12. PlatformCdevs' /\ DtCdevs'
  <2>1. ~CdevBound(d)' /\ CdevProbing(t)' /\ CdevProbing(t)
    BY <1>1, <1>2, <1>3 DEF CdevBound, CdevProbing
  <2> QED
    BY <1>1, <1>2, <1>3, <1>4, <2>1, CdevsStay
<1>13. ~MadeNode(t) /\ (MadeNode(t)' <=> pcdDev' = "ok") /\ ~HasNode(d)
  <2>1. ~MadeNode(t) /\ (MadeNode(t)' <=> pcdDev' = "ok")
    BY <1>1, <1>3 DEF MadeNode
  <2>2. ~HasNode(d)
    BY <1>2, <1>3, <2>1 DEF HasNode, MadeNode, Moves, Idle
  <2> QED
    BY <2>1, <2>2
<1>14. ASSUME driver # "platform" \/ pcdDev' = pcdDev
       PROVE  /\ \A e \in Dev \ {d} : HasNode(e)' <=> HasNode(e)
              /\ HasNode(d)' <=> pcdDev' = "ok"
  <2>1. pcdDev' = pcdDev \/ \A u \in Task \ {t} : Idle(u)
    BY <1>3, <1>14 DEF Alone
  <2> QED
    BY <1>1, <1>2, <1>3, <1>4, <1>13, <2>1, NodeFrame
<1>15. NumbersInv'
  <2>1. ASSUME driver # "platform", MadeNode(t)', NEW e \in bound \ {d} PROVE num[e] # num'[d]
    <3>1. e \in Dev /\ HasNode(e)
      BY <1>3, <1>4, <2>1 DEF HasNode, Alone, Idle
    <3>2. PICK x \in nodes : x.dev = e /\ x.num = num[e]
      BY <2>1, <3>1 DEF IInv, NodesInv
    <3> QED
      BY <1>1, <1>13, <2>1, <3>2 DEF Fresh
  <2> QED
    BY <1>1, <1>2, <1>3, <1>4, <2>1, NumbersStep
<1>16. NodesInv'
  <2> SUFFICES ASSUME driver # "platform" PROVE NodesInv'
    BY <1>1 DEF NodesInv
  <2>1. CASE pcdDev' = "err"
    <3>1. nodes' = nodes /\ \A e \in Dev : HasNode(e)' <=> HasNode(e)
      BY <1>1, <1>13, <1>14, <2>1
    <3> QED
      BY <1>1, <3>1 DEF IInv, NodesInv, TypeOK
  <2>2. CASE pcdDev' = "ok"
    <3> DEFINE x == Node(NumberOf(d), num[d], d)
    <3>1. nodes' = nodes \cup {x}
      BY <1>1, <2>2
    <3>2. x.inClass /\ x.dev = d /\ x.num = num[d]
      BY DEF Node
    <3>3. HasNode(d)' /\ \A e \in Dev \ {d} : HasNode(e)' <=> HasNode(e)
      BY <1>14, <2>2
    <3>4. \A y \in nodes : y.inClass /\ HasNode(y.dev) /\ y.num = num[y.dev] /\ y.dev \in Dev \ {d}
      BY <1>13 DEF IInv, NodesInv, TypeOK
    <3> HIDE DEF x
    <3>5. \A y \in nodes' : y.inClass /\ HasNode(y.dev)' /\ y.num = num'[y.dev]
      BY <1>1, <3>1, <3>2, <3>3, <3>4
    <3>6. \A e \in Dev : HasNode(e)' => \E y \in nodes' : y.dev = e
      BY <3>1, <3>2, <3>3 DEF IInv, NodesInv
    <3>7. \A y, z \in nodes' : y.dev = z.dev => y = z
      BY <3>1, <3>2, <3>4 DEF IInv, NodesInv
    <3> QED
      BY <3>5, <3>6, <3>7 DEF NodesInv
  <2> QED
    BY <1>1, <2>1, <2>2
<1>17. ServedInv'
  <2>1. ASSUME driver = "platform", ~failed'
        PROVE  /\ pcdDev' = "ok" /\ tpc'[t] # "undo"
               /\ nodes' = {Node(e, e, e) : e \in {f \in Dev : HasNode(f)'}}
    <3>1. ~failed
      BY <1>1, <1>4, <2>1
    <3>2. pcdDev = "ok" /\ nodes = {Node(e, e, e) : e \in {f \in Dev : HasNode(f)}}
      BY <2>1, <3>1 DEF IInv, ServedInv
    <3>3. NumberOf(d) = d /\ num[d] = d
      BY <1>9, <2>1 DEF NumberOf
    <3>4. Fresh(d, d)
      BY <1>13, <3>2 DEF Fresh, Node
    <3>5. pcdDev' = "ok" /\ nodes' = nodes \cup {Node(d, d, d)}
      BY <1>1, <1>4, <2>1, <3>3, <3>4
    <3>6. HasNode(d)' /\ \A e \in Dev \ {d} : HasNode(e)' <=> HasNode(e)
      BY <1>14, <3>2, <3>5
    <3>7. nodes' = {Node(e, e, e) : e \in {f \in Dev : HasNode(f)'}}
      BY <1>13, <3>2, <3>5, <3>6
    <3> QED
      BY <1>3, <3>5, <3>7
  <2>2. present' \subseteq Dev /\ tpc'[t] \in ProbePc /\ (failed => failed')
    BY <1>1, <1>3, <1>4 DEF IInv, TypeOK, ProbePc
  <2> QED
    BY <1>1, <1>3, <1>4, <2>1, <2>2, ServedStep
<1> QED
  BY <1>6, <1>7, <1>8, <1>10, <1>11, <1>12, <1>15, <1>16, <1>17 DEF IInv

\* A probe that failed goes on to undo what it did; without a failure none does.
LEMMA CheckDeviceStep ==
  ASSUME IInv, NEW t \in Task, NEW d \in Dev, tdev[t] = d, CheckDevice(t)
  PROVE  IInv'
<1> USE DEF drv
<1> DEFINE pc == IF pcdDev = "err" THEN "undo" ELSE "count"
<1>1. /\ tpc[t] = "check" /\ Goto(t, pc) /\ pc \in {"undo", "count"}
      /\ UNCHANGED <<driver, drv, total, pcdDev, present, bound, buf, num, cdevs, nodes, failed>>
  BY DEF CheckDevice, At
<1>2. registered /\ d \in present /\ d \notin bound /\ ~Idle(t) /\ ~CdevBound(d)
  BY <1>1, Probing DEF ProbePc
<1>3. /\ Moves(t, d) /\ Alone(t) /\ tpc'[t] = pc /\ tdev'[t] = d /\ ~Idle(t)'
      /\ tpc' \in [Task -> {"idle"} \cup ProbePc \cup RemovePc] /\ tdev' \in [Task -> Dev]
      /\ seen' \in [Task -> Int]
  BY <1>1, <1>2, GotoMoves DEF ProbePc
<1>4. BindsOnly(d) /\ bound \subseteq Dev /\ (pc = "undo" <=> pcdDev # "ok")
  BY <1>1 DEF BindsOnly, IInv, TypeOK
<1> HIDE DEF pc
<1>5. TypeOK'
  BY <1>1, <1>3 DEF IInv, TypeOK
<1>6. LoadInv'
  BY <1>1 DEF IInv, LoadInv
<1>7. TaskInv'
  BY <1>1, <1>2, <1>3, <1>4, TaskStays DEF ProbePc, RemovePc
<1>8. buf[d] = SizeofSize /\ (driver = "platform" => num[d] = d)
  BY <1>1 DEF IInv, DataInv, ProbePc
<1>9. DataInv'
  BY <1>1, <1>2, <1>3, <1>4, <1>8, DataStays
<1>10. CountInv'
  BY <1>1, <1>3, CountStays DEF Moves
<1>11. PlatformCdevs' /\ DtCdevs'
  <2>1. ~CdevBound(d)' /\ CdevProbing(t)' /\ CdevProbing(t)
    BY <1>1, <1>2, <1>3 DEF CdevBound, CdevProbing
  <2> QED
    BY <1>1, <1>2, <1>3, <1>4, <2>1, CdevsStay
<1>12. (MadeNode(t)' <=> MadeNode(t)) /\ \A e \in Dev : HasNode(e)' <=> HasNode(e)
  <2>1. MadeNode(t)' <=> MadeNode(t)
    BY <1>1, <1>3, <1>4 DEF MadeNode
  <2> QED
    BY <1>1, <1>2, <1>3, <1>4, <2>1, NodeFrame
<1>13. NumbersInv'
  <2>1. driver # "platform" /\ MadeNode(t)' => \A e \in bound \ {d} : num[e] # num'[d]
    BY <1>1, <1>12 DEF IInv, NumbersInv
  <2> QED
    BY <1>1, <1>2, <1>3, <1>4, <2>1, NumbersStep
<1>14. NodesInv'
  BY <1>1, <1>3, <1>4, <1>12, NodesStay
<1>15. ServedInv'
  <2>1. driver = "platform" /\ ~failed' =>
          /\ pcdDev' = "ok" /\ tpc'[t] # "undo"
          /\ nodes' = {Node(e, e, e) : e \in {f \in Dev : HasNode(f)'}}
    BY <1>1, <1>3, <1>4, <1>12 DEF IInv, ServedInv
  <2>2. present' \subseteq Dev /\ tpc'[t] \in ProbePc
    BY <1>1, <1>3 DEF IInv, TypeOK, ProbePc
  <2> QED
    BY <1>1, <1>3, <1>4, <2>1, <2>2, ServedStep
<1> QED
  BY <1>5, <1>6, <1>7, <1>9, <1>10, <1>11, <1>13, <1>14, <1>15 DEF IInv

\* The cdev that goes is the one that this probe put in front.
LEMMA ProbeUndoStep ==
  ASSUME IInv, NEW t \in Task, NEW d \in Dev, tdev[t] = d, ProbeUndo(t)
  PROVE  IInv'
<1> USE DEF drv
<1>1. /\ tpc[t] = "undo" /\ CdevDel(num[d]) /\ Unprobed(t)
      /\ UNCHANGED <<driver, drv, total, pcdDev, present, bound, nodes, failed>>
  BY DEF ProbeUndo, At
<1>2. registered /\ d \in present /\ d \notin bound /\ ~Idle(t) /\ ~CdevBound(d)
  BY <1>1, Probing DEF ProbePc
<1>3. /\ Moves(t, d) /\ Alone(t) /\ tpc'[t] = "idle" /\ Idle(t)'
      /\ tpc' \in [Task -> {"idle"} \cup ProbePc \cup RemovePc] /\ tdev' \in [Task -> Dev]
      /\ seen' \in [Task -> Int]
  BY <1>1, <1>2, LeaveMoves DEF Unprobed
<1>4. /\ buf' \in [Dev -> {0, SizeofSize}] /\ num' \in [Dev -> Number]
      /\ \A e \in Dev \ {d} : buf'[e] = buf[e] /\ num'[e] = num[e]
  BY <1>1, UnprobedData
<1>5. /\ BindsOnly(d) /\ bound' \subseteq Dev /\ TypeOK
      /\ \A e \in Dev : num[e] \in Number /\ num'[e] \in Number
  BY <1>1, <1>4 DEF BindsOnly, IInv, TypeOK
<1>6. /\ DOMAIN cdevs' = Number /\ \A m \in Number : cdevs'[m] \in Seq(Dev)
      /\ \A m \in Number \ {num[d]} : cdevs'[m] = cdevs[m]
      /\ \A e \in Dev : cdevs[num[d]] = <<e>> => cdevs'[num[d]] = <<>>
      /\ \A e, f \in Dev : cdevs[num[d]] = <<e, f>> => cdevs'[num[d]] = <<f>>
  <2>1. TypeOK /\ num[d] \in Number /\ CdevDel(num[d])
    BY <1>1, <1>5
  <2> QED
    BY <2>1, CdevPopped
<1>7. TypeOK'
  BY <1>1, <1>3, <1>4, <1>6 DEF IInv, TypeOK
<1>8. LoadInv'
  BY <1>1 DEF IInv, LoadInv
<1>9. TaskInv'
  BY <1>1, <1>2, <1>3, <1>5, TaskStays DEF ProbePc, RemovePc
<1>10. DataInv'
  BY <1>1, <1>2, <1>3, <1>4, <1>5, DataStays DEF ProbePc
<1>11. CountInv'
  BY <1>1, <1>3, CountStays DEF Moves
<1>12. CdevProbing(t) /\ ~CdevProbing(t)' /\ ~CdevBound(d)' /\ HasCdev(d) /\ ~HasCdev(d)'
  <2>1. CdevProbing(t) /\ ~CdevProbing(t)' /\ ~CdevBound(d)'
    BY <1>1, <1>2, <1>3 DEF CdevProbing, CdevBound
  <2> QED
    BY <1>2, <1>3, <1>5, <2>1, CdevFrame
<1>13. PlatformCdevs'
  <2>1. driver = "platform" => num[d] = d /\ cdevs[d] = <<d>>
    BY <1>1, <1>12, DeviceIsNumber DEF IInv, PlatformCdevs, DataInv, ProbePc
  <2> QED
    BY <1>1, <1>3, <1>5, <1>6, <1>12, <2>1, PlatformCdevsStep
<1>14. DtCdevs'
  <2>1. ASSUME driver = "dt" PROVE DtRest'
    <3>1. DtFront(d)
      BY <1>3, <1>12, <2>1, DtBefore DEF Alone
    <3>2. \A e \in Dev : (CdevBound(e)' <=> CdevBound(e)) /\ (CdevBound(e) => num'[e] = num[e])
      BY <1>2, <1>3, <1>4, <1>5, <1>12, CdevFrame
    <3>3. ASSUME NEW e \in Dev, CdevBound(e) PROVE cdevs'[num[e]] = <<e>>
      <4>1. cdevs[num[e]] = IF num[e] = num[d] THEN <<d, e>> ELSE <<e>>
        BY <3>1, <3>3 DEF DtFront
      <4> QED
        BY <1>5, <1>6, <4>1
    <3>4. ASSUME NEW n \in Number, \A e \in Dev : CdevBound(e) => num[e] # n
          PROVE  cdevs'[n] = <<>>
      BY <1>6, <3>1, <3>4 DEF DtFront
    <3>5. \A e \in Dev : CdevBound(e)' => cdevs'[num'[e]] = <<e>>
      BY <3>2, <3>3
    <3>6. \A n \in Number : (\A e \in Dev : CdevBound(e)' => num'[e] # n) => cdevs'[n] = <<>>
      BY <3>2, <3>4
    <3> QED
      BY <3>5, <3>6 DEF DtRest
  <2> QED
    BY <1>1, <1>3, <1>5, <1>12, <2>1, DtAfter
<1>15. ~HasNode(d)' /\ ~HasNode(d) /\ ~MadeNode(t)'
  <2>1. ~MadeNode(t)' /\ ~MadeNode(t)
    BY <1>1, <1>3 DEF MadeNode
  <2> QED
    BY <1>1, <1>2, <1>3, <1>5, <2>1, NodeFrame
<1>16. NumbersInv'
  BY <1>1, <1>2, <1>3, <1>4, <1>5, <1>15, NumbersStep
<1>17. NodesInv'
  BY <1>1, <1>3, <1>4, <1>5, <1>15, NodesStay
<1>18. ServedInv'
  BY <1>1 DEF IInv, ServedInv
<1> QED
  BY <1>7, <1>8, <1>9, <1>10, <1>11, <1>13, <1>14, <1>16, <1>17, <1>18 DEF IInv

\* The count is loaded; nothing else is different.
LEMMA LoadTotalStep ==
  ASSUME IInv, NEW t \in Task, LoadTotal(t)
  PROVE  IInv'
<1> USE DEF drv
<1>1. /\ \/ tpc[t] = "count" /\ tpc'[t] = "incr"
         \/ tpc[t] = "uncount" /\ tpc'[t] = "decr"
      /\ \A u \in Task \ {t} : tpc'[u] = tpc[u] /\ seen'[u] = seen[u]
      /\ tpc' \in [Task -> {"idle"} \cup ProbePc \cup RemovePc]
      /\ seen' \in [Task -> Int] /\ seen'[t] = total
      /\ UNCHANGED <<driver, drv, total, pcdDev, present, bound, buf, num, cdevs, nodes,
                     tdev, failed>>
  BY DEF LoadTotal, At, IInv, TypeOK, ProbePc, RemovePc
<1>2. \A u \in Task : /\ Idle(u)' <=> Idle(u)
                      /\ tpc'[u] \in ProbePc <=> tpc[u] \in ProbePc
                      /\ tpc'[u] \in RemovePc <=> tpc[u] \in RemovePc
                      /\ \A pc \in {"alloc", "number", "undo", "group", "undo_node"} :
                             tpc'[u] = pc <=> tpc[u] = pc
  BY <1>1 DEF Idle, ProbePc, RemovePc
<1>3. /\ \A u \in Task : (CdevProbing(u)' <=> CdevProbing(u)) /\ (MadeNode(u)' <=> MadeNode(u))
      /\ \A u \in Task : /\ tpc'[u] \in {"uncount", "decr"} <=> tpc[u] \in {"uncount", "decr"}
                         /\ tpc'[u] \in {"del", "uncount", "decr"} <=>
                                tpc[u] \in {"del", "uncount", "decr"}
  BY <1>1 DEF CdevProbing, MadeNode
<1>4. \A d \in Dev : /\ CdevBound(d)' <=> CdevBound(d)
                     /\ HasCdev(d)' <=> HasCdev(d)
                     /\ HasNode(d)' <=> HasNode(d)
  BY <1>1, <1>3 DEF CdevBound, HasCdev, HasNode
<1>5. TypeOK'
  BY <1>1 DEF IInv, TypeOK
<1>6. LoadInv'
  BY <1>1 DEF IInv, LoadInv
<1>7. TaskInv'
  BY <1>1, <1>2 DEF IInv, TaskInv, Task
<1>8. DataInv'
  BY <1>1, <1>2 DEF IInv, DataInv
<1>9. CountInv'
  <2>1. Grouping' = Grouping
    BY <1>2 DEF Grouping, At
  <2>2. ~Idle(t)
    BY <1>1 DEF Idle
  <2>3. driver # "platform" => \A u \in Task \ {t} : tpc'[u] \notin {"incr", "decr"}
    BY <1>2, <2>2, Serial DEF Idle
  <2> QED
    BY <1>1, <2>1, <2>3 DEF IInv, CountInv
<1>10. PlatformCdevs'
  BY <1>1, <1>4 DEF IInv, PlatformCdevs
<1>11. DtCdevs'
  <2> SUFFICES ASSUME driver = "dt" PROVE DtCdevs'
    BY <1>1 DEF DtCdevs
  <2>1. ASSUME NEW d \in Dev, CdevBound(d)',
               \A u \in Task : CdevProbing(u)' => num[tdev[u]] # num[d]
        PROVE  cdevs[num[d]] = <<d>>
    BY <1>3, <1>4, <2>1 DEF IInv, DtCdevs
  <2>2. ASSUME NEW u \in Task, CdevProbing(u)'
        PROVE  /\ \A d \in Dev : CdevBound(d)' /\ num[d] = num[tdev[u]]
                      => cdevs[num[d]] = <<tdev[u], d>>
               /\ (\A d \in Dev : CdevBound(d)' => num[d] # num[tdev[u]])
                      => cdevs[num[tdev[u]]] = <<tdev[u]>>
    BY <1>3, <1>4, <2>2 DEF IInv, DtCdevs
  <2>3. ASSUME NEW n \in Number, \A d \in Dev : CdevBound(d)' => num[d] # n,
               \A u \in Task : CdevProbing(u)' => num[tdev[u]] # n
        PROVE  cdevs[n] = <<>>
    BY <1>3, <1>4, <2>3 DEF IInv, DtCdevs
  <2> QED
    BY <1>1, <2>1, <2>2, <2>3 DEF DtCdevs
<1>12. NumbersInv'
  BY <1>1, <1>3 DEF IInv, NumbersInv
<1>13. NodesInv'
  <2>1. \A x \in nodes : x.dev \in Dev
    BY DEF IInv, TypeOK
  <2> QED
    BY <1>1, <1>4, <2>1 DEF IInv, NodesInv
<1>14. ServedInv'
  <2>1. {e \in Dev : HasNode(e)'} = {e \in Dev : HasNode(e)}
    BY <1>4
  <2> QED
    BY <1>1, <1>2, <2>1 DEF IInv, ServedInv
<1> QED
  BY <1>5, <1>6, <1>7, <1>8, <1>9, <1>10, <1>11, <1>12, <1>13, <1>14 DEF IInv

\* The driver core binds the device: its number is no other bound device's.
LEMMA CountDeviceStep ==
  ASSUME IInv, NEW t \in Task, NEW d \in Dev, tdev[t] = d, CountDevice(t), driver # "sysfs"
  PROVE  IInv'
<1> USE DEF drv
<1>1. /\ tpc[t] = "incr" /\ Leave(t) /\ bound' = bound \cup {d} /\ total' = seen[t] + 1
      /\ UNCHANGED <<driver, drv, pcdDev, present, buf, num, cdevs, nodes, failed>>
  BY DEF CountDevice, At
<1>2. registered /\ d \in present /\ d \notin bound /\ ~Idle(t) /\ ~CdevBound(d)
  BY <1>1, Probing DEF ProbePc
<1>3. /\ Moves(t, d) /\ Alone(t) /\ tpc'[t] = "idle" /\ Idle(t)'
      /\ tpc' \in [Task -> {"idle"} \cup ProbePc \cup RemovePc] /\ tdev' \in [Task -> Dev]
      /\ seen' \in [Task -> Int]
  BY <1>1, <1>2, LeaveMoves
<1>4. /\ BindsOnly(d) /\ bound \subseteq Dev /\ bound' \subseteq Dev
      /\ \A e \in Dev : num[e] \in Number
  BY <1>1 DEF BindsOnly, IInv, TypeOK
<1>5. driver = "dt" => total' = Cardinality(bound') /\ total' \in 0..N
  <2> SUFFICES ASSUME driver = "dt" PROVE total' = Cardinality(bound') /\ total' \in 0..N
    OBVIOUS
  <2>1. seen[t] = Cardinality(bound) /\ Cardinality(bound') = Cardinality(bound) + 1
    BY <1>1, <1>2, <1>4, DeviceAddedToCount DEF IInv, CountInv
  <2> QED
    BY <1>1, <1>4, <2>1, DevicesCounted
<1>6. TypeOK'
  <2>1. driver \in {"platform", "dt"}
    BY DEF IInv, TypeOK
  <2>2. total' \in Int /\ (driver # "platform" => total' \in Number)
    BY <1>1, <1>5, <2>1 DEF IInv, TypeOK, Number
  <2> QED
    BY <1>1, <1>2, <1>3, <2>2 DEF IInv, TypeOK
<1>7. LoadInv'
  BY <1>1, <1>2 DEF IInv, LoadInv
<1>8. TaskInv'
  BY <1>1, <1>2, <1>3, <1>4, TaskStays DEF ProbePc, RemovePc
<1>9. buf[d] = SizeofSize /\ (driver = "platform" => num[d] = d)
  BY <1>1 DEF IInv, DataInv, ProbePc
<1>10. DataInv'
  BY <1>1, <1>2, <1>3, <1>4, <1>9, DataStays DEF ProbePc
<1>11. CountInv'
  <2>1. driver # "platform" => \A u \in Task : tpc'[u] \notin {"incr", "decr"}
    BY <1>3 DEF Moves, Alone, Idle
  <2> QED
    BY <1>1, <1>5, <2>1 DEF CountInv
<1>12. CdevProbing(t) /\ ~CdevProbing(t)' /\ CdevBound(d)' /\ HasCdev(d) /\ HasCdev(d)'
  <2>1. CdevProbing(t) /\ ~CdevProbing(t)'
    BY <1>1, <1>3 DEF CdevProbing
  <2> QED
    BY <1>1, <1>2, <1>3, <1>4, <2>1, CdevFrame
<1>13. PlatformCdevs'
  <2>1. driver = "platform" => cdevs[d] = <<d>>
    BY <1>12, DeviceIsNumber DEF IInv, PlatformCdevs
  <2> QED
    BY <1>1, <1>3, <1>4, <1>12, <2>1, PlatformCdevsStep
<1>14. driver # "platform" => \A e \in bound : num[e] # num[d]
  BY <1>1 DEF IInv, NumbersInv, MadeNode
<1>15. DtCdevs'
  <2>1. ASSUME driver = "dt" PROVE DtRest'
    <3>1. DtFront(d)
      BY <1>3, <1>12, <2>1, DtBefore DEF Alone
    <3>2. \A e \in Dev \ {d} : CdevBound(e)' <=> CdevBound(e)
      BY <1>3, <1>4, CdevFrame
    <3>3. \A e \in Dev : CdevBound(e) => num[e] # num[d] /\ cdevs[num[e]] = <<e>>
      BY <1>14, <2>1, <3>1 DEF DtFront, CdevBound
    <3>4. cdevs[num[d]] = <<d>>
      BY <3>1, <3>3 DEF DtFront
    <3>5. \A e \in Dev : CdevBound(e)' => cdevs[num[e]] = <<e>>
      BY <3>2, <3>3, <3>4
    <3>6. ASSUME NEW n \in Number, \A e \in Dev : CdevBound(e)' => num[e] # n
          PROVE  cdevs[n] = <<>>
      <4>1. n # num[d] /\ \A e \in Dev : CdevBound(e) => num[e] # n
        BY <1>2, <1>12, <3>2, <3>6
      <4> QED
        BY <3>1, <4>1 DEF DtFront
    <3> QED
      BY <1>1, <3>5, <3>6 DEF DtRest
  <2> QED
    BY <1>1, <1>3, <1>4, <1>12, <2>1, DtAfter
<1>16. ~MadeNode(t)' /\ \A e \in Dev : HasNode(e)' <=> HasNode(e)
  <2>1. ~MadeNode(t)' /\ MadeNode(t)
    BY <1>1, <1>3 DEF MadeNode
  <2> QED
    BY <1>1, <1>2, <1>3, <1>4, <2>1, NodeFrame
<1>17. NumbersInv'
  BY <1>1, <1>2, <1>3, <1>4, <1>14, <1>16, NumbersStep
<1>18. NodesInv'
  BY <1>1, <1>3, <1>4, <1>16, NodesStay
<1>19. ServedInv'
  <2>1. driver = "platform" /\ ~failed' =>
          /\ pcdDev' = "ok" /\ tpc'[t] # "undo"
          /\ nodes' = {Node(e, e, e) : e \in {f \in Dev : HasNode(f)'}}
    BY <1>1, <1>3, <1>16 DEF IInv, ServedInv
  <2>2. present' \subseteq Dev /\ d \in bound'
    BY <1>1 DEF IInv, TypeOK
  <2> QED
    BY <1>1, <1>3, <1>4, <2>1, <2>2, ServedStep
<1> QED
  BY <1>6, <1>7, <1>8, <1>10, <1>11, <1>13, <1>15, <1>17, <1>18, <1>19 DEF IInv

\* The device is counted before its attributes are there.
LEMMA CountGroupStep ==
  ASSUME IInv, NEW t \in Task, NEW d \in Dev, tdev[t] = d, CountDevice(t), driver = "sysfs"
  PROVE  IInv'
<1> USE DEF drv
<1>1. /\ tpc[t] = "incr" /\ Goto(t, "group") /\ total' = seen[t] + 1
      /\ UNCHANGED <<driver, drv, pcdDev, present, bound, buf, num, cdevs, nodes, failed>>
  BY DEF CountDevice, At
<1>2. registered /\ d \in present /\ d \notin bound /\ ~Idle(t) /\ ~CdevBound(d)
  BY <1>1, Probing DEF ProbePc
<1>3. /\ Moves(t, d) /\ Alone(t) /\ tpc'[t] = "group" /\ tdev'[t] = d /\ ~Idle(t)'
      /\ tpc' \in [Task -> {"idle"} \cup ProbePc \cup RemovePc] /\ tdev' \in [Task -> Dev]
      /\ seen' \in [Task -> Int]
  BY <1>1, <1>2, GotoMoves DEF ProbePc
<1>4. BindsOnly(d) /\ bound \subseteq Dev /\ Cardinality(bound) \in 0..N
  BY <1>1, DevicesCounted DEF BindsOnly, IInv, TypeOK
<1>5. Grouping = 0 /\ Grouping' = 1
  BY <1>1, <1>3, GroupingOf
<1>6. total' \in Number /\ CountInv'
  <2>1. Cardinality(bound) + 1 <= N
    <3>1. Cardinality(bound \cup {d}) = Cardinality(bound) + 1
      BY <1>2, <1>4, DeviceAddedToCount
    <3>2. Cardinality(bound \cup {d}) \in 0..N
      BY <1>4, DevicesCounted
    <3> QED
      BY <3>1, <3>2
  <2>2. /\ seen[t] = total /\ total \in Int /\ total >= Cardinality(bound)
        /\ total <= MaxTotal + Cardinality(bound)
    BY <1>1, <1>4, <1>5 DEF IInv, CountInv, TypeOK
  <2>3. total' \in Number
    BY <1>1, <1>4, <2>1, <2>2 DEF Number
  <2>4. \A u \in Task : tpc'[u] \notin {"incr", "decr"}
    BY <1>3 DEF Moves, Alone, Idle
  <2> QED
    BY <1>1, <1>4, <1>5, <2>2, <2>3, <2>4 DEF CountInv
<1>7. TypeOK'
  <2>1. total' \in Int
    BY <1>6 DEF Number
  <2> QED
    BY <1>1, <1>3, <1>6, <2>1 DEF IInv, TypeOK
<1>8. LoadInv'
  BY <1>1 DEF IInv, LoadInv
<1>9. TaskInv'
  BY <1>1, <1>2, <1>3, <1>4, TaskStays DEF ProbePc, RemovePc
<1>10. buf[d] = SizeofSize
  BY <1>1 DEF IInv, DataInv, ProbePc
<1>11. DataInv'
  BY <1>1, <1>2, <1>3, <1>4, <1>10, DataStays DEF ProbePc
<1>12. PlatformCdevs' /\ DtCdevs' /\ ServedInv'
  BY <1>1 DEF PlatformCdevs, DtCdevs, ServedInv
<1>13. MadeNode(t) /\ MadeNode(t)' /\ \A e \in Dev : HasNode(e)' <=> HasNode(e)
  <2>1. MadeNode(t)' /\ MadeNode(t)
    BY <1>1, <1>3 DEF MadeNode
  <2> QED
    BY <1>1, <1>2, <1>3, <1>4, <2>1, NodeFrame
<1>14. NumbersInv'
  <2>1. \A e \in bound \ {d} : num[e] # num'[d]
    BY <1>1, <1>13 DEF IInv, NumbersInv
  <2> QED
    BY <1>1, <1>2, <1>3, <1>4, <2>1, NumbersStep
<1>15. NodesInv'
  BY <1>1, <1>3, <1>4, <1>13, NodesStay
<1> QED
  BY <1>6, <1>7, <1>8, <1>9, <1>11, <1>12, <1>14, <1>15 DEF IInv

\* The attributes are there and the device is bound, or they fail.
LEMMA CreateGroupStep ==
  ASSUME IInv, NEW t \in Task, NEW d \in Dev, tdev[t] = d, CreateGroup(t)
  PROVE  IInv'
<1> USE DEF drv
<1>1. /\ tpc[t] = "group"
      /\ UNCHANGED <<driver, drv, total, pcdDev, present, buf, num, cdevs, nodes>>
      /\ \/ bound' = bound \cup {d} /\ Leave(t) /\ failed' = failed
         \/ total < MaxTotal /\ Goto(t, "undo_node") /\ failed' = TRUE /\ bound' = bound
  BY DEF CreateGroup, Fails, At
<1>2. /\ registered /\ d \in present /\ d \notin bound /\ ~Idle(t) /\ ~CdevBound(d)
      /\ driver = "sysfs"
  BY <1>1, Probing DEF ProbePc, IInv, TaskInv
<1>3. /\ Moves(t, d) /\ Alone(t)
      /\ \/ tpc'[t] = "idle" /\ Idle(t)' /\ bound' = bound \cup {d}
         \/ tpc'[t] = "undo_node" /\ tdev'[t] = d /\ bound' = bound /\ total < MaxTotal
      /\ tpc' \in [Task -> {"idle"} \cup ProbePc \cup RemovePc] /\ tdev' \in [Task -> Dev]
      /\ seen' \in [Task -> Int]
  BY <1>1, <1>2, GotoMoves, LeaveMoves DEF ProbePc
<1>4. /\ BindsOnly(d) /\ bound \subseteq Dev /\ bound' \subseteq Dev /\ bound' \subseteq present
      /\ Cardinality(bound) \in 0..N
  BY <1>2, <1>3, DevicesCounted DEF BindsOnly, IInv, TypeOK
<1>5. Grouping = 1 /\ Grouping' = 0
  BY <1>1, <1>2, <1>3, GroupingOf
<1>6. CountInv'
  <2>1. /\ total \in Int /\ total >= Cardinality(bound) + 1
        /\ total <= MaxTotal + Cardinality(bound) + 1
        /\ \A u \in Task : tpc'[u] \notin {"incr", "decr"}
    BY <1>2, <1>3, <1>4, <1>5 DEF IInv, CountInv, TypeOK, Moves, Alone, Idle
  <2>2. CASE bound' = bound \cup {d}
    <3>1. Cardinality(bound') = Cardinality(bound) + 1
      BY <1>2, <1>4, <2>2, DeviceAddedToCount
    <3> QED
      BY <1>1, <1>2, <1>4, <1>5, <2>1, <3>1 DEF CountInv
  <2>3. CASE bound' = bound /\ total < MaxTotal
    BY <1>1, <1>2, <1>4, <1>5, <2>1, <2>3 DEF CountInv
  <2> QED
    BY <1>3, <2>2, <2>3
<1>7. TypeOK'
  <2>1. failed' \in BOOLEAN
    BY <1>1 DEF IInv, TypeOK
  <2> QED
    BY <1>1, <1>3, <1>4, <2>1 DEF IInv, TypeOK
<1>8. LoadInv'
  BY <1>1, <1>2 DEF IInv, LoadInv
<1>9. TaskInv'
  BY <1>1, <1>2, <1>3, <1>4, TaskStays DEF ProbePc, RemovePc
<1>10. buf[d] = SizeofSize
  BY <1>1 DEF IInv, DataInv, ProbePc
<1>11. DataInv'
  BY <1>1, <1>2, <1>3, <1>4, <1>10, DataStays DEF ProbePc
<1>12. PlatformCdevs' /\ DtCdevs' /\ ServedInv'
  BY <1>1, <1>2 DEF PlatformCdevs, DtCdevs, ServedInv
<1>13. (MadeNode(t)' => d \notin bound') /\ \A e \in Dev : HasNode(e)' <=> HasNode(e)
  <2>1. MadeNode(t) /\ (MadeNode(t)' <=> tpc'[t] = "undo_node")
    BY <1>1, <1>3 DEF MadeNode
  <2> QED
    BY <1>1, <1>2, <1>3, <1>4, <2>1, NodeFrame
<1>14. NumbersInv'
  <2>1. \A e \in bound \ {d} : num[e] # num'[d]
    BY <1>1, <1>2 DEF IInv, NumbersInv, MadeNode
  <2> QED
    BY <1>1, <1>3, <1>4, <1>13, <2>1, NumbersStep
<1>15. NodesInv'
  BY <1>1, <1>3, <1>4, <1>13, NodesStay
<1> QED
  BY <1>6, <1>7, <1>8, <1>9, <1>11, <1>12, <1>14, <1>15 DEF IInv

\* device_destroy finds by the number the node of the device, and no other.
LEMMA NodeDestroyed ==
  ASSUME IInv, NEW t \in Task, NEW d \in Dev, tdev[t] = d, Moves(t, d), BindsOnly(d), Alone(t),
         tpc[t] \in {"undo_node", "destroy"}, DeviceDestroy(num[d]),
         UNCHANGED <<driver, pcdDev>>, ~HasNode(d)',
         \A e \in Dev \ {d} : num'[e] = num[e]
  PROVE  NodesInv'
<1> SUFFICES ASSUME driver # "platform" PROVE NodesInv'
  BY DEF NodesInv
<1>1. /\ \A e \in Dev \ {d} : HasNode(e)' <=> HasNode(e)
      /\ ~HasNode(d)'
  BY NodeFrame
<1>2. \A e \in Dev \ {d} : HasNode(e) => e \in bound
  BY DEF HasNode, MadeNode, Moves, Alone, Idle
<1>3. \A e \in bound \ {d} : num[e] # num[d]
  <2>1. CASE tpc[t] = "undo_node"
    BY <2>1 DEF IInv, NumbersInv, MadeNode
  <2>2. CASE tpc[t] = "destroy"
    <3>1. d \in bound
      BY <2>2 DEF IInv, TaskInv, RemovePc
    <3> QED
      BY <3>1 DEF IInv, NumbersInv
  <2> QED
    BY <2>1, <2>2
<1>4. \A x \in nodes : x.inClass /\ x.dev \in Dev /\ HasNode(x.dev) /\ x.num = num[x.dev]
  BY DEF IInv, TypeOK, NodesInv
<1>5. nodes' = {x \in nodes : x.dev # d}
  <2>1. \A x \in nodes : x.inClass /\ x.num = num[d] <=> x.dev = d
    BY <1>2, <1>3, <1>4
  <2> QED
    BY <2>1 DEF DeviceDestroy
<1>6. \A x \in nodes' : x.inClass /\ HasNode(x.dev)' /\ x.num = num'[x.dev]
  BY <1>1, <1>4, <1>5
<1>7. \A e \in Dev : HasNode(e)' => \E x \in nodes' : x.dev = e
  BY <1>1, <1>5 DEF IInv, NodesInv
<1>8. \A x, y \in nodes' : x.dev = y.dev => x = y
  BY <1>5 DEF IInv, NodesInv
<1> QED
  BY <1>6, <1>7, <1>8 DEF NodesInv

LEMMA NodesTyped ==
  ASSUME TypeOK, NEW n, DeviceDestroy(n)
  PROVE  nodes' \subseteq [name : Number, num : Number, dev : Dev, inClass : BOOLEAN]
BY DEF TypeOK, DeviceDestroy

\* The node goes, but neither the cdev nor the count.
LEMMA GroupUndoStep ==
  ASSUME IInv, NEW t \in Task, NEW d \in Dev, tdev[t] = d, GroupUndo(t)
  PROVE  IInv'
<1> USE DEF drv
<1>1. /\ tpc[t] = "undo_node" /\ DeviceDestroy(num[d]) /\ Unprobed(t)
      /\ UNCHANGED <<driver, drv, total, pcdDev, present, bound, cdevs, failed>>
  BY DEF GroupUndo, At
<1>2. /\ registered /\ d \in present /\ d \notin bound /\ ~Idle(t) /\ ~CdevBound(d)
      /\ driver = "sysfs"
  BY <1>1, Probing DEF ProbePc, IInv, TaskInv
<1>3. /\ Moves(t, d) /\ Alone(t) /\ tpc'[t] = "idle" /\ Idle(t)'
      /\ tpc' \in [Task -> {"idle"} \cup ProbePc \cup RemovePc] /\ tdev' \in [Task -> Dev]
      /\ seen' \in [Task -> Int]
  BY <1>1, <1>2, LeaveMoves DEF Unprobed
<1>4. /\ buf' \in [Dev -> {0, SizeofSize}] /\ num' \in [Dev -> Number]
      /\ \A e \in Dev \ {d} : buf'[e] = buf[e] /\ num'[e] = num[e]
  BY <1>1, UnprobedData
<1>5. BindsOnly(d) /\ bound' \subseteq Dev
  BY <1>1 DEF BindsOnly, IInv, TypeOK
<1>6. TypeOK'
  <2>1. nodes' \subseteq [name : Number, num : Number, dev : Dev, inClass : BOOLEAN]
    BY <1>1, NodesTyped DEF IInv
  <2> QED
    BY <1>1, <1>3, <1>4, <2>1 DEF IInv, TypeOK
<1>7. LoadInv'
  BY <1>1 DEF IInv, LoadInv
<1>8. TaskInv'
  BY <1>1, <1>2, <1>3, <1>5, TaskStays DEF ProbePc, RemovePc
<1>9. DataInv'
  BY <1>1, <1>2, <1>3, <1>4, <1>5, DataStays DEF ProbePc
<1>10. CountInv'
  BY <1>1, <1>3, CountStays DEF Moves
<1>11. PlatformCdevs' /\ DtCdevs' /\ ServedInv'
  BY <1>1, <1>2 DEF PlatformCdevs, DtCdevs, ServedInv
<1>12. ~HasNode(d)' /\ ~MadeNode(t)'
  <2>1. ~MadeNode(t)'
    BY <1>3 DEF MadeNode
  <2> QED
    BY <1>1, <1>2, <1>3, <1>5, <2>1, NodeFrame
<1>13. NumbersInv'
  BY <1>1, <1>2, <1>3, <1>4, <1>5, <1>12, NumbersStep
<1>14. NodesInv'
  BY <1>1, <1>3, <1>4, <1>5, <1>12, NodeDestroyed
<1> QED
  BY <1>6, <1>7, <1>8, <1>9, <1>10, <1>11, <1>13, <1>14 DEF IInv

-----------------------------------------------------------------------------
(* the steps of a remove *)

LEMMA Removing ==
  ASSUME IInv, NEW t \in Task, NEW d \in Dev, tdev[t] = d, tpc[t] \in RemovePc
  PROVE  /\ ~Idle(t) /\ d \in present /\ d \in bound /\ buf[d] = SizeofSize
         /\ driver = "platform" => num[d] = d
         /\ driver # "platform" => \A e \in bound \ {d} : num[e] # num[d]
<1>1. ~Idle(t)
  BY DEF Idle, RemovePc
<1>2. d \in present /\ d \in bound
  BY <1>1 DEF IInv, TaskInv
<1> QED
  BY <1>1, <1>2 DEF IInv, DataInv, NumbersInv

LEMMA RemoveNodeStep ==
  ASSUME IInv, NEW t \in Task, NEW d \in Dev, tdev[t] = d, RemoveNode(t)
  PROVE  IInv'
<1> USE DEF drv
<1>1. /\ tpc[t] = "destroy" /\ DeviceDestroy(num[d]) /\ Goto(t, "del")
      /\ UNCHANGED <<driver, drv, total, pcdDev, present, bound, buf, num, cdevs, failed>>
  BY DEF RemoveNode, At
<1>2. /\ ~Idle(t) /\ d \in present /\ d \in bound /\ buf[d] = SizeofSize
      /\ driver = "platform" => num[d] = d
      /\ driver # "platform" => \A e \in bound \ {d} : num[e] # num[d]
  BY <1>1, Removing DEF RemovePc
<1>3. /\ Moves(t, d) /\ Alone(t) /\ tpc'[t] = "del" /\ tdev'[t] = d /\ ~Idle(t)'
      /\ tpc' \in [Task -> {"idle"} \cup ProbePc \cup RemovePc] /\ tdev' \in [Task -> Dev]
      /\ seen' \in [Task -> Int]
  BY <1>1, <1>2, GotoMoves DEF RemovePc
<1>4. BindsOnly(d) /\ bound' \subseteq Dev
  BY <1>1 DEF BindsOnly, IInv, TypeOK
<1>5. TypeOK'
  <2>1. nodes' \subseteq [name : Number, num : Number, dev : Dev, inClass : BOOLEAN]
    BY <1>1, NodesTyped DEF IInv
  <2> QED
    BY <1>1, <1>3, <2>1 DEF IInv, TypeOK
<1>6. LoadInv'
  BY <1>1 DEF IInv, LoadInv
<1>7. TaskInv'
  BY <1>1, <1>2, <1>3, <1>4, TaskStays DEF ProbePc, RemovePc
<1>8. DataInv'
  BY <1>1, <1>2, <1>3, <1>4, DataStays DEF ProbePc
<1>9. CountInv'
  BY <1>1, <1>3, CountStays DEF Moves
<1>10. PlatformCdevs' /\ DtCdevs'
  <2>1. CdevBound(d)' /\ CdevBound(d) /\ ~CdevProbing(t)' /\ ~CdevProbing(t)
    BY <1>1, <1>2, <1>3, <1>4, CdevFrame DEF CdevProbing
  <2> QED
    BY <1>1, <1>3, <1>4, <2>1, CdevsStay
<1>11. /\ ~HasNode(d)' /\ HasNode(d) /\ ~MadeNode(t)'
       /\ \A e \in Dev \ {d} : HasNode(e)' <=> HasNode(e)
  <2>1. ~MadeNode(t)'
    BY <1>3 DEF MadeNode
  <2> QED
    BY <1>1, <1>2, <1>3, <1>4, <2>1, NodeFrame
<1>12. NumbersInv'
  BY <1>1, <1>2, <1>3, <1>4, <1>11, NumbersStep
<1>13. NodesInv'
  BY <1>1, <1>3, <1>4, <1>11, NodeDestroyed
<1>14. ServedInv'
  <2>1. ASSUME driver = "platform", ~failed'
        PROVE  nodes' = {Node(e, e, e) : e \in {f \in Dev : HasNode(f)'}}
    <3>1. nodes = {Node(e, e, e) : e \in {f \in Dev : HasNode(f)}}
      BY <1>1, <2>1 DEF IInv, ServedInv
    <3>2. nodes' = {x \in nodes : ~(x.inClass /\ x.num = d)}
      BY <1>1, <1>2, <2>1 DEF DeviceDestroy
    <3>3. \A e \in Dev : Node(e, e, e).inClass /\ Node(e, e, e).num = e
      BY DEF Node
    <3> QED
      BY <1>11, <3>1, <3>2, <3>3
  <2>2. driver = "platform" /\ ~failed' => pcdDev' = "ok" /\ tpc'[t] # "undo"
    BY <1>1, <1>3 DEF IInv, ServedInv
  <2>3. present' \subseteq Dev /\ d \in bound'
    BY <1>1, <1>2 DEF IInv, TypeOK
  <2> QED
    BY <1>1, <1>3, <1>4, <2>1, <2>2, <2>3, ServedStep
<1> QED
  BY <1>5, <1>6, <1>7, <1>8, <1>9, <1>10, <1>12, <1>13, <1>14 DEF IInv

\* The only cdev of the number is that of the device: two bound devices have
\* different numbers.
LEMMA RemoveCdevStep ==
  ASSUME IInv, NEW t \in Task, NEW d \in Dev, tdev[t] = d, RemoveCdev(t)
  PROVE  IInv'
<1> USE DEF drv
<1>1. /\ tpc[t] = "del" /\ CdevDel(num[d]) /\ Goto(t, "uncount")
      /\ UNCHANGED <<driver, drv, total, pcdDev, present, bound, buf, num, nodes, failed>>
  BY DEF RemoveCdev, At
<1>2. /\ ~Idle(t) /\ d \in present /\ d \in bound /\ buf[d] = SizeofSize
      /\ driver = "platform" => num[d] = d
      /\ driver # "platform" => \A e \in bound \ {d} : num[e] # num[d]
  BY <1>1, Removing DEF RemovePc
<1>3. /\ Moves(t, d) /\ Alone(t) /\ tpc'[t] = "uncount" /\ tdev'[t] = d /\ ~Idle(t)'
      /\ tpc' \in [Task -> {"idle"} \cup ProbePc \cup RemovePc] /\ tdev' \in [Task -> Dev]
      /\ seen' \in [Task -> Int]
  BY <1>1, <1>2, GotoMoves DEF RemovePc
<1>4. BindsOnly(d) /\ bound' \subseteq Dev /\ TypeOK /\ \A e \in Dev : num[e] \in Number
  BY <1>1 DEF BindsOnly, IInv, TypeOK
<1>5. /\ DOMAIN cdevs' = Number /\ \A m \in Number : cdevs'[m] \in Seq(Dev)
      /\ \A m \in Number \ {num[d]} : cdevs'[m] = cdevs[m]
      /\ \A e \in Dev : cdevs[num[d]] = <<e>> => cdevs'[num[d]] = <<>>
  <2>1. TypeOK /\ num[d] \in Number /\ CdevDel(num[d])
    BY <1>1, <1>4
  <2> QED
    BY <2>1, CdevPopped
<1>6. TypeOK'
  BY <1>1, <1>3, <1>5 DEF IInv, TypeOK
<1>7. LoadInv'
  BY <1>1 DEF IInv, LoadInv
<1>8. TaskInv'
  BY <1>1, <1>2, <1>3, <1>4, TaskStays DEF ProbePc, RemovePc
<1>9. DataInv'
  BY <1>1, <1>2, <1>3, <1>4, DataStays DEF ProbePc
<1>10. CountInv'
  BY <1>1, <1>3, CountStays DEF Moves
<1>11. /\ CdevBound(d) /\ HasCdev(d) /\ ~CdevBound(d)' /\ ~HasCdev(d)'
       /\ ~CdevProbing(t) /\ ~CdevProbing(t)'
       /\ \A e \in Dev \ {d} : CdevBound(e)' <=> CdevBound(e)
  <2>1. ~CdevProbing(t) /\ ~CdevProbing(t)'
    BY <1>1, <1>3 DEF CdevProbing
  <2> QED
    BY <1>1, <1>2, <1>3, <1>4, <2>1, CdevFrame
<1>12. PlatformCdevs'
  <2>1. driver = "platform" => cdevs[d] = <<d>>
    BY <1>11, DeviceIsNumber DEF IInv, PlatformCdevs
  <2> QED
    BY <1>1, <1>2, <1>3, <1>4, <1>5, <1>11, <2>1, PlatformCdevsStep
<1>13. DtCdevs'
  <2>1. ASSUME driver = "dt" PROVE DtRest'
    <3>1. DtRest
      BY <1>3, <1>11, <2>1, DtBefore DEF Alone
    <3>2. cdevs'[num[d]] = <<>>
      BY <1>5, <1>11, <3>1 DEF DtRest
    <3>3. ASSUME NEW e \in Dev, CdevBound(e)' PROVE cdevs'[num[e]] = <<e>>
      <4>1. e # d /\ CdevBound(e) /\ e \in bound
        BY <1>11, <3>3 DEF CdevBound
      <4> QED
        BY <1>2, <1>4, <1>5, <2>1, <3>1, <4>1 DEF DtRest
    <3>4. ASSUME NEW n \in Number, \A e \in Dev : CdevBound(e)' => num[e] # n
          PROVE  cdevs'[n] = <<>>
      <4>1. CASE n = num[d]
        BY <3>2, <4>1
      <4>2. CASE n # num[d]
        BY <1>5, <1>11, <3>1, <3>4, <4>2 DEF DtRest
      <4> QED
        BY <4>1, <4>2
    <3> QED
      BY <1>1, <3>3, <3>4 DEF DtRest
  <2> QED
    BY <1>1, <1>3, <1>4, <1>11, <2>1, DtAfter
<1>14. ~MadeNode(t)' /\ \A e \in Dev : HasNode(e)' <=> HasNode(e)
  <2>1. ~MadeNode(t)' /\ ~MadeNode(t)
    BY <1>1, <1>3 DEF MadeNode
  <2> QED
    BY <1>1, <1>2, <1>3, <1>4, <2>1, NodeFrame
<1>15. NumbersInv'
  BY <1>1, <1>2, <1>3, <1>4, <1>14, NumbersStep
<1>16. ~HasNode(d) /\ NodesInv'
  <2>1. ~HasNode(d)
    BY <1>1, <1>3, <1>4, NodeFrame DEF MadeNode
  <2> QED
    BY <1>1, <1>3, <1>4, <1>14, <2>1, NodesStay
<1>17. ServedInv'
  <2>1. driver = "platform" /\ ~failed' =>
          /\ pcdDev' = "ok" /\ tpc'[t] # "undo"
          /\ nodes' = {Node(e, e, e) : e \in {f \in Dev : HasNode(f)'}}
    BY <1>1, <1>3, <1>14 DEF IInv, ServedInv
  <2>2. present' \subseteq Dev /\ d \in bound'
    BY <1>1, <1>2 DEF IInv, TypeOK
  <2> QED
    BY <1>1, <1>3, <1>4, <2>1, <2>2, ServedStep
<1> QED
  BY <1>6, <1>7, <1>8, <1>9, <1>10, <1>12, <1>13, <1>15, <1>16, <1>17 DEF IInv

\* The device is unbound and, if the bus removes it, gone.
LEMMA UncountStep ==
  ASSUME IInv, NEW t \in Task, NEW d \in Dev, tdev[t] = d, Uncount(t)
  PROVE  IInv'
<1> USE DEF drv
<1>1. /\ tpc[t] = "decr" /\ total' = seen[t] - 1 /\ bound' = bound \ {d}
      /\ present' = IF t = "bus" THEN present \ {d} ELSE present
      /\ Unprobed(t) /\ UNCHANGED <<driver, drv, pcdDev, cdevs, nodes, failed>>
  BY DEF Uncount, At
<1>2. /\ ~Idle(t) /\ d \in present /\ d \in bound
      /\ driver # "platform" => \A e \in bound \ {d} : num[e] # num[d]
  BY <1>1, Removing DEF RemovePc
<1>3. /\ Moves(t, d) /\ Alone(t) /\ tpc'[t] = "idle" /\ Idle(t)'
      /\ tpc' \in [Task -> {"idle"} \cup ProbePc \cup RemovePc] /\ tdev' \in [Task -> Dev]
      /\ seen' \in [Task -> Int]
  BY <1>1, <1>2, LeaveMoves DEF Unprobed
<1>4. /\ buf' \in [Dev -> {0, SizeofSize}] /\ num' \in [Dev -> Number]
      /\ \A e \in Dev \ {d} : buf'[e] = buf[e] /\ num'[e] = num[e]
  BY <1>1, UnprobedData
<1>5. /\ BindsOnly(d) /\ bound \subseteq Dev /\ bound' \subseteq present' /\ present' \subseteq Dev
      /\ \A e \in Dev \ {d} : e \in present' <=> e \in present
  BY <1>1 DEF BindsOnly, IInv, TypeOK
<1>6. total' \in Int /\ (driver # "platform" => total' \in Number) /\ CountInv'
  <2>1. /\ Cardinality(bound') = Cardinality(bound) - 1
        /\ Cardinality(bound) \in 0..N /\ Cardinality(bound') \in 0..N
    BY <1>1, <1>2, <1>5, DeviceTakenFromCount, DevicesCounted
  <2>2. driver # "platform" => /\ Grouping = 0 /\ Grouping' = 0 /\ seen[t] = total
                               /\ \A u \in Task : tpc'[u] \notin {"incr", "decr"}
    <3>1. driver # "platform" => Grouping = 0 /\ Grouping' = 0
      BY <1>1, <1>3, GroupingOf
    <3>2. driver # "platform" => \A u \in Task : tpc'[u] \notin {"incr", "decr"}
      BY <1>3 DEF Moves, Alone, Idle
    <3> QED
      BY <1>1, <3>1, <3>2 DEF IInv, CountInv
  <2>3. total \in Int /\ seen[t] \in Int /\ driver \in {"platform", "dt", "sysfs"}
    BY DEF IInv, TypeOK
  <2>4. CASE driver = "platform"
    BY <1>1, <2>3, <2>4 DEF CountInv
  <2>5. CASE driver = "dt"
    <3>1. total = Cardinality(bound)
      BY <2>5 DEF IInv, CountInv
    <3> QED
      BY <1>1, <2>1, <2>2, <2>5, <3>1 DEF CountInv, Number
  <2>6. CASE driver = "sysfs"
    <3>1. total >= Cardinality(bound) /\ total <= MaxTotal + Cardinality(bound)
      BY <2>1, <2>2, <2>3, <2>6 DEF IInv, CountInv
    <3> QED
      BY <1>1, <2>1, <2>2, <2>3, <2>6, <3>1 DEF CountInv, Number
  <2> QED
    BY <2>3, <2>4, <2>5, <2>6
<1>7. TypeOK'
  BY <1>1, <1>3, <1>4, <1>5, <1>6 DEF IInv, TypeOK
<1>8. LoadInv'
  BY <1>1 DEF IInv, LoadInv
<1>9. TaskInv'
  BY <1>1, <1>2, <1>3, <1>5, TaskStays DEF ProbePc, RemovePc
<1>10. DataInv'
  BY <1>1, <1>2, <1>3, <1>4, <1>5, DataStays DEF ProbePc
<1>11. PlatformCdevs' /\ DtCdevs'
  <2>1. ~CdevProbing(t) /\ ~CdevProbing(t)'
    BY <1>1, <1>3 DEF CdevProbing
  <2>2. ~CdevBound(d) /\ ~CdevBound(d)'
    BY <1>1 DEF CdevBound
  <2> QED
    BY <1>1, <1>3, <1>4, <1>5, <2>1, <2>2, CdevsStay
<1>12. ~HasNode(d) /\ ~MadeNode(t)' /\ \A e \in Dev : HasNode(e)' <=> HasNode(e)
  <2>1. ~MadeNode(t)' /\ ~MadeNode(t)
    BY <1>1, <1>3 DEF MadeNode
  <2> QED
    BY <1>1, <1>3, <1>5, <2>1, NodeFrame
<1>13. NumbersInv'
  BY <1>1, <1>3, <1>4, <1>5, <1>12, NumbersStep
<1>14. NodesInv'
  BY <1>1, <1>3, <1>4, <1>5, <1>12, NodesStay
<1>15. ServedInv'
  <2>1. driver = "platform" /\ ~failed' =>
          /\ pcdDev' = "ok" /\ tpc'[t] # "undo"
          /\ nodes' = {Node(e, e, e) : e \in {f \in Dev : HasNode(f)'}}
    BY <1>1, <1>3, <1>12 DEF IInv, ServedInv
  <2>2. dpc = "attach" \/ mod = "live" => d \notin present'
    <3>1. t = "drv" => dpc = "detach"
      BY <1>1 DEF IInv, TaskInv, RemovePc
    <3> QED
      BY <1>1, <3>1 DEF IInv, LoadInv, Task
  <2> QED
    BY <1>1, <1>3, <1>5, <2>1, <2>2, ServedStep
<1> QED
  BY <1>6, <1>7, <1>8, <1>9, <1>10, <1>11, <1>13, <1>14, <1>15 DEF IInv

-----------------------------------------------------------------------------
(* every step *)

LEMMA TaskStep == ASSUME IInv, NEW t \in Task, Call(t) PROVE IInv'
<1>1. tdev[t] \in Dev
  BY DEF IInv, TypeOK
<1>2. PICK d \in Dev : tdev[t] = d
  BY <1>1
<1>3. CASE Probe(t)
  BY <1>2, <1>3, ProbeAllocStep, DeviceNumberStep, CdevAddStep, DeviceCreateStep,
     CheckDeviceStep, ProbeUndoStep, CountDeviceStep, CountGroupStep, CreateGroupStep,
     GroupUndoStep DEF Probe
<1>4. CASE Remove(t)
  BY <1>2, <1>4, RemoveNodeStep, RemoveCdevStep, UncountStep DEF Remove
<1> QED
  BY <1>3, <1>4, LoadTotalStep DEF Call

LEMMA StutterStep == ASSUME IInv, UNCHANGED vars PROVE IInv'
<1> USE DEF vars, drv, task, devices
<1>1. TypeOK' /\ LoadInv' /\ TaskInv'
  BY DEF IInv, TypeOK, LoadInv, TaskInv, Idle
<1>2. ServedInv'
  BY DEF IInv, ServedInv, HasNode, MadeNode
<1> QED
  BY <1>1, <1>2, DevicesStay DEF IInv

LEMMA StepInv == IInv /\ [Next]_vars => IInv'
<1> SUFFICES ASSUME IInv, [Next]_vars PROVE IInv'
  OBVIOUS
<1>1. CASE UNCHANGED vars
  BY <1>1, StutterStep
<1>2. CASE Insmod \/ Rmmod
  BY <1>2, InsmodStep, RmmodStep
<1>3. CASE Loader
  BY <1>3, AllocRegionStep, ClassCreateStep, DriverRegisterStep, InitSucceedsStep,
     DriverUnregisterStep, ClassDestroyStep, UnregChrdevStep, DriverAttachStep,
     DriverDetachStep DEF Loader
<1>4. CASE \E t \in Task : Call(t)
  BY <1>4, TaskStep
<1>5. CASE \E d \in Dev : DeviceAdd(d) \/ DeviceDel(d)
  BY <1>5, DeviceAddStep, DeviceDelStep
<1> QED
  BY <1>1, <1>2, <1>3, <1>4, <1>5 DEF Next

-----------------------------------------------------------------------------
(* the properties *)

\* The invariant the properties follow from, in every reachable state.
THEOREM Invariance == ASSUME SerialOverlays PROVE Spec => []IInv
<1>1. Init => IInv
  BY InitInv
<1> QED
  BY <1>1, StepInv, PTL DEF Spec

\* Every variable has its type: the count by which the dt and sysfs drivers number
\* their devices neither falls below zero nor outgrows its bound, and the map only
\* holds cdevs of devices.
THEOREM TypeCorrect == ASSUME SerialOverlays PROVE Spec => []TypeOK
<1>1. IInv => TypeOK
  BY DEF IInv
<1> QED
  BY Invariance, <1>1, PTL

\* With the platform driver, opening the number of a bound device leads to that
\* device, whatever is probed, removed or fails meanwhile.
THEOREM BoundDevicesReachable == ASSUME SerialOverlays PROVE Spec => []BoundIsReachable
<1>1. ASSUME IInv PROVE BoundIsReachable
  <2> SUFFICES ASSUME driver = "platform", NEW d \in bound, ~Locked(d)
               PROVE  cdevs[num[d]] = <<d>>
    BY DEF BoundIsReachable
  <2>1. d \in Dev /\ d \in Number /\ num[d] = d
    BY <1>1, DeviceIsNumber DEF IInv, TypeOK, DataInv
  <2>2. HasCdev(d)
    BY DEF HasCdev, CdevBound, Locked
  <2> QED
    BY <1>1, <2>1, <2>2 DEF IInv, PlatformCdevs
<1> QED
  BY Invariance, <1>1, PTL

\* Every cdev in the map is of a device whose private data exists, except with
\* the sysfs driver, which leaves the cdev behind when its attributes fail.
THEOREM CdevsStayAlive == ASSUME SerialOverlays PROVE Spec => []CdevsAreAlive
<1>1. ASSUME IInv PROVE CdevsAreAlive
  <2> SUFFICES ASSUME driver # "sysfs", NEW n \in Number, NEW k \in 1..Len(cdevs[n])
               PROVE  buf[cdevs[n][k]] # 0
    BY DEF CdevsAreAlive
  <2>1. \A d \in Dev : HasCdev(d) => buf[d] # 0
    BY <1>1 DEF IInv, DataInv, HasCdev, CdevBound, CdevProbing, ProbePc, SizeofSize
  <2>2. \A t \in Task : tdev[t] \in Dev /\ (CdevProbing(t) => HasCdev(tdev[t]))
    BY <1>1 DEF IInv, TypeOK, HasCdev
  <2>3. \/ cdevs[n] = <<>>
        \/ \E d \in Dev : HasCdev(d) /\ cdevs[n] = <<d>>
        \/ \E d, e \in Dev : HasCdev(d) /\ HasCdev(e) /\ cdevs[n] = <<d, e>>
    <3>1. CASE driver = "platform"
      BY <1>1, <3>1 DEF IInv, PlatformCdevs
    <3>2. CASE driver = "dt"
      <4>1. CASE \E t \in Task : CdevProbing(t) /\ num[tdev[t]] = n
        <5>1. PICK t \in Task : CdevProbing(t) /\ num[tdev[t]] = n
          BY <4>1
        <5>2. CASE \E e \in Dev : CdevBound(e) /\ num[e] = n
          <6>1. PICK e \in Dev : CdevBound(e) /\ num[e] = n
            BY <5>2
          <6>2. cdevs[n] = <<tdev[t], e>>
            BY <1>1, <3>2, <5>1, <6>1 DEF IInv, DtCdevs
          <6> QED
            BY <2>2, <5>1, <6>1, <6>2 DEF HasCdev
        <5>3. CASE \A e \in Dev : CdevBound(e) => num[e] # n
          BY <1>1, <2>2, <3>2, <5>1, <5>3 DEF IInv, DtCdevs
        <5> QED
          BY <5>2, <5>3
      <4>2. CASE \A t \in Task : CdevProbing(t) => num[tdev[t]] # n
        <5>1. CASE \E e \in Dev : CdevBound(e) /\ num[e] = n
          BY <1>1, <3>2, <4>2, <5>1 DEF IInv, DtCdevs, HasCdev
        <5>2. CASE \A e \in Dev : CdevBound(e) => num[e] # n
          BY <1>1, <3>2, <4>2, <5>2 DEF IInv, DtCdevs
        <5> QED
          BY <5>1, <5>2
      <4> QED
        BY <4>1, <4>2
    <3> QED
      BY <1>1, <3>1, <3>2 DEF IInv, TypeOK
  <2>4. CASE \E d \in Dev : HasCdev(d) /\ cdevs[n] = <<d>>
    BY <2>1, <2>4
  <2>5. CASE \E d, e \in Dev : HasCdev(d) /\ HasCdev(e) /\ cdevs[n] = <<d, e>>
    <3>1. PICK d \in Dev, e \in Dev : HasCdev(d) /\ HasCdev(e) /\ cdevs[n] = <<d, e>>
      BY <2>5
    <3>2. k \in {1, 2}
      BY <3>1
    <3> QED
      BY <2>1, <3>1, <3>2
  <2> QED
    BY <2>3, <2>4, <2>5
<1> QED
  BY Invariance, <1>1, PTL

\* However insmod of the platform driver and of the device setup interleave, no
\* device on the bus is left without the driver, unless a call failed.
THEOREM DevicesAreServed == ASSUME SerialOverlays PROVE Spec => []EveryDeviceServed
<1>1. ASSUME IInv PROVE EveryDeviceServed
  <2> SUFFICES ASSUME driver = "platform", mod = "live", Quiet, ~failed
               PROVE  bound = present /\ nodes = {Node(d, d, d) : d \in present}
    BY DEF EveryDeviceServed
  <2>1. \A t \in Task : tpc[t] = "idle"
    BY DEF Quiet, Idle
  <2>2. dpc = "none" /\ bound \subseteq present /\ present \subseteq Dev
    BY <1>1 DEF IInv, LoadInv, TypeOK
  <2>3. bound = present
    BY <1>1, <2>1, <2>2 DEF IInv, ServedInv, ProbePc
  <2>4. \A d \in Dev : HasNode(d) <=> d \in present
    BY <2>1, <2>3 DEF HasNode, MadeNode
  <2> QED
    BY <1>1, <2>2, <2>3, <2>4 DEF IInv, ServedInv
<1> QED
  BY Invariance, <1>1, PTL

\* With the device tree drivers every bound device has one node, whose number is
\* its own and no other's, although the count repeats numbers: device_create
\* turns down a number that has a node, and no bound device lacks one.
THEOREM NodesOfDevices == ASSUME SerialOverlays PROVE Spec => []NodesMatchDevices
<1>1. ASSUME IInv PROVE NodesMatchDevices
  <2> SUFFICES ASSUME driver # "platform", Quiet
               PROVE  /\ {x.dev : x \in nodes} = bound
                      /\ Cardinality(nodes) = Cardinality(bound)
                      /\ \A x, y \in nodes : x.num = num[x.dev] /\ (x # y => x.num # y.num)
    BY DEF NodesMatchDevices
  <2>1. \A d \in Dev : HasNode(d) <=> d \in bound
    BY DEF HasNode, MadeNode, Quiet, Idle
  <2>2. \A x \in nodes : x.dev \in bound /\ x.num = num[x.dev]
    BY <1>1, <2>1 DEF IInv, TypeOK, NodesInv
  <2>3. \A d \in bound : \E x \in nodes : x.dev = d
    BY <1>1, <2>1 DEF IInv, TypeOK, NodesInv
  <2>4. {x.dev : x \in nodes} = bound
    BY <2>2, <2>3
  <2>5. \A x, y \in nodes : x # y => x.dev # y.dev /\ x.num # y.num
    BY <1>1, <2>2 DEF IInv, NodesInv, NumbersInv
  <2>6. Cardinality(nodes) = Cardinality(bound)
    <3> DEFINE node == [d \in bound |-> CHOOSE x \in nodes : x.dev = d]
    <3>1. \A d \in bound : node[d] \in nodes /\ node[d].dev = d
      BY <2>3
    <3>2. node \in [bound -> nodes]
      BY <3>1
    <3> HIDE DEF node
    <3>3. \A x \in nodes : node[x.dev] = x
      BY <2>2, <2>5, <3>1
    <3>4. node \in Bijection(bound, nodes)
      <4>1. node \in Injection(bound, nodes)
        BY <3>1, <3>2 DEF Injection, IsInjective
      <4>2. node \in Surjection(bound, nodes)
        BY <2>2, <3>2, <3>3 DEF Surjection
      <4> QED
        BY <4>1, <4>2 DEF Bijection
    <3>5. IsFiniteSet(bound)
      BY <1>1, DevicesCounted DEF IInv, TypeOK
    <3> QED
      BY <3>4, <3>5, FS_Bijection DEF ExistsBijection
  <2> QED
    BY <2>2, <2>4, <2>5, <2>6
<1> QED
  BY Invariance, <1>1, PTL

\* With the dt driver, between calls, total_devices is the number of devices that
\* are bound, whichever probe failed at whichever of its calls.
THEOREM CountOfDevices == ASSUME SerialOverlays PROVE Spec => []CountAccurate
<1>1. IInv => CountAccurate
  BY DEF IInv, CountInv, CountAccurate
<1> QED
  BY Invariance, <1>1, PTL

\* Without the module there is no bound device, no class and, but for the known
\* exceptions, neither a node nor a cdev.
THEOREM UnloadIsClean == ASSUME SerialOverlays PROVE Spec => []UnloadLeavesNothing
<1>1. ASSUME IInv PROVE UnloadLeavesNothing
  <2> SUFFICES ASSUME mod = "unloaded" PROVE UnloadLeavesNothing
    BY DEF UnloadLeavesNothing
  <2>1. dpc = "none" /\ ~registered /\ ~class
    BY <1>1 DEF IInv, LoadInv
  <2>2. bound = {} /\ \A t \in Task : Idle(t)
    BY <1>1, <2>1, Quiescent DEF IInv
  <2> QED
    BY <1>1, <2>1, <2>2, NothingLeft DEF UnloadLeavesNothing
<1> QED
  BY Invariance, <1>1, PTL
=============================================================================
