------------------------- MODULE PcdLifecycleProofs -------------------------
(***************************************************************************)
(* The safety properties of PcdLifecycle for any number of devices and     *)
(* any set of files.                                                       *)
(***************************************************************************)
EXTENDS PcdLifecycle, FiniteSetTheorems, TLAPS

\* What is registered where pcd_init is; below destroy and del a device may
\* have failed half way, so that only bounds are known of the devices left.
InitInv ==
    /\ ipc \in {"region", "class", "cdev", "device", "destroy", "del", "unreg_chrdev", "out"}
           => mod = "coming"
    /\ ipc \in {"region", "out"} => ~region /\ ~class /\ cdev = {} /\ node = {}
    /\ ipc = "region" => i = 0
    /\ ipc = "class" => region /\ ~class /\ cdev = {} /\ node = {} /\ i = 0
    /\ ipc = "cdev" => region /\ class /\ i \in 0..N /\ cdev = 0..i - 1 /\ node = 0..i - 1
    /\ ipc = "device" => region /\ class /\ i \in Dev /\ cdev = 0..i /\ node = 0..i - 1
    /\ ipc = "destroy" => region /\ class /\ i \in -1..N - 1 /\ cdev \subseteq 0..i
                          /\ node \subseteq cdev
    /\ ipc = "del" => region /\ class /\ i \in Dev /\ cdev \subseteq 0..i
                      /\ node \subseteq cdev \ {i}
    /\ ipc = "unreg_chrdev" => region /\ ~class /\ cdev = {} /\ node = {}

\* The same of pcd_exit, and of the times when neither runs.
ExitInv ==
    /\ ipc \in {"exit_destroy", "exit_del", "exit_unreg"} => mod = "going"
    /\ ipc = "exit_destroy" => region /\ class /\ i \in 0..N /\ cdev = i..N - 1
                               /\ node = i..N - 1
    /\ ipc = "exit_del" => region /\ class /\ i \in Dev /\ cdev = i..N - 1
                           /\ node = i + 1..N - 1
    /\ ipc = "exit_unreg" => region /\ ~class /\ cdev = {} /\ node = {}
    /\ ipc = "none" => mod \in {"unloaded", "live"}

\* The files that have a reference on the module.
CountedFiles == {f \in File : Counted(f)}

\* The usage count is their number.
CountInv == IsFiniteSet(CountedFiles) /\ refcnt = Cardinality(CountedFiles)

IInv ==
    /\ TypeOK /\ InitInv /\ ExitInv
    /\ AllOrNothing /\ CountInv /\ UnloadWaitsForFiles

USE NAssumption

LEMMA InitialInv == Init => IInv
<1> SUFFICES ASSUME Init PROVE IInv
  OBVIOUS
<1>1. TypeOK
  <2>1. fstate \in [File -> {"closed", "lookup", "opening", "open", "stranded"}]
        /\ fdev \in [File -> Nat]
    BY DEF Init
  <2>2. i \in -1..N /\ cdev \subseteq Dev /\ node \subseteq Dev /\ refcnt \in Nat
    BY DEF Init
  <2>3. region \in BOOLEAN /\ class \in BOOLEAN /\ mod = "unloaded" /\ ipc = "none"
    BY Zenon DEF Init
  <2> QED
    BY <2>1, <2>2, <2>3 DEF TypeOK
<1>2. InitInv /\ ExitInv /\ AllOrNothing
  BY DEF Init, InitInv, ExitInv, AllOrNothing
<1>3. CountedFiles = {} /\ UnloadWaitsForFiles
  BY DEF Init, CountedFiles, Counted, UnloadWaitsForFiles
<1>4. CountInv
  BY <1>3, FS_EmptySet DEF Init, CountInv
<1> QED
  BY <1>1, <1>2, <1>3, <1>4 DEF IInv

-----------------------------------------------------------------------------
(* the loader: what is registered *)

\* The variables of the loader are typed, and registered is what ipc says.
LoadInv ==
    /\ mod \in {"unloaded", "coming", "live", "going"}
    /\ ipc \in {"none", "region", "class", "cdev", "device", "destroy", "del",
                "unreg_chrdev", "out", "exit_destroy", "exit_del", "exit_unreg"}
    /\ i \in -1..N
    /\ region \in BOOLEAN /\ class \in BOOLEAN
    /\ cdev \subseteq Dev /\ node \subseteq Dev
    /\ InitInv /\ ExitInv /\ AllOrNothing

LEMMA RegistrationInv ==
  ASSUME IInv,
         Insmod \/ AllocRegion \/ ClassCreate \/ ClassDestroy \/ UnregChrdev
  PROVE  LoadInv'
<1> DEFINE Empty == cdev = {} /\ node = {} /\ cdev' = {} /\ node' = {}
<1>0. 0 \in -1..N /\ {} \subseteq Dev
  OBVIOUS
<1>1. CASE Insmod
  <2>1. /\ Empty /\ ~region' /\ ~class' /\ mod' = "coming" /\ ipc' = "region" /\ i' = 0
        /\ region' \in BOOLEAN /\ class' \in BOOLEAN
    BY <1>1 DEF Insmod, IInv, TypeOK, AllOrNothing
  <2> QED
    BY <1>0, <2>1 DEF LoadInv, InitInv, ExitInv, AllOrNothing
<1>2. CASE AllocRegion
  <2>1. Empty /\ ~region /\ ~class /\ mod = "coming" /\ i = 0
    BY <1>2 DEF AllocRegion, IInv, InitInv
  <2>2. region = FALSE /\ class = FALSE
    BY <2>1 DEF IInv, TypeOK
  <2>3. /\ Empty /\ class' = FALSE /\ mod' = "coming" /\ i' = 0
        /\ (ipc' = "class" /\ region' = TRUE) \/ (ipc' = "out" /\ region' = FALSE)
    BY <1>2, <2>1, <2>2 DEF AllocRegion
  <2> QED
    BY <1>0, <2>3 DEF LoadInv, InitInv, ExitInv, AllOrNothing
<1>3. CASE ClassCreate
  <2>1. Empty /\ region /\ ~class /\ mod = "coming" /\ i = 0
    BY <1>3 DEF ClassCreate, IInv, InitInv
  <2>2. region = TRUE /\ class = FALSE
    BY <2>1 DEF IInv, TypeOK
  <2>3. /\ Empty /\ region' = TRUE /\ mod' = "coming" /\ i' = 0
        /\ (ipc' = "cdev" /\ class' = TRUE) \/ (ipc' = "unreg_chrdev" /\ class' = FALSE)
    BY <1>3, <2>1, <2>2 DEF ClassCreate
  <2>4. 0..0 - 1 = {} /\ 0 \in 0..N
    OBVIOUS
  <2> QED
    BY <1>0, <2>3, <2>4 DEF LoadInv, InitInv, ExitInv, AllOrNothing
<1>4. CASE ClassDestroy
  <2>1. i \in -1..N /\ region \in BOOLEAN /\ class \in BOOLEAN
    BY DEF IInv, TypeOK
  <2>2. 0..i = {} /\ region /\ class /\ mod = "coming" /\ cdev = {} /\ node = {}
    BY <1>4, <2>1 DEF ClassDestroy, IInv, InitInv
  <2>3. /\ Empty /\ region' /\ ~class' /\ mod' = "coming" /\ ipc' = "unreg_chrdev"
        /\ i' \in -1..N /\ region' \in BOOLEAN /\ class' \in BOOLEAN
    BY <1>4, <2>1, <2>2 DEF ClassDestroy
  <2> QED
    BY <1>0, <2>3 DEF LoadInv, InitInv, ExitInv, AllOrNothing
<1>5. CASE UnregChrdev
  <2>1. /\ Empty /\ ~region' /\ ~class' /\ mod' = "coming" /\ ipc' = "out"
        /\ i' \in -1..N /\ region' \in BOOLEAN /\ class' \in BOOLEAN
    BY <1>5 DEF UnregChrdev, IInv, TypeOK, InitInv
  <2> QED
    BY <1>0, <2>1 DEF LoadInv, InitInv, ExitInv, AllOrNothing
<1> QED
  BY <1>1, <1>2, <1>3, <1>4, <1>5

\* The loop of pcd_init: the devices below i are complete.
LEMMA InitLoopInv ==
  ASSUME IInv, CdevAdd \/ DeviceCreate \/ InitSucceeds
  PROVE  LoadInv'
<1> USE DEF IInv, TypeOK, InitInv, ExitInv, AllOrNothing, LoadInv, Dev
<1>1. CASE CdevAdd
  <2>1. i \in 0..N - 1 /\ (0..i - 1) \cup {i} = 0..i
    BY <1>1 DEF CdevAdd
  <2>2. /\ mod' = "coming" /\ region' /\ class' /\ node' = 0..i - 1 /\ i' = i
        /\ \/ ipc' = "device" /\ cdev' = 0..i
           \/ ipc' = "destroy" /\ cdev' = 0..i - 1
    BY <1>1, <2>1 DEF CdevAdd
  <2>3. 0..i - 1 \subseteq 0..i /\ 0..i \subseteq 0..N - 1 /\ i \in -1..N /\ i \in -1..N - 1
    BY <2>1
  <2> QED
    BY <2>1, <2>2, <2>3
<1>2. CASE DeviceCreate
  <2>1. i \in 0..N - 1 /\ (0..i - 1) \cup {i} = 0..i /\ (i + 1) - 1 = i
    BY <1>2 DEF DeviceCreate
  <2>2. /\ mod' = "coming" /\ region' /\ class' /\ cdev' = 0..i
        /\ \/ ipc' = "cdev" /\ node' = 0..i /\ i' = i + 1
           \/ ipc' = "destroy" /\ node' = 0..i - 1 /\ i' = i
    BY <1>2, <2>1 DEF DeviceCreate
  <2>3. /\ 0..i - 1 \subseteq 0..i /\ 0..i \subseteq 0..N - 1 /\ i \in -1..N /\ i \in -1..N - 1
        /\ i + 1 \in 0..N /\ i + 1 \in -1..N
    BY <2>1
  <2>4. CASE ipc' = "cdev"
    BY <2>1, <2>2, <2>3, <2>4
  <2>5. CASE ipc' = "destroy"
    BY <2>1, <2>2, <2>3, <2>5
  <2> QED
    BY <2>2, <2>4, <2>5
<1>3. CASE InitSucceeds
  BY <1>3 DEF InitSucceeds
<1> QED
  BY <1>1, <1>2, <1>3

\* The unwinding loop: nothing is left of the devices above i.
LEMMA UndoLoopInv ==
  ASSUME IInv, DeviceDestroy \/ CdevDel
  PROVE  LoadInv'
<1> USE DEF IInv, TypeOK, InitInv, ExitInv, AllOrNothing, LoadInv, Dev
<1>1. CASE DeviceDestroy
  BY <1>1 DEF DeviceDestroy
<1>2. CASE CdevDel
  <2>1. i \in Dev /\ (0..i) \ {i} = 0..i - 1
    BY <1>2 DEF CdevDel
  <2> QED
    BY <1>2, <2>1 DEF CdevDel
<1> QED
  BY <1>1, <1>2

\* pcd_exit: the devices from i on are still there.
LEMMA ExitLoopInv ==
  ASSUME IInv,
         Rmmod \/ ExitDeviceDestroy \/ ExitCdevDel \/ ExitClassDestroy \/ ExitUnregChrdev
  PROVE  LoadInv'
<1> USE DEF IInv, TypeOK, InitInv, ExitInv, AllOrNothing, LoadInv, Dev
<1>1. CASE Rmmod
  BY <1>1 DEF Rmmod
<1>2. CASE ExitDeviceDestroy
  <2>1. i \in Dev /\ (i..N - 1) \ {i} = i + 1..N - 1
    BY <1>2 DEF ExitDeviceDestroy
  <2> QED
    BY <1>2, <2>1 DEF ExitDeviceDestroy
<1>3. CASE ExitCdevDel
  <2>1. i \in Dev /\ (i..N - 1) \ {i} = i + 1..N - 1
    BY <1>3 DEF ExitCdevDel
  <2> QED
    BY <1>3, <2>1 DEF ExitCdevDel
<1>4. CASE ExitClassDestroy
  <2>1. i = N /\ i..N - 1 = {}
    BY <1>4 DEF ExitClassDestroy
  <2> QED
    BY <1>4, <2>1 DEF ExitClassDestroy
<1>5. CASE ExitUnregChrdev
  BY <1>5 DEF ExitUnregChrdev
<1> QED
  BY <1>1, <1>2, <1>3, <1>4, <1>5

-----------------------------------------------------------------------------
(* the steps *)

\* All these steps leave the files alone; only Rmmod begins to unload.
LEMMA LoaderInv ==
  ASSUME IInv, Insmod \/ Rmmod \/ (LoaderStep /\ ~InitFails)
  PROVE  IInv'
<1>1. LoadInv'
  BY RegistrationInv, InitLoopInv, UndoLoopInv, ExitLoopInv DEF LoaderStep
<1>2. /\ UNCHANGED <<fstate, fdev, refcnt>>
      /\ mod' \in {"going", "unloaded"} => mod \in {"going", "unloaded"} \/ refcnt = 0
  BY DEF LoaderStep, Insmod, Rmmod, AllocRegion, ClassCreate, CdevAdd, DeviceCreate,
         InitSucceeds, DeviceDestroy, CdevDel, ClassDestroy, UnregChrdev, ExitDeviceDestroy,
         ExitCdevDel, ExitClassDestroy, ExitUnregChrdev, user, IInv, ExitInv
<1>3. TypeOK'
  BY <1>1, <1>2 DEF IInv, TypeOK, LoadInv
<1>4. CountedFiles' = CountedFiles
  BY <1>2 DEF CountedFiles, Counted
<1>5. CountInv'
  BY <1>2, <1>4 DEF IInv, CountInv
<1>6. UnloadWaitsForFiles'
  <2>1. refcnt = 0 => CountedFiles = {}
    BY FS_EmptySet DEF IInv, CountInv
  <2> QED
    BY <1>2, <2>1 DEF IInv, UnloadWaitsForFiles, CountedFiles, Counted
<1> QED
  BY <1>1, <1>3, <1>5, <1>6 DEF IInv, LoadInv

\* A load that fails strands the files that were counted.
LEMMA InitFailsInv ==
  ASSUME IInv, InitFails
  PROVE  IInv'
<1>1. LoadInv'
  BY DEF InitFails, IInv, TypeOK, InitInv, ExitInv, AllOrNothing, LoadInv
<1>2. \A f \in File : fstate'[f] = IF Counted(f) THEN "stranded" ELSE fstate[f]
  BY DEF InitFails
<1>3. TypeOK'
  <2>1. fstate' \in [File -> {"closed", "lookup", "opening", "open", "stranded"}]
    BY DEF InitFails, IInv, TypeOK
  <2> QED
    BY <1>1, <2>1 DEF InitFails, IInv, TypeOK, LoadInv
<1>4. CountedFiles' = {} /\ UnloadWaitsForFiles'
  BY <1>2 DEF CountedFiles, Counted, UnloadWaitsForFiles
<1>5. CountInv'
  BY <1>4, FS_EmptySet DEF InitFails, CountInv
<1> QED
  BY <1>1, <1>3, <1>4, <1>5 DEF IInv, LoadInv

\* User space leaves what is registered alone.
LEMMA UserLoadInv ==
  ASSUME IInv, UNCHANGED <<mod, ipc, i, region, class, cdev, node>>
  PROVE  LoadInv'
BY DEF IInv, TypeOK, InitInv, ExitInv, AllOrNothing, LoadInv

\* Steps that change no reference.
LEMMA UncountedInv ==
  ASSUME IInv, NEW f \in File,
         \/ \E d \in Dev : Lookup(f, d)
         \/ CdevGet(f) /\ ~(fdev[f] \in cdev /\ mod # "going")
         \/ PcdOpen(f)
  PROVE  IInv'
<1>1. /\ UNCHANGED <<mod, ipc, i, region, class, cdev, node, refcnt>>
      /\ fstate' \in [File -> {"closed", "lookup", "opening", "open", "stranded"}]
      /\ fdev' \in [File -> Nat]
      /\ Counted(f)' = Counted(f)
      /\ \A g \in File \ {f} : fstate'[g] = fstate[g]
  BY DEF Lookup, CdevGet, PcdOpen, IInv, TypeOK, Counted, Dev
<1>2. LoadInv'
  BY <1>1, UserLoadInv
<1>3. CountedFiles' = CountedFiles
  BY <1>1 DEF CountedFiles, Counted
<1>4. TypeOK' /\ CountInv'
  BY <1>1, <1>2, <1>3 DEF IInv, TypeOK, LoadInv, CountInv
<1>5. UnloadWaitsForFiles'
  BY <1>1 DEF IInv, UnloadWaitsForFiles, Counted
<1> QED
  BY <1>2, <1>4, <1>5 DEF IInv, LoadInv

\* An open takes its reference from a module that is loaded, or being loaded.
LEMMA CdevGetInv ==
  ASSUME IInv, NEW f \in File, CdevGet(f), fdev[f] \in cdev, mod # "going"
  PROVE  IInv'
<1>1. /\ UNCHANGED <<mod, ipc, i, region, class, cdev, node, fdev>>
      /\ refcnt' = refcnt + 1 /\ fstate[f] = "lookup"
      /\ fstate' = [fstate EXCEPT ![f] = "opening"]
  BY DEF CdevGet
<1>2. LoadInv'
  BY <1>1, UserLoadInv
<1>3. CountedFiles' = CountedFiles \cup {f} /\ f \notin CountedFiles
  BY <1>1 DEF IInv, TypeOK, CountedFiles, Counted
<1>4. CountInv'
  BY <1>1, <1>3, FS_AddElement DEF IInv, CountInv
<1>5. TypeOK'
  BY <1>1, <1>2 DEF IInv, TypeOK, LoadInv
<1>6. UnloadWaitsForFiles'
  BY <1>1 DEF IInv, AllOrNothing, UnloadWaitsForFiles
<1> QED
  BY <1>2, <1>4, <1>5, <1>6 DEF IInv, LoadInv

\* A reference that is given back was counted.
LEMMA PutInv ==
  ASSUME IInv, NEW f \in File, PcdOpenRefused(f) \/ PcdRelease(f)
  PROVE  IInv'
<1>1. /\ UNCHANGED <<mod, ipc, i, region, class, cdev, node, fdev>>
      /\ refcnt' = refcnt - 1 /\ fstate[f] \in {"opening", "open"}
      /\ fstate' = [fstate EXCEPT ![f] = "closed"]
  BY DEF PcdOpenRefused, PcdRelease
<1>2. LoadInv'
  BY <1>1, UserLoadInv
<1>3. CountedFiles' = CountedFiles \ {f} /\ f \in CountedFiles
  BY <1>1 DEF IInv, TypeOK, CountedFiles, Counted
<1>4. CountInv' /\ refcnt' \in Nat
  <2>1. IsFiniteSet(CountedFiles') /\ Cardinality(CountedFiles') = Cardinality(CountedFiles) - 1
    BY <1>3, FS_RemoveElement DEF IInv, CountInv
  <2> QED
    BY <1>1, <2>1, FS_CardinalityType DEF IInv, CountInv
<1>5. TypeOK'
  BY <1>1, <1>2, <1>4 DEF IInv, TypeOK, LoadInv
<1>6. UnloadWaitsForFiles'
  BY <1>1 DEF IInv, TypeOK, UnloadWaitsForFiles, Counted
<1> QED
  BY <1>2, <1>4, <1>5, <1>6 DEF IInv, LoadInv

LEMMA StepInv == IInv /\ [Next]_vars => IInv'
<1> SUFFICES ASSUME IInv, [Next]_vars PROVE IInv'
  OBVIOUS
<1>1. CASE Insmod \/ Rmmod \/ LoaderStep
  BY <1>1, LoaderInv, InitFailsInv
<1>2. ASSUME NEW f \in File, NEW d \in Dev, Lookup(f, d) PROVE IInv'
  BY <1>2, UncountedInv
<1>3. ASSUME NEW f \in File, UserStep(f) PROVE IInv'
  BY <1>3, UncountedInv, CdevGetInv, PutInv DEF UserStep
<1>4. CASE UNCHANGED vars
  <2>1. /\ UNCHANGED <<mod, ipc, i, region, class, cdev, node, fstate, fdev, refcnt>>
        /\ CountedFiles' = CountedFiles
    BY <1>4 DEF vars, CountedFiles, Counted
  <2>2. LoadInv'
    BY <2>1, UserLoadInv
  <2> QED
    BY <2>1, <2>2 DEF IInv, TypeOK, LoadInv, CountInv, UnloadWaitsForFiles, Counted
<1> QED
  BY <1>1, <1>2, <1>3, <1>4 DEF Next

-----------------------------------------------------------------------------
(* the theorems *)

\* The inductive invariant: what is registered at each point of pcd_init and
\* pcd_exit, and the files that are counted.
THEOREM Invariance == Spec => []IInv
BY InitialInv, StepInv, PTL DEF Spec

\* Type correctness: the loop variable stays within -1..N, and the usage count
\* does not become negative.
THEOREM TypeCorrect == Spec => []TypeOK
<1>1. IInv => TypeOK
  BY DEF IInv
<1> QED
  BY <1>1, Invariance, PTL

\* Nothing is registered without what it needs, for any number of devices and
\* through every failure (pcd_n.c:97-153, 163-168).
THEOREM LayersStayOrdered == Spec => []LayersOrdered
<1>1. IInv => LayersOrdered
  <2> SUFFICES ASSUME IInv PROVE LayersOrdered
    OBVIOUS
  <2>1. CASE ipc = "none"
    BY <2>1 DEF IInv, ExitInv, AllOrNothing, LayersOrdered
  <2>2. CASE ipc \in {"region", "class", "cdev", "device", "destroy", "del", "unreg_chrdev", "out"}
    BY <2>2 DEF IInv, InitInv, LayersOrdered, Dev
  <2>3. CASE ipc \in {"exit_destroy", "exit_del", "exit_unreg"}
    BY <2>3 DEF IInv, ExitInv, LayersOrdered, Dev
  <2> QED
    BY <2>1, <2>2, <2>3 DEF IInv, TypeOK
<1> QED
  BY <1>1, Invariance, PTL

\* A load that fails and an unload leave nothing behind, one that succeeds has
\* registered every device (pcd_n.c:144-155, 160-171).
THEOREM LoadIsAllOrNothing == Spec => []AllOrNothing
<1>1. IInv => AllOrNothing
  BY DEF IInv
<1> QED
  BY <1>1, Invariance, PTL

\* The module is not unloaded under an open file (pcd_n.c:88, 124).
THEOREM UnloadIsSafe == Spec => []UnloadWaitsForFiles
<1>1. IInv => UnloadWaitsForFiles
  BY DEF IInv
<1> QED
  BY <1>1, Invariance, PTL
=============================================================================
