--------------------------- MODULE PcdSingleProofs ---------------------------
(***************************************************************************)
(* The safety properties of PcdSingle for every number of processes and    *)
(* files and every size.  What the file operations need is the invariant   *)
(* IInv of PcdOpsProofs: a step of PcdSingle is a step of PcdOps, or       *)
(* leaves its variables alone, or loads the module, or ends a wait.        *)
(***************************************************************************)
EXTENDS PcdSingle, PcdOpsProofs

\* Where pcd_init or pcd_exit is determines what is registered.
LoaderInv ==
    /\ ipc = "none" => /\ step = 0
                       /\ \/ mod = "unloaded" /\ registered = {}
                          \/ mod = "live" /\ registered = {"region", "cdev", "class", "node"}
    /\ ipc = "init" => /\ mod = "coming" /\ step \in 1..5
                       /\ registered = {Layer[k] : k \in 1..step - 1}
    /\ ipc = "undo" => /\ mod = "coming" /\ step \in 0..3
                       /\ registered = {Layer[k] : k \in 1..step}
    /\ ipc = "exit" => /\ mod = "going" /\ step \in 1..4
                       /\ registered = {Layer[k] : k \in 1..5 - step}

\* A file has its device from pcd_open to pcd_release; while pcd_init runs and
\* the node is not there, no open is on its way; a module without users is all
\* that is ever unloaded.
FileInv ==
    /\ \A f \in File : fdev[f] # NoDev <=> fstate[f] = "open"
    /\ mod = "coming" /\ "node" \notin registered =>
           \A f \in File : fstate[f] = "closed"
    /\ mod \in {"unloaded", "going"} =>
           \A f \in File : fstate[f] \in {"closed", "lookup"}

\* Until a call has failed, only a copy has the mutex.
LockInv ==
    ~failed => \A d \in Dev : lock[d] # NoProc =>
        pc[lock[d]] = "copy" /\ DevOf(lock[d]) = d

SInv == IInv /\ LoadTypeOK /\ LoaderInv /\ FileInv /\ LockInv

USE SizeAssumption, PermAssumption, ByteAssumption, CountAssumption, NoneAssumption

LEMMA LayerValues ==
  /\ Layer[1] = "region" /\ Layer[2] = "cdev" /\ Layer[3] = "class" /\ Layer[4] = "node"
  /\ Label[1] = 0 /\ Label[2] = 1 /\ Label[3] = 2 /\ Label[4] = 3
  /\ ExitOrder[1] = "node" /\ ExitOrder[2] = "class"
  /\ ExitOrder[3] = "cdev" /\ ExitOrder[4] = "region"
  /\ {Layer[k] : k \in 1..0} = {}
  /\ {Layer[k] : k \in 1..1} = {"region"}
  /\ {Layer[k] : k \in 1..2} = {"region", "cdev"}
  /\ {Layer[k] : k \in 1..3} = {"region", "cdev", "class"}
  /\ {Layer[k] : k \in 1..4} = {"region", "cdev", "class", "node"}
<1>1. /\ Layer[1] = "region" /\ Layer[2] = "cdev" /\ Layer[3] = "class" /\ Layer[4] = "node"
      /\ Label[1] = 0 /\ Label[2] = 1 /\ Label[3] = 2 /\ Label[4] = 3
      /\ ExitOrder[1] = "node" /\ ExitOrder[2] = "class"
      /\ ExitOrder[3] = "cdev" /\ ExitOrder[4] = "region"
  BY DEF Layer, Label, ExitOrder
<1>2. 1..0 = {} /\ 1..1 = {1} /\ 1..2 = {1, 2} /\ 1..3 = {1, 2, 3} /\ 1..4 = {1, 2, 3, 4}
  OBVIOUS
<1> QED
  BY <1>1, <1>2

\* No call is in flight while no file is open.
LEMMA NoCallOutside ==
  ASSUME IInv, FileInv, \A f \in File : fstate[f] # "open"
  PROVE  \A p \in Proc : ~InCall(p)
<1> SUFFICES ASSUME NEW p \in Proc, InCall(p) PROVE FALSE
  OBVIOUS
<1>1. arg[p].file \in File /\ fdev[arg[p].file] \in Dev
  BY DEF IInv, CallInv, Arg, DevOf
<1> QED
  BY <1>1 DEF FileInv

LEMMA SInitInv == SingleInit => SInv
<1> SUFFICES ASSUME SingleInit PROVE SInv
  OBVIOUS
<1>1. IInv
  BY InitInv DEF SingleInit
<1>2. LoadTypeOK
  <2>1. failed \in BOOLEAN /\ signal \in [Proc -> BOOLEAN]
    BY Zenon DEF SingleInit
  <2>2. fstate \in [File -> {"closed", "lookup", "opening", "open"}]
    BY DEF SingleInit
  <2> QED
    BY <2>1, <2>2 DEF SingleInit, LoadTypeOK
<1>3. LoaderInv
  BY DEF SingleInit, LoaderInv
<1>4. FileInv
  BY DEF SingleInit, Init, FileInv
<1>5. LockInv
  BY DEF SingleInit, Init, LockInv
<1> QED
  BY <1>1, <1>2, <1>3, <1>4, <1>5 DEF SInv

-----------------------------------------------------------------------------
(* the file operations *)

\* A step that ends a wait keeps the invariant of the file operations.
LEMMA InterruptedIInv ==
  ASSUME IInv, NEW p \in Proc, Interrupted(p)
  PROVE  IInv'
<1>a. /\ pc[p] = "lock" /\ InCall(p)
      /\ ret' = [ret EXCEPT ![p] = EINTR]
      /\ pc' = [pc EXCEPT ![p] = "ret"]
      /\ UNCHANGED <<mem, lock, files, arg, pos, count, done, got>>
  BY DEF Interrupted, InCall
<1>b. done[p] = 0 /\ got[p] = <<>> /\ pos[p] <= Size[DevOf(p)]
  BY <1>a DEF IInv, GotInv, OffsetInv
<1>1. TypeOK'
  BY <1>a DEF IInv, TypeOK, files, EINTR
<1>2. CallInv' /\ OffsetInv' /\ CopyInv' /\ GotInv' /\ CopyIsolated'
  BY <1>a, <1>b, LeaveInv
<1>3. PermInv'
  BY <1>a DEF IInv, PermInv, files
<1> QED
  BY <1>1, <1>2, <1>3 DEF IInv

\* Loading the module clears the buffer and the mutex while no call is in flight.
LEMMA InsmodIInv ==
  ASSUME IInv, FileInv, Insmod
  PROVE  IInv'
<1>a. /\ mem' = [d \in Dev |-> [k \in 0..Size[d] - 1 |-> Zero]]
      /\ lock' = [d \in Dev |-> NoProc]
      /\ UNCHANGED <<fdev, fmode, fpos, pc, arg, pos, count, done, got, ret>>
  BY DEF Insmod, files, locals
<1>b. \A p \in Proc : pc[p] = "idle"
  BY NoCallOutside DEF Insmod, InCall
<1>1. TypeOK'
  BY <1>a DEF IInv, TypeOK
<1>2. CallInv' /\ CopyInv' /\ CopyIsolated'
  BY <1>a, <1>b DEF CallInv, CopyInv, CopyIsolated, InCall
<1>3. OffsetInv' /\ GotInv'
  BY <1>a, <1>b DEF IInv, OffsetInv, GotInv, InCall
<1>4. PermInv'
  BY <1>a DEF IInv, PermInv
<1> QED
  BY <1>1, <1>2, <1>3, <1>4 DEF IInv

\* Every other step is a step of PcdOps or leaves its variables alone.
LEMMA OtherSteps ==
  ASSUME SingleNext, ~Insmod, \A p \in Proc : ~Interrupted(p)
  PROVE  [Next]_vars
<1>1. CASE Loader
  BY <1>1 DEF Loader, Register, InitSucceeds, Undo, InitFails, Rmmod, PcdExit
<1>2. ASSUME NEW f \in File, Lookup(f) \/ CdevGet(f)
      PROVE  [Next]_vars
  BY <1>2 DEF Lookup, CdevGet
<1>3. ASSUME NEW f \in File, SingleRelease(f)
      PROVE  [Next]_vars
  BY <1>3 DEF SingleRelease, Next
<1>4. ASSUME NEW f \in File, NEW d \in Dev, NEW mode \in OpenModes, SingleOpen(f, d, mode)
      PROVE  [Next]_vars
  BY <1>4 DEF SingleOpen, Next
<1>5. ASSUME NEW p \in Proc, NEW op \in Modes, NEW f \in File, NEW n \in 0..MaxCount,
             NEW limit \in 0..n, NEW b \in Payload(op), SingleCall(p, op, f, n, limit, b)
      PROVE  [Next]_vars
  BY <1>5 DEF SingleCall, Next
<1>6. ASSUME NEW p \in Proc, SingleRead(p) \/ SingleWrite(p) \/ SingleReturn(p)
      PROVE  [Next]_vars
  BY <1>6 DEF SingleRead, SingleWrite, SingleReturn, Next, Enter, Step
<1>7. ASSUME NEW p \in Proc, Signal(p)
      PROVE  [Next]_vars
  BY <1>7 DEF Signal
<1> QED
  BY <1>1, <1>2, <1>3, <1>4, <1>5, <1>6, <1>7 DEF SingleNext, Handler

LEMMA SingleIInv ==
  ASSUME IInv, FileInv, SingleNext
  PROVE  IInv'
<1>1. CASE Insmod
  BY <1>1, InsmodIInv
<1>2. CASE \E p \in Proc : Interrupted(p)
  BY <1>2, InterruptedIInv
<1> QED
  BY <1>1, <1>2, OtherSteps, StepInv

-----------------------------------------------------------------------------
(* the life cycle *)

\* What the steps that are not the loader's leave alone.
LEMMA LoaderStays ==
  ASSUME SingleNext, ~Loader
  PROVE  UNCHANGED <<mod, ipc, step, registered>>
<1>1. ASSUME NEW f \in File, Lookup(f) \/ CdevGet(f) \/ SingleRelease(f)
      PROVE  UNCHANGED loader
  BY <1>1 DEF Lookup, CdevGet, SingleRelease
<1>2. ASSUME NEW f \in File, NEW d \in Dev, NEW mode \in OpenModes, SingleOpen(f, d, mode)
      PROVE  UNCHANGED loader
  BY <1>2 DEF SingleOpen
<1>3. ASSUME NEW p \in Proc, NEW op \in Modes, NEW f \in File, NEW n \in 0..MaxCount,
             NEW limit \in 0..n, NEW b \in Payload(op), SingleCall(p, op, f, n, limit, b)
      PROVE  UNCHANGED loader
  BY <1>3 DEF SingleCall, extra
<1>4. ASSUME NEW p \in Proc, Handler(p) \/ Signal(p)
      PROVE  UNCHANGED loader
  BY <1>4 DEF Handler, Signal, Interrupted, SingleRead, SingleWrite, SingleReturn, extra
<1> QED
  BY <1>1, <1>2, <1>3, <1>4 DEF SingleNext, loader

LEMMA LoaderInvStep ==
  ASSUME LoadTypeOK, LoaderInv, SingleNext
  PROVE  LoaderInv'
<1> USE LayerValues
<1>1. CASE Insmod
  <2>1. ipc = "none" /\ registered = {}
    BY <1>1 DEF Insmod, LoadTypeOK, LoaderInv
  <2>2. mod' = "coming" /\ ipc' = "init" /\ step' = 1 /\ registered' = {}
    BY <1>1, <2>1 DEF Insmod
  <2>3. registered' = {Layer[k] : k \in 1..step' - 1}
    BY <2>2
  <2> QED
    BY <2>2, <2>3 DEF LoaderInv
<1>2. CASE Register
  <2>1. /\ ipc = "init" /\ mod = "coming" /\ mod' = mod
        /\ registered = {Layer[k] : k \in 1..step - 1}
        /\ step = 1 \/ step = 2 \/ step = 3 \/ step = 4
    BY <1>2 DEF Register, LoaderInv
  <2>2. CASE registered' = registered \cup {Layer[step]} /\ step' = step + 1 /\ ipc' = ipc
    BY <2>1, <2>2 DEF LoaderInv
  <2>3. CASE registered' = registered /\ step' = Label[step] /\ ipc' = "undo"
    BY <2>1, <2>3 DEF LoaderInv
  <2> QED
    BY <1>2, <2>2, <2>3 DEF Register
<1>3. CASE InitSucceeds
  BY <1>3 DEF InitSucceeds, LoaderInv
<1>4. CASE Undo
  <2>1. /\ ipc = "undo" /\ ipc' = ipc /\ mod = "coming" /\ mod' = mod
        /\ registered = {Layer[k] : k \in 1..step}
        /\ registered' = registered \ {Layer[step]} /\ step' = step - 1
        /\ step = 1 \/ step = 2 \/ step = 3
    BY <1>4 DEF Undo, LoaderInv
  <2> QED
    BY <2>1 DEF LoaderInv
<1>5. CASE InitFails
  BY <1>5 DEF InitFails, LoaderInv
<1>6. CASE Rmmod
  BY <1>6 DEF Rmmod, LoaderInv, LoadTypeOK
<1>7. CASE PcdExit
  <2>1. /\ ipc = "exit" /\ mod = "going"
        /\ registered = {Layer[k] : k \in 1..5 - step}
        /\ registered' = registered \ {ExitOrder[step]}
        /\ step = 1 \/ step = 2 \/ step = 3 \/ step = 4
    BY <1>7 DEF PcdExit, LoaderInv
  <2> QED
    BY <1>7, <2>1 DEF PcdExit, LoaderInv
<1>8. CASE ~Loader
  BY <1>8, LoaderStays DEF LoaderInv
<1> QED
  BY <1>1, <1>2, <1>3, <1>4, <1>5, <1>6, <1>7, <1>8 DEF Loader

\* The open files stay what they are in the steps that open or close none.
LEMMA FilesStay ==
  ASSUME SingleNext,
         \A f \in File : ~Lookup(f) /\ ~CdevGet(f) /\ ~SingleRelease(f),
         \A f \in File, d \in Dev, mode \in OpenModes : ~SingleOpen(f, d, mode)
  PROVE  UNCHANGED <<fdev, fstate>>
<1>1. CASE Loader
  BY <1>1 DEF Loader, Insmod, Register, InitSucceeds, Undo, InitFails, Rmmod, PcdExit, vars, files
<1>2. ASSUME NEW p \in Proc, NEW op \in Modes, NEW f \in File, NEW n \in 0..MaxCount,
             NEW limit \in 0..n, NEW b \in Payload(op), SingleCall(p, op, f, n, limit, b)
      PROVE  UNCHANGED <<fdev, fstate>>
  BY <1>2 DEF SingleCall, Call, extra, files
<1>3. ASSUME NEW p \in Proc, Interrupted(p) \/ SingleReturn(p) \/ Signal(p)
      PROVE  UNCHANGED <<fdev, fstate>>
  BY <1>3 DEF Interrupted, SingleReturn, Return, Signal, extra, files, vars
<1>4. ASSUME NEW p \in Proc, SingleRead(p)
      PROVE  UNCHANGED <<fdev, fstate>>
  BY <1>4 DEF SingleRead, ReadEnter, ReadByte, ReadFault, Fault, ReadDone, Finish, files
<1>5. ASSUME NEW p \in Proc, SingleWrite(p)
      PROVE  UNCHANGED <<fdev, fstate>>
  BY <1>5 DEF SingleWrite, WriteEnter, WriteNoSpace, WriteByte, WriteFault, Fault, WriteDone,
              Finish, files
<1> QED
  BY <1>1, <1>2, <1>3, <1>4, <1>5 DEF SingleNext, Handler

\* Files come and go only while the module can have users.
LEMMA FileInvStep ==
  ASSUME IInv, LoadTypeOK, LoaderInv, FileInv, SingleNext
  PROVE  FileInv'
<1>0. /\ mod = "coming" => ipc \in {"init", "undo"}
      /\ mod = "unloaded" => ipc = "none" /\ registered = {}
      /\ ipc = "none" /\ mod # "unloaded" => "node" \in registered
  BY DEF LoaderInv, LoadTypeOK
<1>1. CASE Insmod
  <2>1. mod' = "coming" /\ UNCHANGED <<fdev, fstate>> /\ \A f \in File : fstate[f] = "closed"
    BY <1>1 DEF Insmod, files
  <2> QED
    BY <2>1 DEF FileInv
<1>2. CASE Register
  <2>1. /\ mod = "coming" /\ mod' = "coming" /\ UNCHANGED <<fdev, fstate>>
        /\ registered \subseteq registered'
    BY <1>2 DEF Register, vars, LoaderInv
  <2> QED
    BY <2>1 DEF FileInv
<1>3. CASE InitSucceeds
  BY <1>3 DEF InitSucceeds, vars, FileInv
<1>4. CASE Undo
  <2>1. /\ mod = "coming" /\ mod' = "coming" /\ UNCHANGED <<fdev, fstate>>
        /\ step = 1 \/ step = 2 \/ step = 3
        /\ registered = {Layer[k] : k \in 1..step}
    BY <1>4 DEF Undo, vars, LoaderInv
  <2>2. "node" \notin registered
    BY <2>1, LayerValues
  <2> QED
    BY <2>1, <2>2 DEF FileInv
<1>5. CASE InitFails
  <2>1. /\ mod = "coming" /\ mod' = "unloaded" /\ UNCHANGED <<fdev, fstate>>
        /\ registered = {Layer[k] : k \in 1..0}
    BY <1>5 DEF InitFails, vars, LoaderInv
  <2>2. registered = {}
    BY <2>1, LayerValues
  <2> QED
    BY <2>1, <2>2 DEF FileInv
<1>6. CASE Rmmod
  <2>1. /\ mod' = "going" /\ UNCHANGED <<fdev, fstate>>
        /\ \A f \in File : fstate[f] \notin {"opening", "open"}
    BY <1>6 DEF Rmmod, vars, Users
  <2>2. \A f \in File : fstate[f] \in {"closed", "lookup"}
    BY <2>1 DEF LoadTypeOK
  <2> QED
    BY <2>1, <2>2 DEF FileInv
<1>7. CASE PcdExit
  <2>1. /\ mod = "going" /\ mod' \in {"going", "unloaded"} /\ UNCHANGED <<fdev, fstate>>
    BY <1>7 DEF PcdExit, vars, LoaderInv
  <2> QED
    BY <2>1 DEF FileInv
<1>8. ASSUME NEW f \in File, Lookup(f)
      PROVE  FileInv'
  <2>1. /\ fstate[f] = "closed" /\ fstate' = [fstate EXCEPT ![f] = "lookup"]
        /\ "node" \in registered /\ UNCHANGED <<fdev, mod, registered>>
    BY <1>8 DEF Lookup, SetState, vars, loader
  <2> QED
    BY <2>1 DEF FileInv, LoadTypeOK
<1>9. ASSUME NEW f \in File, CdevGet(f)
      PROVE  FileInv'
  <2>1. /\ fstate[f] = "lookup" /\ UNCHANGED <<fdev, mod, registered>>
        /\ \/ fstate' = [fstate EXCEPT ![f] = "closed"]
           \/ fstate' = [fstate EXCEPT ![f] = "opening"] /\ "cdev" \in registered /\ mod # "going"
    BY <1>9 DEF CdevGet, SetState, vars, loader
  <2>2. ~(mod = "coming" /\ "node" \notin registered)
    BY <2>1 DEF FileInv
  <2>3. fstate'[f] = "opening" => mod \notin {"unloaded", "going"}
    BY <2>1, <1>0 DEF LoadTypeOK
  <2> QED
    BY <2>1, <2>2, <2>3 DEF FileInv, LoadTypeOK
<1>10. ASSUME NEW f \in File, NEW d \in Dev, NEW mode \in OpenModes, SingleOpen(f, d, mode)
       PROVE  FileInv'
  <2>1. /\ fstate[f] = "opening" /\ UNCHANGED <<mod, registered>>
        /\ fdev' = [fdev EXCEPT ![f] = d] /\ fstate' = [fstate EXCEPT ![f] = "open"]
    BY <1>10 DEF SingleOpen, PcdOpen, SetState, loader
  <2> QED
    BY <2>1 DEF FileInv, LoadTypeOK, IInv, TypeOK
<1>11. ASSUME NEW f \in File, SingleRelease(f)
       PROVE  FileInv'
  <2>1. /\ fdev[f] # NoDev /\ UNCHANGED <<mod, registered>>
        /\ fdev' = [fdev EXCEPT ![f] = NoDev] /\ fstate' = [fstate EXCEPT ![f] = "closed"]
    BY <1>11 DEF SingleRelease, PcdRelease, SetState, loader
  <2> QED
    BY <2>1 DEF FileInv, LoadTypeOK, IInv, TypeOK
<1>12. CASE /\ ~Loader
            /\ \A f \in File : ~Lookup(f) /\ ~CdevGet(f) /\ ~SingleRelease(f)
            /\ \A f \in File, d \in Dev, mode \in OpenModes : ~SingleOpen(f, d, mode)
  <2>1. UNCHANGED <<mod, registered, fdev, fstate>>
    BY <1>12, LoaderStays, FilesStay
  <2> QED
    BY <2>1 DEF FileInv
<1> QED
  BY <1>1, <1>2, <1>3, <1>4, <1>5, <1>6, <1>7, <1>8, <1>9, <1>10, <1>11, <1>12 DEF Loader

LEMMA LoadTypeStep ==
  ASSUME IInv, LoadTypeOK, LoaderInv, SingleNext
  PROVE  LoadTypeOK'
<1>1. CASE Loader
  <2>1. /\ mod' \in {"unloaded", "coming", "live", "going"}
        /\ ipc' \in {"none", "init", "undo", "exit"}
    BY <1>1 DEF Loader, Insmod, Register, InitSucceeds, Undo, InitFails, Rmmod, PcdExit, LoadTypeOK
  <2>2. step' \in 0..5
    <3>1. CASE Register
      <4>1. step = 1 \/ step = 2 \/ step = 3 \/ step = 4
        BY <3>1 DEF Register, LoaderInv
      <4> QED
        BY <3>1, <4>1, LayerValues DEF Register
    <3>2. CASE PcdExit
      BY <3>2 DEF PcdExit, LoaderInv
    <3>3. CASE Undo
      BY <3>3 DEF Undo, LoadTypeOK
    <3>4. CASE Insmod \/ InitSucceeds \/ InitFails \/ Rmmod
      BY <3>4 DEF Insmod, InitSucceeds, InitFails, Rmmod, LoadTypeOK
    <3> QED
      BY <1>1, <3>1, <3>2, <3>3, <3>4 DEF Loader
  <2>3. registered' \subseteq {"region", "cdev", "class", "node"}
    <3>1. CASE Register
      <4>1. step = 1 \/ step = 2 \/ step = 3 \/ step = 4
        BY <3>1 DEF Register, LoaderInv
      <4>2. Layer[step] \in {"region", "cdev", "class", "node"}
        BY <4>1, LayerValues
      <4> QED
        BY <3>1, <4>2 DEF Register, LoadTypeOK
    <3>2. CASE ~Register
      BY <1>1, <3>2 DEF Loader, Insmod, InitSucceeds, Undo, InitFails, Rmmod, PcdExit, LoadTypeOK
    <3> QED
      BY <3>1, <3>2
  <2>4. UNCHANGED <<fstate, signal>> /\ (failed' = failed \/ failed' = FALSE)
    BY <1>1, Zenon DEF Loader, Insmod, Register, InitSucceeds, Undo, InitFails, Rmmod, PcdExit
  <2>5. failed' \in BOOLEAN
    BY <2>4, Zenon DEF LoadTypeOK
  <2> QED
    BY <2>1, <2>2, <2>3, <2>4, <2>5 DEF LoadTypeOK
<1>2. ASSUME NEW f \in File, Lookup(f) \/ CdevGet(f) \/ SingleRelease(f)
      PROVE  LoadTypeOK'
  <2>1. /\ \E x \in {"closed", "lookup", "opening"} : fstate' = [fstate EXCEPT ![f] = x]
        /\ UNCHANGED <<loader, signal, failed>>
    BY <1>2 DEF Lookup, CdevGet, SingleRelease, SetState
  <2> QED
    BY <2>1 DEF LoadTypeOK, loader
<1>3. ASSUME NEW f \in File, NEW d \in Dev, NEW mode \in OpenModes, SingleOpen(f, d, mode)
      PROVE  LoadTypeOK'
  <2>1. /\ fstate' = [fstate EXCEPT ![f] = "open"]
        /\ UNCHANGED <<loader, signal, failed>>
    BY <1>3 DEF SingleOpen, SetState
  <2> QED
    BY <2>1 DEF LoadTypeOK, loader
<1>4. ASSUME NEW p \in Proc, NEW op \in Modes, NEW f \in File, NEW n \in 0..MaxCount,
             NEW limit \in 0..n, NEW b \in Payload(op), SingleCall(p, op, f, n, limit, b)
      PROVE  LoadTypeOK'
  BY <1>4 DEF SingleCall, extra, loader, LoadTypeOK
<1>5. ASSUME NEW p \in Proc, Interrupted(p)
      PROVE  LoadTypeOK'
  BY <1>5 DEF Interrupted, extra, loader, LoadTypeOK
<1>6. ASSUME NEW p \in Proc, SingleRead(p) \/ SingleWrite(p)
       PROVE  LoadTypeOK'
  <2>1. failed' \in BOOLEAN
    BY <1>6, Zenon DEF SingleRead, SingleWrite, LoadTypeOK
  <2>2. UNCHANGED <<loader, fstate, signal>>
    BY <1>6 DEF SingleRead, SingleWrite
  <2> QED
    BY <2>1, <2>2 DEF LoadTypeOK, loader
<1>7. ASSUME NEW p \in Proc, SingleReturn(p) \/ Signal(p)
       PROVE  LoadTypeOK'
  <2>1. /\ signal' = [signal EXCEPT ![p] = FALSE] \/ signal' = [signal EXCEPT ![p] = TRUE]
        /\ UNCHANGED <<loader, fstate, failed>>
    BY <1>7 DEF SingleReturn, Signal
  <2>2. signal' \in [Proc -> BOOLEAN]
    BY <2>1, Zenon DEF LoadTypeOK
  <2> QED
    BY <2>1, <2>2 DEF LoadTypeOK, loader
<1> QED
  BY <1>1, <1>2, <1>3, <1>4, <1>5, <1>6, <1>7 DEF SingleNext, Handler

-----------------------------------------------------------------------------
(* the mutex *)

\* A step that leaves the mutexes and the calls of their owners alone.
LEMMA OwnersStay ==
  ASSUME LockInv, UNCHANGED lock, failed' = failed,
         \A q \in Proc : pc[q] = "copy" => pc'[q] = "copy" /\ DevOf(q)' = DevOf(q),
         TypeOK
  PROVE  LockInv'
BY DEF LockInv, TypeOK

\* A read or write that leaves the copy of p fails, or gives the mutex back.
LEMMA CopyLockInv ==
  ASSUME IInv, LockInv, NEW p \in Proc, SingleRead(p) \/ SingleWrite(p)
  PROVE  LockInv'
<1>0. ~failed' => ~failed /\ ~(ret'[p] < 0)
  BY Zenon DEF SingleRead, SingleWrite
<1>1. /\ UNCHANGED <<fdev, arg>>
      /\ \A q \in Proc : DevOf(q)' = DevOf(q)
  BY DEF SingleRead, SingleWrite, ReadEnter, ReadByte, ReadFault, Fault, ReadDone, Finish,
         WriteEnter, WriteNoSpace, WriteByte, WriteFault, WriteDone, files, DevOf
<1>2. CASE ReadEnter(p) \/ WriteEnter(p)
  <2>1. /\ pc[p] = "lock" /\ lock' = [lock EXCEPT ![DevOf(p)] = p]
        /\ pc' = [pc EXCEPT ![p] = "copy"]
    BY <1>2 DEF ReadEnter, WriteEnter, MutexLock
  <2>2. pc'[p] = "copy" /\ \A q \in Proc \ {p} : pc'[q] = pc[q]
    BY <2>1 DEF IInv, TypeOK
  <2> QED
    BY <1>0, <1>1, <2>1, <2>2 DEF LockInv, IInv, TypeOK
<1>3. CASE ReadByte(p) \/ WriteByte(p)
  <2>1. lock' = lock /\ pc' = pc
    BY <1>3 DEF ReadByte, WriteByte
  <2>2. \A q \in Proc : pc[q] = "copy" => pc'[q] = "copy" /\ DevOf(q)' = DevOf(q)
    BY <1>1, <2>1
  <2> QED
    BY <1>0, <2>1, <2>2 DEF LockInv, IInv, TypeOK
<1>4. CASE WriteNoSpace(p) \/ ReadFault(p) \/ WriteFault(p)
  <2>1. ret'[p] = ENOMEM \/ ret'[p] = EFAULT
    BY <1>4 DEF WriteNoSpace, ReadFault, WriteFault, Fault, IInv, TypeOK
  <2> QED
    BY <1>0, <1>1, <2>1 DEF LockInv, ENOMEM, EFAULT
<1>5. CASE ReadDone(p) \/ WriteDone(p)
  <2>1. /\ pc[p] = "copy" /\ lock' = [lock EXCEPT ![DevOf(p)] = NoProc]
        /\ pc' = [pc EXCEPT ![p] = "ret"]
    BY <1>5 DEF ReadDone, WriteDone, Finish, MutexUnlock
  <2>2. \A q \in Proc \ {p} : pc'[q] = pc[q]
    BY <2>1 DEF IInv, TypeOK
  <2>3. \A d \in Dev : lock'[d] # NoProc => lock'[d] = lock[d] /\ d # DevOf(p)
    BY <2>1 DEF IInv, TypeOK
  <2> QED
    BY <1>0, <1>1, <2>2, <2>3 DEF LockInv, IInv, TypeOK
<1> QED
  BY <1>2, <1>3, <1>4, <1>5 DEF SingleRead, SingleWrite

LEMMA LockInvStep ==
  ASSUME IInv, LockInv, SingleNext
  PROVE  LockInv'
<1>0. TypeOK
  BY DEF IInv
<1>1. CASE Insmod
  BY <1>1 DEF Insmod, LockInv
<1>2. CASE Loader /\ ~Insmod
  <2>1. UNCHANGED <<vars, failed>>
    BY <1>2 DEF Loader, Register, InitSucceeds, Undo, InitFails, Rmmod, PcdExit
  <2> QED
    BY <2>1 DEF vars, LockInv, DevOf
<1>3. ASSUME NEW f \in File, Lookup(f) \/ CdevGet(f)
      PROVE  LockInv'
  BY <1>3 DEF Lookup, CdevGet, vars, LockInv, DevOf
<1>4. ASSUME NEW f \in File, SingleRelease(f)
      PROVE  LockInv'
  <2>1. /\ fdev' = [fdev EXCEPT ![f] = NoDev] /\ UNCHANGED <<pc, arg, lock, failed>>
        /\ \A q \in Proc : pc[q] = "copy" => arg[q].file # f
    BY <1>4 DEF SingleRelease, PcdRelease, locals, InCall
  <2>2. \A q \in Proc : pc[q] = "copy" => DevOf(q)' = DevOf(q)
    BY <2>1, <1>0 DEF IInv, CallInv, Arg, InCall, TypeOK, DevOf
  <2> QED
    BY <2>1, <2>2, <1>0, OwnersStay
<1>5. ASSUME NEW f \in File, NEW d \in Dev, NEW mode \in OpenModes, SingleOpen(f, d, mode)
      PROVE  LockInv'
  <2>1. /\ fdev[f] = NoDev /\ fdev' = [fdev EXCEPT ![f] = d]
        /\ UNCHANGED <<pc, arg, lock, failed>>
    BY <1>5 DEF SingleOpen, PcdOpen, locals
  <2>2. \A q \in Proc : pc[q] = "copy" => arg[q].file # f /\ arg[q].file \in File
    BY <2>1 DEF IInv, CallInv, Arg, InCall, DevOf
  <2>3. \A q \in Proc : pc[q] = "copy" => DevOf(q)' = DevOf(q)
    BY <2>1, <2>2, <1>0 DEF TypeOK, DevOf
  <2> QED
    BY <2>1, <2>3, <1>0, OwnersStay
<1>6. ASSUME NEW p \in Proc, NEW op \in Modes, NEW f \in File, NEW n \in 0..MaxCount,
             NEW limit \in 0..n, NEW b \in Payload(op), SingleCall(p, op, f, n, limit, b)
      PROVE  LockInv'
  <2> DEFINE a == [op |-> op, file |-> f, n |-> n, limit |-> limit, byte |-> b]
  <2>1. /\ pc[p] = "idle" /\ pc' = [pc EXCEPT ![p] = "lock"] /\ arg' = [arg EXCEPT ![p] = a]
        /\ UNCHANGED <<fdev, lock, failed>>
    BY <1>6 DEF SingleCall, Call, InCall, extra, files
  <2> HIDE DEF a
  <2>2. \A q \in Proc : pc[q] = "copy" => pc'[q] = "copy" /\ DevOf(q)' = DevOf(q)
    BY <2>1, <1>0 DEF TypeOK, DevOf
  <2> QED
    BY <2>1, <2>2, <1>0, OwnersStay
<1>7. ASSUME NEW p \in Proc, Interrupted(p) \/ SingleReturn(p)
      PROVE  LockInv'
  <2>1. /\ pc[p] \in {"lock", "ret"} /\ UNCHANGED <<fdev, lock, failed>>
        /\ \E x \in {"idle", "ret"} : pc' = [pc EXCEPT ![p] = x]
        /\ UNCHANGED arg \/ arg' = [arg EXCEPT ![p] = NoArg]
    BY <1>7 DEF Interrupted, SingleReturn, Return, extra, files
  <2>2. \A q \in Proc : pc[q] = "copy" => pc'[q] = "copy" /\ DevOf(q)' = DevOf(q)
    BY <2>1, <1>0 DEF TypeOK, DevOf
  <2> QED
    BY <2>1, <2>2, <1>0, OwnersStay
<1>8. ASSUME NEW p \in Proc, SingleRead(p) \/ SingleWrite(p)
      PROVE  LockInv'
  BY <1>8, CopyLockInv
<1>9. ASSUME NEW p \in Proc, Signal(p)
      PROVE  LockInv'
  BY <1>9 DEF Signal, vars, LockInv, DevOf
<1> QED
  BY <1>1, <1>2, <1>3, <1>4, <1>5, <1>6, <1>7, <1>8, <1>9 DEF SingleNext, Handler

-----------------------------------------------------------------------------
(* the theorems *)

LEMMA SInvStep == SInv /\ [SingleNext]_singleVars => SInv'
<1> SUFFICES ASSUME SInv, [SingleNext]_singleVars PROVE SInv'
  OBVIOUS
<1>1. CASE SingleNext
  <2>1. IInv' /\ LoadTypeOK' /\ LoaderInv'
    BY <1>1, SingleIInv, LoadTypeStep, LoaderInvStep DEF SInv
  <2>2. FileInv' /\ LockInv'
    BY <1>1, FileInvStep, LockInvStep DEF SInv
  <2> QED
    BY <2>1, <2>2 DEF SInv
<1>2. CASE UNCHANGED singleVars
  <2>1. UNCHANGED vars /\ UNCHANGED <<mod, ipc, step, registered, fstate, signal, failed>>
    BY <1>2 DEF singleVars, extra, loader
  <2>2. IInv'
    BY <2>1, StepInv DEF SInv
  <2>3. LoadTypeOK' /\ LoaderInv'
    BY <2>1 DEF SInv, LoadTypeOK, LoaderInv
  <2>4. FileInv' /\ LockInv'
    BY <2>1 DEF SInv, FileInv, LockInv, vars, DevOf
  <2> QED
    BY <2>2, <2>3, <2>4 DEF SInv
<1> QED
  BY <1>1, <1>2

\* The inductive invariant of the single-device driver: that of the file
\* operations, where the loader is, who has files and who has the mutex.
THEOREM SingleInvariance == SingleSpec => []SInv
BY SInitInv, SInvStep, PTL DEF SingleSpec

\* Type correctness of the whole driver (pcd.c:146-149, 177-180 clamp the count).
THEOREM SingleTypeCorrect == SingleSpec => []SingleTypeOK
<1>1. SInv => SingleTypeOK
  BY DEF SInv, IInv, SingleTypeOK
<1> QED
  BY <1>1, SingleInvariance, PTL

\* However calls are interrupted, the mutex is only ever kept by a copy or by a
\* call that has failed (pcd.c:139-198).
THEOREM MutexIsAccounted == SingleSpec => []MutexAccounted
<1>1. SInv => MutexAccounted
  BY DEF SInv, IInv, CopyInv, LockInv, MutexAccounted
<1> QED
  BY <1>1, SingleInvariance, PTL

\* No layer is left without those below it by any failure of pcd_init, and no
\* file without the driver (pcd.c:37-100).
THEOREM LayersAreStacked == SingleSpec => []Stacked
<1>1. SInv => Stacked
  <2> SUFFICES ASSUME SInv PROVE Stacked
    OBVIOUS
  <2>1. \/ registered = {} \/ registered = {"region"} \/ registered = {"region", "cdev"}
        \/ registered = {"region", "cdev", "class"}
        \/ registered = {"region", "cdev", "class", "node"}
    <3>1. CASE ipc = "none"
      BY <3>1 DEF SInv, LoaderInv
    <3>2. CASE ipc = "init"
      <4>1. step = 1 \/ step = 2 \/ step = 3 \/ step = 4 \/ step = 5
        BY <3>2 DEF SInv, LoaderInv
      <4> QED
        BY <3>2, <4>1, LayerValues DEF SInv, LoaderInv
    <3>3. CASE ipc = "undo"
      <4>1. step = 0 \/ step = 1 \/ step = 2 \/ step = 3
        BY <3>3 DEF SInv, LoaderInv
      <4> QED
        BY <3>3, <4>1, LayerValues DEF SInv, LoaderInv
    <3>4. CASE ipc = "exit"
      <4>1. step = 1 \/ step = 2 \/ step = 3 \/ step = 4
        BY <3>4 DEF SInv, LoaderInv
      <4> QED
        BY <3>4, <4>1, LayerValues DEF SInv, LoaderInv
    <3> QED
      BY <3>1, <3>2, <3>3, <3>4 DEF SInv, LoadTypeOK
  <2>2. \A k \in 1..3 : Layer[k + 1] \in registered => Layer[k] \in registered
    <3> SUFFICES ASSUME NEW k \in 1..3 PROVE Layer[k + 1] \in registered => Layer[k] \in registered
      OBVIOUS
    <3>1. k = 1 \/ k = 2 \/ k = 3
      OBVIOUS
    <3> QED
      BY <2>1, <3>1, LayerValues
  <2>3. "node" \in registered => "class" \in registered
    BY <2>1
  <2>4. mod = "unloaded" => registered = {}
    BY DEF SInv, LoaderInv, LoadTypeOK
  <2>5. Users # {} => "node" \in registered /\ mod \in {"coming", "live"}
    <3> SUFFICES ASSUME NEW f \in File, fstate[f] \in {"opening", "open"}
                 PROVE  "node" \in registered /\ mod \in {"coming", "live"}
      BY DEF Users
    <3>1. mod \in {"coming", "live"}
      BY DEF SInv, FileInv, LoadTypeOK
    <3>2. mod = "live" => "node" \in registered
      BY DEF SInv, LoaderInv, LoadTypeOK
    <3> QED
      BY <3>1, <3>2 DEF SInv, FileInv
  <2> QED
    BY <2>2, <2>3, <2>4, <2>5 DEF Stacked
<1> QED
  BY <1>1, SingleInvariance, PTL

\* The copies of the single-device driver are isolated and in bounds, also when
\* the module is loaded again after calls that failed (pcd.c:139-198).
THEOREM SingleCopies == SingleSpec => [](CopyIsolated /\ CopyInBounds)
<1>1. SInv => CopyIsolated /\ CopyInBounds
  BY DEF SInv, IInv, OffsetInv, CopyInv, CopyInBounds
<1> QED
  BY <1>1, SingleInvariance, PTL

\* pcd_lseek, if it were called, would be right about SEEK_CUR at the start of
\* the device only: elsewhere an accepted seek ends past its target, and never
\* before where it began (pcd.c:116-122).
THEOREM SeekCurOvershoots ==
  ASSUME NEW size \in Nat, NEW at \in 0..size, NEW offset \in Int, at + offset \in 0..size
  PROVE  LET r == PcdLseek(size, at, offset, "SEEK_CUR")
         IN  r.at >= at /\ (r.at = at + offset <=> at = 0)
BY DEF PcdLseek
=============================================================================
