------------------------------- MODULE PcdOps -------------------------------
(***************************************************************************)
(* The file operations of the four-device pseudo character driver,         *)
(* src/src/ldd-programming/pcd/pcd_n.c: pcd_open, pcd_release, pcd_read    *)
(* and pcd_write, run by processes that share open files and devices.      *)
(*                                                                         *)
(* pcd_read and pcd_write run under the mutex pcdev_lock of their device,  *)
(* and copy_to_user and copy_from_user are byte by byte: another process   *)
(* may run between any two bytes.  The error returns at lines 227, 257 and *)
(* 261 leave the function with the mutex still locked, and so do the       *)
(* actions that model them.                                                *)
(*                                                                         *)
(* The VFS side of a call is external: read(2)/write(2) take a private     *)
(* copy of the offset of the file, hand it to the method as f_pos and      *)
(* store it back when the method did not fail.  A character device file    *)
(* has no lock on its offset, so calls that share a file overlap.          *)
(***************************************************************************)
EXTENDS Integers, Sequences

CONSTANTS
    Proc,       \* the processes (tasks) that call into the driver
    File,       \* the open file descriptions (struct file)
    Dev,        \* the devices: pcdrv_data.pcdevice_data[]
    Size,       \* Size[d]: pcdevice_data[d].size
    Perm,       \* Perm[d]: pcdevice_data[d].perm
    Byte,       \* what one cell of a buffer can hold
    Zero,       \* the content of static storage at start, and of a memset
    MaxCount,   \* bound: the largest count a call passes
    NoProc,     \* the owner of a mutex nobody holds
    NoDev,      \* the device of a file that is not open
    NoArg       \* the argument of a process that is in no call

Modes == {"read", "write"}

\* f_mode of a file opened O_RDONLY, O_WRONLY or O_RDWR.
OpenModes == {{"read"}, {"write"}, {"read", "write"}}

Arg == [op : Modes, file : File, n : 0..MaxCount, limit : 0..MaxCount, byte : Byte]

ASSUME SizeAssumption == Size \in [Dev -> Nat]
ASSUME PermAssumption == Perm \in [Dev -> {"RDONLY", "WRONLY", "RDWR"}]
ASSUME ByteAssumption == Zero \in Byte
ASSUME CountAssumption == MaxCount \in Nat
ASSUME NoneAssumption == NoProc \notin Proc /\ NoDev \notin Dev /\ NoArg \notin Arg

EPERM == -1
ENOMEM == -12
EFAULT == -14

VARIABLES
    mem,        \* mem[d]: the buffer of device d
    lock,       \* lock[d]: the owner of pcdev_lock of device d, or NoProc
    fdev,       \* fdev[f]: the device in private_data of file f, or NoDev
    fmode,      \* fmode[f]: f_mode of f
    fpos,       \* fpos[f]: f_pos of f
    pc,         \* pc[p]: "idle", waiting at mutex_lock, copying, or returning
    arg,        \* arg[p]: the arguments of the call of p
    pos,        \* pos[p]: *f_pos of the call
    count,      \* count[p]: the local count once it is clamped
    done,       \* done[p]: how many bytes the copy has transferred
    got,        \* got[p]: the bytes copied to the user's buffer
    ret         \* ret[p]: the return value

vars == <<mem, lock, fdev, fmode, fpos, pc, arg, pos, count, done, got, ret>>
files == <<fdev, fmode, fpos>>
locals == <<pc, arg, pos, count, done, got, ret>>

Init ==
    /\ mem = [d \in Dev |-> [k \in 0..Size[d] - 1 |-> Zero]]
    /\ lock = [d \in Dev |-> NoProc]
    /\ fdev = [f \in File |-> NoDev]
    /\ fmode = [f \in File |-> {}]
    /\ fpos = [f \in File |-> 0]
    /\ pc = [p \in Proc |-> "idle"]
    /\ arg = [p \in Proc |-> NoArg]
    /\ pos = [p \in Proc |-> 0]
    /\ count = [p \in Proc |-> 0]
    /\ done = [p \in Proc |-> 0]
    /\ got = [p \in Proc |-> <<>>]
    /\ ret = [p \in Proc |-> 0]

InCall(p) == pc[p] # "idle"

\* The device the call of p works on: filp->private_data.
DevOf(p) == fdev[arg[p].file]

-----------------------------------------------------------------------------
(* open and release *)

\* Mutant: the read-only test forgets !(access_mode & FMODE_WRITE).
CheckPermissionReadOnly(perm, mode) ==
    IF \/ perm = "RDWR"
       \/ perm = "RDONLY" /\ "read" \in mode
       \/ perm = "WRONLY" /\ mode = {"write"}
    THEN 0 ELSE EPERM

CheckPermission(perm, mode) ==
    IF \/ perm = "RDWR"
       \/ perm = "RDONLY" /\ mode = {"read"}
       \/ perm = "WRONLY" /\ mode = {"write"}
    THEN 0 ELSE EPERM

\* An open that check_permission refuses leaves no file behind.
PcdOpen(f, d, mode) ==
    /\ fdev[f] = NoDev
    /\ CheckPermission(Perm[d], mode) = 0
    /\ fdev' = [fdev EXCEPT ![f] = d]
    /\ fmode' = [fmode EXCEPT ![f] = mode]
    /\ fpos' = [fpos EXCEPT ![f] = 0]
    /\ UNCHANGED <<mem, lock, locals>>

\* release runs with the last reference, and a call in flight holds one.
PcdRelease(f) ==
    /\ fdev[f] # NoDev
    /\ \A p \in Proc : InCall(p) => arg[p].file # f
    /\ fdev' = [fdev EXCEPT ![f] = NoDev]
    /\ fmode' = [fmode EXCEPT ![f] = {}]
    /\ fpos' = [fpos EXCEPT ![f] = 0]
    /\ UNCHANGED <<mem, lock, locals>>

-----------------------------------------------------------------------------
(* read and write *)

\* read(2) or write(2) enters the method.  The first limit bytes of the user's
\* buffer are mapped; a copy that runs past them faults.
Call(p, op, f, n, limit, b) ==
    /\ ~InCall(p)
    /\ fdev[f] # NoDev
    /\ op \in fmode[f]
    /\ pc' = [pc EXCEPT ![p] = "lock"]
    /\ arg' = [arg EXCEPT ![p] =
                 [op |-> op, file |-> f, n |-> n, limit |-> limit, byte |-> b]]
    /\ pos' = [pos EXCEPT ![p] = fpos[f]]
    /\ UNCHANGED <<mem, lock, files, count, done, got, ret>>

\* Mutant: the lock is taken without waiting for its owner.
MutexLockUnguarded(p) == lock' = [lock EXCEPT ![DevOf(p)] = p]

MutexLock(p) ==
    /\ lock[DevOf(p)] = NoProc
    /\ lock' = [lock EXCEPT ![DevOf(p)] = p]

MutexUnlock(p) == lock' = [lock EXCEPT ![DevOf(p)] = NoProc]

\* Mutant: the count is clamped to the size, not to what is left of it.
ClampToSize(offset, n, max) == IF n > max THEN max ELSE n

\* Mutant: the operands of the subtraction are swapped.
ClampSwapped(offset, n, max) == IF offset + n > max THEN offset - max ELSE n

Clamp(offset, n, max) == IF offset + n > max THEN max - offset ELSE n

\* The count p will transfer, once it holds the mutex.
Clamped(p) == Clamp(pos[p], arg[p].n, Size[DevOf(p)])

ReadEnter(p) ==
    /\ pc[p] = "lock"
    /\ arg[p].op = "read"
    /\ MutexLock(p)
    /\ count' = [count EXCEPT ![p] = Clamped(p)]
    /\ pc' = [pc EXCEPT ![p] = "copy"]
    /\ UNCHANGED <<mem, files, arg, pos, done, got, ret>>

WriteEnter(p) ==
    /\ pc[p] = "lock"
    /\ arg[p].op = "write"
    /\ Clamped(p) # 0
    /\ MutexLock(p)
    /\ count' = [count EXCEPT ![p] = Clamped(p)]
    /\ pc' = [pc EXCEPT ![p] = "copy"]
    /\ UNCHANGED <<mem, files, arg, pos, done, got, ret>>

\* if (!count) return -ENOMEM, with the mutex still held.
WriteNoSpace(p) ==
    /\ pc[p] = "lock"
    /\ arg[p].op = "write"
    /\ Clamped(p) = 0
    /\ MutexLock(p)
    /\ ret' = [ret EXCEPT ![p] = ENOMEM]
    /\ pc' = [pc EXCEPT ![p] = "ret"]
    /\ UNCHANGED <<mem, files, arg, pos, count, done, got>>

\* p is in the copy of op and its next byte is mapped.
Copying(p, op) ==
    /\ pc[p] = "copy"
    /\ arg[p].op = op
    /\ done[p] < count[p]
    /\ done[p] < arg[p].limit

ReadByte(p) ==
    /\ Copying(p, "read")
    /\ got' = [got EXCEPT ![p] = Append(@, mem[DevOf(p)][pos[p] + done[p]])]
    /\ done' = [done EXCEPT ![p] = @ + 1]
    /\ UNCHANGED <<mem, lock, files, pc, arg, pos, count, ret>>

WriteByte(p) ==
    /\ Copying(p, "write")
    /\ mem' = [mem EXCEPT ![DevOf(p)][pos[p] + done[p]] = arg[p].byte]
    /\ done' = [done EXCEPT ![p] = @ + 1]
    /\ UNCHANGED <<lock, files, pc, arg, pos, count, got, ret>>

\* return -EFAULT, with the mutex still held.
Fault(p, op) ==
    /\ pc[p] = "copy"
    /\ arg[p].op = op
    /\ done[p] < count[p]
    /\ done[p] = arg[p].limit
    /\ ret' = [ret EXCEPT ![p] = EFAULT]
    /\ pc' = [pc EXCEPT ![p] = "ret"]
    /\ UNCHANGED <<lock, files, arg, pos, count, done, got>>

ReadFault(p) == Fault(p, "read") /\ UNCHANGED mem

\* copy_from_user clears what it could not copy.
WriteFault(p) ==
    /\ Fault(p, "write")
    /\ mem' = [mem EXCEPT ![DevOf(p)] = [k \in DOMAIN @ |->
                 IF k \in (pos[p] + done[p])..(pos[p] + count[p] - 1)
                 THEN Zero ELSE @[k]]]

\* Mutant: the success path returns without mutex_unlock.
FinishLocked(p, op) ==
    /\ pc[p] = "copy"
    /\ arg[p].op = op
    /\ done[p] = count[p]
    /\ pos' = [pos EXCEPT ![p] = @ + count[p]]
    /\ ret' = [ret EXCEPT ![p] = count[p]]
    /\ pc' = [pc EXCEPT ![p] = "ret"]
    /\ UNCHANGED <<mem, lock, files, arg, count, done, got>>

\* Mutant: the success path forgets *f_pos += count.
FinishInPlace(p, op) ==
    /\ pc[p] = "copy"
    /\ arg[p].op = op
    /\ done[p] = count[p]
    /\ ret' = [ret EXCEPT ![p] = count[p]]
    /\ pc' = [pc EXCEPT ![p] = "ret"]
    /\ MutexUnlock(p)
    /\ UNCHANGED <<mem, files, arg, pos, count, done, got>>

\* *f_pos += count; mutex_unlock; return count.
Finish(p, op) ==
    /\ pc[p] = "copy"
    /\ arg[p].op = op
    /\ done[p] = count[p]
    /\ pos' = [pos EXCEPT ![p] = @ + count[p]]
    /\ ret' = [ret EXCEPT ![p] = count[p]]
    /\ pc' = [pc EXCEPT ![p] = "ret"]
    /\ MutexUnlock(p)
    /\ UNCHANGED <<mem, files, arg, count, done, got>>

ReadDone(p) == Finish(p, "read")
WriteDone(p) == Finish(p, "write")

\* Back in the VFS: a call that did not fail stores its offset in the file.
Return(p) ==
    /\ pc[p] = "ret"
    /\ fpos' = IF ret[p] < 0 THEN fpos ELSE [fpos EXCEPT ![arg[p].file] = pos[p]]
    /\ pc' = [pc EXCEPT ![p] = "idle"]
    /\ arg' = [arg EXCEPT ![p] = NoArg]
    /\ pos' = [pos EXCEPT ![p] = 0]
    /\ count' = [count EXCEPT ![p] = 0]
    /\ done' = [done EXCEPT ![p] = 0]
    /\ got' = [got EXCEPT ![p] = <<>>]
    /\ ret' = [ret EXCEPT ![p] = 0]
    /\ UNCHANGED <<mem, lock, fdev, fmode>>

-----------------------------------------------------------------------------
(* the specification *)

Enter(p) == ReadEnter(p) \/ WriteEnter(p) \/ WriteNoSpace(p)

Step(p) ==
    \/ ReadByte(p) \/ ReadFault(p) \/ ReadDone(p)
    \/ WriteByte(p) \/ WriteFault(p) \/ WriteDone(p)
    \/ Return(p)

\* What a write passes; the bytes of a read are the device's.
Payload(op) == IF op = "write" THEN Byte ELSE {Zero}

Next ==
    \/ \E f \in File, d \in Dev, mode \in OpenModes : PcdOpen(f, d, mode)
    \/ \E f \in File : PcdRelease(f)
    \/ \E p \in Proc, op \in Modes, f \in File, n \in 0..MaxCount :
         \E limit \in 0..n, b \in Payload(op) : Call(p, op, f, n, limit, b)
    \/ \E p \in Proc : Enter(p) \/ Step(p)

Spec == Init /\ [][Next]_vars

\* A task inside the kernel keeps running, and mutex_lock hands the mutex over
\* to a waiter that has been passed over: the entry is strongly fair.
Fairness == \A p \in Proc : WF_vars(Step(p)) /\ SF_vars(Enter(p))

FairSpec == Spec /\ Fairness
-----------------------------------------------------------------------------
(* properties *)

\* Every variable has its type; buffers keep the length of their device.
TypeOK ==
    /\ DOMAIN mem = Dev
    /\ \A d \in Dev : mem[d] \in [0..Size[d] - 1 -> Byte]
    /\ lock \in [Dev -> Proc \cup {NoProc}]
    /\ fdev \in [File -> Dev \cup {NoDev}]
    /\ fmode \in [File -> SUBSET Modes]
    /\ fpos \in [File -> Nat]
    /\ pc \in [Proc -> {"idle", "lock", "copy", "ret"}]
    /\ arg \in [Proc -> Arg \cup {NoArg}]
    /\ pos \in [Proc -> Nat]
    /\ count \in [Proc -> 0..MaxCount]
    /\ done \in [Proc -> Nat]
    /\ got \in [Proc -> Seq(Byte)]
    /\ ret \in [Proc -> Int]

\* What a read has copied so far is still what the device holds, and what a
\* write has stored so far is still there: no other call of any process gets
\* between the bytes of a copy (pcd_n.c:214-235 and 249-269 under pcdev_lock).
CopyIsolated ==
    \A p \in Proc : pc[p] = "copy" =>
        \A i \in 0..done[p] - 1 :
            mem[DevOf(p)][pos[p] + i] =
                IF arg[p].op = "read" THEN got[p][i + 1] ELSE arg[p].byte

\* No copy runs past the end of its device, although calls that share a file
\* store offsets they computed from a stale one (pcd_n.c:222-226, 251-260).
CopyInBounds ==
    /\ \A p \in Proc : pc[p] = "copy" =>
           done[p] <= count[p] /\ pos[p] + count[p] <= Size[DevOf(p)]
    /\ \A f \in File : fdev[f] # NoDev => fpos[f] <= Size[fdev[f]]

\* A read-only device never changes and nothing is ever delivered from a
\* write-only one, through every mode a file can be opened with (the perm of
\* pcdrv_data, lines 54-71, as check_permission enforces it).
PermissionRespected ==
    \A d \in Dev :
        /\ Perm[d] = "RDONLY" => \A k \in 0..Size[d] - 1 : mem[d][k] = Zero
        /\ Perm[d] = "WRONLY" =>
              \A p \in Proc : InCall(p) /\ DevOf(p) = d => got[p] = <<>>

\* While no call on a device fails, every call on it comes back, whatever the
\* other processes keep calling (the lock/unlock pairs of pcd_n.c:214-235 and
\* 249-269; the error returns 227, 257 and 261 are what the premise excludes).
CallsComplete ==
    \A d \in Dev :
        [](\A p \in Proc : InCall(p) /\ DevOf(p) = d => ret[p] >= 0)
            => \A p \in Proc : pc[p] = "lock" /\ DevOf(p) = d ~> ~InCall(p)

\* "No space left on the device" (pcd_n.c:256): a write that asks for space at
\* the end of the device is told so, every time it is tried.
FullDeviceWriteFails ==
    \A p \in Proc :
        pc[p] = "lock" /\ arg[p].op = "write" /\ arg[p].n > 0
                /\ pos[p] = Size[DevOf(p)]
            ~> pc[p] = "ret" /\ ret[p] = ENOMEM
=============================================================================
