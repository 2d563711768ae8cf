# Verification of lkmpg-playground

Models, model-checking runs and proofs for the Linux kernel modules of this
repository: the exercises of *The Linux Kernel Module Programming Guide*
(`src/src/lkmpg`) and of the *Linux Device Driver Programming* course
(`src/src/ldd-programming`). Source lines below are those of the repository.

What matters in such code is what its tests would hardly reach: handlers that
run at the same time in several processes, loading and unloading under them,
and error returns in the middle of a sequence. The models therefore keep every
state change, guard and error return, and reduce the data to small sets.

## The system

| Component | State it keeps | Operations | Hard behaviour | What makes it correct |
|---|---|---|---|---|
| `pcd/pcd_n.c`, file operations | per device: buffer, size, permission, mutex; per file: device, mode, offset | `pcd_open`, `pcd_release`, `pcd_read`, `pcd_write`, `check_permission` (`pcd_lseek` is not registered) | calls of several processes on one device or one file; stale offsets; faults; error returns with the mutex held | copies are isolated, stay in bounds and respect permissions; every call takes effect at once; calls come back |
| `pcd/pcd_n.c`, init and exit | region, class, cdevs, nodes | `pcd_init`, `pcd_exit` | each registration can fail; devices can be opened before init has ended | all or nothing; registrations nest; unload waits for files |
| `pcd/pcd.c` | one buffer, one global mutex; region, cdev, class, node | the same calls (every open is granted), `pcd_init`, `pcd_exit` | the same error returns; waits that signals end; another registration order | an ended wait leaves the mutex as it is; layers nest; a signal gets every call back |
| `lkmpg/chardev.c` | `already_open`, `counter`, `msg`, usage count | `device_open`, `device_read`, `device_release`, init, exit | exclusive open; open racing rmmod; ignored results | one owner, who reads its own message; a counted open keeps the module |
| `lkmpg/procfs1..3.c` | a shared buffer and its size (3: usage count) | read, write, open, close, init, exit | no lock at all; reads that change the shared size; rmmod under calls | a copy passes the buffer only in procfs2 while another call writes; calls that nothing overlaps see a file; no handler outlives the module |
| `pcd_platform_drv` | region, class, devices found by platform id | init, exit, probe, remove, setup | early returns that leave things registered | each bound device has its own number; unbinding leaves nothing |
| `pcd_platform_drv_dt`, `_dt_sysfs` | the same, numbered by count; attribute `max_size` | probe, remove, show, store | removal in any order; partial failure; store without a lock | numbers stay distinct |
| `gpio_sysfs/gpio_sysfs.c` | per gpio: label, descriptor, mutex | attribute handlers, probe, remove | error return with the mutex held; unavailable children | every handler releases its mutex |
| `gpio_sysfs/gpio.c`, `lcd.c`, `lcd_app.c` | pins, display mode, half a byte | `lcd_init`, commands, characters | latch protocol; restart in the middle of a byte | after `lcd_init` the display is in step, whatever came before |
| `hello-1..5.c`, Makefiles, device tree includes | none | | | |

How they interact: the file operations run on devices that init has registered;
the VFS holds a reference on the owner of `pcd_fops` for each open file, so
that `pcd_exit` runs only when none is open, while chardev and procfs3 count
for themselves. The LCD application drives the pins through the files of the
gpio driver. Platform device setup and device tree overlays drive probe and
remove.

### Reading of sources that do not compile as committed

Several files have slips that no compiler accepts. They are read as plainly
meant, and nothing is concluded from them: in `pcd_n.c` the mutex call at line
214 stands before the declaration of `pcdev_data` at 219 (read: the mutex of
the file's device), `.cdev` is written for `.pcd_cdev` (121-126, 148, 165), the
number is passed by value at 97, and the structure types are declared
`static const` (29, 39); in `pcd.c` `device_number` is written for `device_num`
at 97; in the platform drivers `pcd_device` is assigned and
`pcd_dev` is declared and tested (read: one field), and `.cdev` is deleted for
`.chdev`; in `gpio_sysfs.c` `of_device_unregister` is called for the devices that
`device_create_with_groups` returned (read: `device_unregister`); in `lcd.c` the
level names lack their prefix; in `procfs2.c` `procfs_buffer_size` and `len`
stand for `procfs_buf_size` and `buffer_len`; in `procfs1.c` a member `read` of
`proc_ops` is initialised (read: `proc_read`).

## The modules

| Module | Models | Composes |
|---|---|---|
| `PcdOps` | `pcd_n.c:23-89, 212-319`: the file operations | |
| `PcdAtomic` | the promise of the same operations: each call in one step | |
| `PcdRefinement` | the mapping from `PcdOps` to `PcdAtomic` | `PcdOps`, `PcdAtomic` |
| `PcdOpsProofs` | theorems about `PcdOps`, and that it implements `PcdAtomic` | `PcdRefinement` |
| `MCPcdOps` | instances for TLC | `PcdRefinement` |
| `PcdSingle` | `pcd.c`: its file operations between loading and unloading | `PcdOps` |
| `PcdSingleProofs` | theorems about `PcdSingle` | `PcdSingle`, `PcdOpsProofs` |
| `MCPcdSingle` | an instance for TLC | `PcdSingle` |
| `PcdLifecycle` | `pcd_n.c:91-171`: init and exit against opens and closes | |
| `PcdLifecycleProofs` | theorems about `PcdLifecycle` | `PcdLifecycle` |
| `Chardev` | `chardev.c` | |
| `ChardevProofs` | theorems about `Chardev` | `Chardev` |
| `Procfs` | `procfs1.c`, `procfs2.c`, `procfs3.c` | |
| `ProcfsProofs` | theorems about `Procfs` | `Procfs` |
| `MCProcfs` | an instance for TLC | `Procfs` |
| `PcdPlatform` | the three platform drivers and `pcd_device_setup.c` | |
| `PcdPlatformProofs` | theorems about `PcdPlatform` | `PcdPlatform` |
| `GpioSysfs` | `gpio_sysfs.c` | |
| `GpioSysfsProofs` | theorems about `GpioSysfs` | `GpioSysfs` |
| `Lcd` | `lcd.c`, `gpio.c`, `lcd_app.c` over the pins of the display | `LcdDisplay` |
| `LcdDisplay` | the promise of the LCD library: each call acts as a whole | |
| `LcdProofs` | theorems about `Lcd`, and that it implements `LcdDisplay` | `Lcd` |

### PcdOps

`mem`, `lock`, `fdev`, `fmode`, `fpos` are the device buffers, the owners of
`pcdev_lock` and, of each open file, `private_data`, `f_mode` and `f_pos`. A
process in a call has its arguments in `arg`, and the locals `pos`, `count`,
`done` (progress of the copy), `got` (bytes in the user's buffer) and `ret`.

* `Call` and `Return` are the VFS: `read(2)` and `write(2)` copy the offset of
  the file, and store it back when the method returned zero or more. Nothing
  serialises calls on one character device file, so offsets get stale. The
  arguments are any count up to `MaxCount` and any number `limit` of accessible
  bytes: the copy faults when it comes to the first inaccessible one.
* `ReadEnter`, `WriteEnter`, `WriteNoSpace`: `mutex_lock`, the clamp, the
  branch `!count`. They are disabled while the mutex has an owner.
* `ReadByte`, `WriteByte`: one byte of `copy_to_user`, `copy_from_user`.
* `ReadFault`, `WriteFault`: a fault. `copy_from_user` clears what it could not
  copy. Both, like `WriteNoSpace`, return with the mutex still locked, as
  lines 227, 257 and 261 do.
* `ReadDone`, `WriteDone`: the success path with `mutex_unlock`.
* `PcdOpen`: only if `check_permission` returns 0; `PcdRelease` when no call
  holds the file.

A written payload is one byte repeated: two writes are told apart by it, which
is all that isolation needs. Not modelled: `pread`/`pwrite`, and `pcd_lseek`,
which nothing can call because `pcd_fops` does not name it (83-89).

### PcdAtomic and PcdRefinement

`PcdAtomic` has no mutex and no loop: a call is made, takes effect in one step,
and returns. It does say that a failed call wedges its device. The mapping puts
the effect at the moment the mutex is acquired: the abstract buffer is the
concrete one overlaid with the bytes the current writer has still to store, the
abstract `got` of a reader is the span it is copying, and a device is wedged
when its mutex is held by a process that will not release it.

### PcdSingle

The file operations of `pcd.c` are those of `PcdOps` on one read-write device,
line for line, except that they wait with `mutex_lock_interruptible`. The module
therefore EXTENDS `PcdOps` and takes its steps: `SingleRead` and `SingleWrite`
are its disjuncts, `Interrupted` the return with `-EINTR` (141-143, 170-172), possible
for a waiter with a signal whether or not the mutex has become free. `Signal`
may reach any process in a call; it is taken on the way back to user mode.

Around them is the life of the module. `Register` is the next of region, cdev,
class and node, or its failure, which goes to the label that `Label` names; `Undo`
falls through the labels (81-86), `PcdExit` is one call of `pcd_exit`. An open is a
path lookup, `cdev_get` with its module reference and `pcd_open`, as in
`PcdLifecycle`. Here the node is the last thing to appear and nothing fails after
it, so no file can be open when a load fails. The bound in `Insmod` excludes an open that
found the node of an earlier load and meets the cdev of the next. `failed` is a
history variable. `PcdLseek` is what `pcd_lseek` would do; it is no action, since
`pcd_fops` does not name it, and one theorem says where it goes wrong.

### PcdLifecycle

`mod`, `ipc` and `i` are the module's state, the next call of `pcd_init` or
`pcd_exit` and their loop variable; `region`, `class`, `cdev`, `node` what is
registered; `fstate`, `fdev` and `refcnt` the files on their way and the usage
count. Every registration has a failing branch that goes where the `goto` goes.
The open is in three steps (path lookup, `cdev_get` with its module reference,
`pcd_open`), because rmmod and the unwinding may come between them. A module
can be opened while its init runs. If that init then fails, the loader frees
the module under the open file: such files become `stranded` and are left out of
the properties; registering the nodes last is the only remedy in the code.

### Chardev

`already_open`, `counter`, `msg` are the statics, `refcnt` the usage count. An
open passes through `lookup`, `cmpxchg`, `sprintf` (one piece of the message at
a time) and `try_module_get`; a read delivers a piece at a time; a release is
`atomic_set`, `module_put` and the return, with rmmod possible in between. Since
`chardev_fops` has no owner, only `try_module_get` counts the file, and it fails
once the module is going. A task in the module's code, or with its file open,
when the module is freed is `stranded` and does nothing more: whatever it would
do is undefined. `counted` is a history variable.

### Procfs

One module for three drivers; `version` is chosen in `Init`. `buffer` and `size`
are the statics that all files share; `call[p]` has the arguments and locals of a
call. Nothing is locked, so each load and store of the size is a step:
`ReadTest`, `ReadLoad`, `ReadStore` and `ReadCopy` are `procfs3.c:27-36`;
`WriteSize` and `WriteCopy` are 47-50 (in `procfs2.c` `WriteSize` is line 49,
`WriteTest` the test of 51, `WriteClamp` the second store, `PutZero` line 59);
`AddOffset` and `Result` use the size once more for the offset and the result.
The code names the static `procfs_buffer_size` every time, without a lock or
`READ_ONCE`, so the compiler may use the value it has just stored or loaded or
load the static again, by when another call may have changed it. `SizeNow` is
this choice, in the length of a copy, the test of procfs2, its offset and the result.
Only after a copy has the size to be loaded for certain. An overlapped
call may therefore copy with the length of another, more than was asked for, and in procfs2
beyond the buffer; `CopyInBounds` says when. A copy is one step, because
nothing is claimed of the bytes that overlapping copies leave, and the memory
behind the buffer is not modelled. `HelloRead` is the
read of procfs1 and procfs2. Two calls on one file wait for each other in the VFS,
so each process has a file of its own.

`/proc` is external: after `RemoveEntry` no call starts, and `Rundown` waits for
those that run and closes the open files before the module is freed. `alone`,
`where` and `file` are history variables: which calls have had the module to
themselves, and what such calls would expect of a file. An overlap or a failed
write makes that `Unknown` until the next undisturbed write; a read cuts it to what it
delivered, as `procfs3.c:33` cuts the size.

### PcdPlatform

One module for three drivers that differ in two places: `driver` is chosen in
`Init` and never changes; `NumberOf` gives the id (`platform`) or the count
(`dt`, `sysfs`), and `CreateGroup` is for `sysfs` alone. Two tasks, `drv` (load
and unload) and `bus` (hot-plug), call probe and remove; `tpc` and `tdev` say
where each is, and the driver core's lock keeps them off one device. The map of
char devices is the kernel's: `cdev_add` puts an entry in front of others with
its number and `cdev_del` takes the first, which is how a probe with a number in
use and its undoing leave the older device alone. `device_create` fails for a
name or number in use. `buf[d]` is nonzero while the private data exists, so a
cdev with `buf = 0` is a dangling one. `pcdDev` is the driver-wide field in which
concurrent probes overwrite each other's result; `failed` is a history variable.
`total_devices++` and `--` are a load (`LoadTotal`, into `seen[t]`) and a store
(`CountDevice`, `Uncount`), with the other task in between where the two overlap. They
do for the platform driver, which therefore loses updates: its count may stay wrong, and
negative, until the next load. Nothing reads it there, numbers and names being by id. The
properties of the count are about the other two, which run without overlap.

### GpioSysfs

`lpc`, `child`, `i` are the loader's place, the cursor of
`for_each_available_child_of_node` and the index; `dev` the array of devices;
`files` what sysfs shows, `data` what `devm` holds. A handler is `Enter`,
`MutexLock`, `Access`, `MutexUnlock`, or `ValueStoreFails`, which leaves the mutex
locked. Unregistering a device hides its files (`RemoveHide`) and then waits for
its handlers (`RemoveDrain`). `oops` is a task that followed a NULL pointer.
`partial` and `leaked` are history variables that record the two defects of the
code (lines 193-207 and 110) on which the properties are conditional.

### Lcd and LcdDisplay

A library call is the list of its writes to pins, `todo`; `GpioWriteValue` does
the first, and when EN falls the display latches. The display is the HD44780 as
its data sheet, which `lcd.c:19-24` cites, describes it: eight- or four-bit mode, half an instruction, memory,
address counter and direction. `Kill` may come between any two writes, `Start`
runs `init_gpios` and `lcd_init` on whatever the display and the pins have come to,
and `GpioWriteFails` loses a write. `LcdDisplay` has no pins, modes or nibbles: a
request is made and takes effect. The mapping shows the display's memory while
the application is running and has lost nothing, `Unknown` otherwise.

## The runs

| Run | What it asks | Bounds | Result |
|---|---|---|---|
| `pcd_ops` | `TypeOK`, `CopyIsolated`, `CopyInBounds`, `ImplementsAtomic` | 2 processes, 2 files, a read-write device of 2 cells, counts to 2, 2 byte values, symmetric | holds, 2.3 million states |
| `pcd_calls` | `PermissionRespected`, `CallsComplete` | 2 processes, one file, a read-only and a write-only device | holds, 41 thousand states |
| `pcd_no_space` | `FullDeviceWriteFails` | one device, counts to 1 | violated: finding 1 |
| `pcd_single` | `MutexAccounted`, `Stacked`, `SignalledCallsReturn` | 2 processes sharing one file, a device of 1 cell, counts to 2, 2 byte values | holds, 620 thousand states |
| `pcd_lifecycle` | `LayersOrdered`, `AllOrNothing`, `UnloadWaitsForFiles`, `LoaderTerminates` | 4 devices as in the code, 3 files | holds, 210 thousand states |
| `chardev` | `ExclusiveOpen`, `MessageIsOwn`, `UsageCountAccurate`, `CountedIsNotStranded` | 3 processes, a message of 2 pieces, 3 opens per load | holds, 1.1 million states |
| `chardev_unload` | `OpenKeepsModule` | 2 processes | violated: finding 2 |
| `procfs` | `CopyInBounds`, `UndisturbedCalls`, `HandlersInModule` | each of the 3 drivers, 2 processes, a buffer of 2 bytes, lengths to 3, 2 byte values, symmetric | holds, 5.3 million states |
| `pcd_platform` | `BoundIsReachable`, `CdevsAreAlive`, `EveryDeviceServed`, `NodesMatchDevices`, `CountAccurate`, `UnloadLeavesNothing` | 3 devices, 2 regions, a count to 3 for failing groups; the tasks overlap for `platform` | holds, 690 thousand states |
| `pcd_platform_buffer` | `BufferHoldsDevice` | 2 devices | violated: finding 3 |
| `gpio_sysfs` | `Serialised`, `FilesHaveData`, `RemoveFindsDevices`, `HandlersReturn`, `LoaderTerminates` | 3 children, any of them unavailable, 2 processes | holds, 25 thousand states |
| `lcd` | `InStep`, `ImplementsDisplay` | 2 lines of 2 columns, one character, one lost write per start | holds, 1.3 million states |

Why the bounds are enough: two cells and counts up to two are the least with
which a copy can be torn, clamped to a positive rest, clamped to nothing, and
faulted before, inside and after; a third process behaves like the second
towards the holder of a mutex, and the safety properties are proved for any
number. `pcd_single` needs less, since the copies are those of `pcd_ops`: one cell
and counts to two have a clamp, a full device and a fault, and the second process
waits while the first copies or has failed. In `procfs` lengths to three
pass the buffer of two by one, and two processes are the least that overlap; the
message of procfs1 and procfs2 has length one (`HelloLen`), and offsets are
counted no further, because the code asks only whether they are zero, or have
reached that length. `MaxCount`, `MaxLen`, `MaxOpens` and
`MsgLen` bound what callers do, and `Insmod` of `PcdSingle` waits for stale opens. In
`PcdPlatform` the bounds are `MaxRegions` (two, so that one can leak and another
load succeed) and `MaxTotal`, up to which groups may fail; without it the count
of the `sysfs` driver would grow for ever; three devices, of the four in the code, are the
least with one in the middle to leave while two others are probed or removed, and the proofs
are for one to four. Three children let a gpio in the middle
be unavailable or fail. Two columns are the least on which the cursor moves within
a line and wraps; longer lines only repeat the first case, and the initial states
have the display in every mode with every half instruction. More than one lost
write per start adds only states of which nothing is promised.
The exclusive device uses three processes so that one can own it, one be
refused and one be between the VFS and the flag. Symmetry is used only in runs
without liveness properties. Deadlock checking is off in the runs of `PcdOps`
(`pcd_ops`, `pcd_calls`, `pcd_no_space`): once
calls have failed on the devices every process may wait for a mutex that nobody
will release, which is what the code does.

Fairness: in `PcdOps` a process inside the kernel keeps running (weak fairness
of its steps), and the kernel's mutex hands itself over to a waiter it has
passed over (strong fairness of acquiring it); nobody is obliged to open, call
or close. `CallsComplete` is conditional on no call failing on the device, since
a failed one keeps the mutex. In `PcdLifecycle` the task that runs init or exit
keeps running. In `PcdSingle` a process in the driver keeps running while it has
something to do, which a waiter has when the mutex is free or a signal is
pending; nothing is assumed of who gets the mutex, and nobody is
obliged to send a signal. In `GpioSysfs` the loader and a handler that has the mutex keep
running, and the mutex is handed over as above; nobody is obliged to open a file,
bind or unbind. Deadlock checking is off there, since a mutex left locked may in
the end hold up every task. `Chardev`, `Procfs`, `PcdPlatform` and `Lcd` have no
liveness property.

### Findings

1. `pcd_n.c:257`: the first write without space returns `-ENOMEM` with the
   mutex locked; the second is never answered. Lines 227 and 261 have the same
   defect, and so has `pcd.c` at 154, 183 and 187.
2. `chardev.c:93`: an open that rmmod overtakes before `try_module_get`
   succeeds uncounted, against the comment at 104-105.
3. `pcd_platform_driver.c:188`: the buffer of a device has the size of an `int`,
   not the size in the platform data that the comment at 186-187 announces; the
   same at `pcd_platform_driver_dt.c:247` and `pcd_platform_driver_dt_sysfs.c:228`.

Other defects are modelled and excepted by the properties they would break, each
in its comment, because no document of the repository claims the contrary: the
region left by a failed `class_create`, the cdev and the count left by a failed
sysfs group, numbers that collide when two device tree probes overlap,
`pcd_dev` shared by concurrent probes, updates of the platform driver's count that
overlapping tasks lose, `value_store` returning with its mutex, a
probe of the gpio driver failing halfway, and its remove when a child is
unavailable; in `pcd.c` the error returns that keep the mutex
(`MutexAccounted` is conditional on no failure, `SignalledCallsReturn` holds in
spite of it); in the procfs drivers a copy with the length that an overlapping call has stored, a result
that differs from what was copied, the read that cuts the file for all others, the
`module_put` of an open that was never counted, and the message that procfs1 and
procfs2 copy without looking at the length of the caller's buffer.

## The proofs

Every safety property that a passing run checks, the two refinements included, is
also proved by TLAPS, for all values of the constants that satisfy the assumptions
of its module: any processes, files, devices, sizes, columns and bounds. The assumptions are those of the
source: a device has a nonnegative size, a permission is one of three, there are one
to four devices in platform data, a line has at most the 40
columns of the display's memory. `PcdPlatformProofs` has one hypothesis more, `SerialOverlays` (below).

Hardly any of the properties is inductive. Each module defines the strengthening
`IInv` as a conjunction of named parts, proves `InitInv` (`InitHolds` in `LcdProofs`)
and `StepInv` from one lemma per action, and draws the theorems from `Invariance`. TLC has checked every `IInv`
on the instance of the module's run.

**`PcdOpsProofs`.** `CopyIsolated` needs that a copying process owns the
mutex of its device (`CopyInv`), that the file under a call stays open
(`CallInv`) and that `got` has exactly `done` bytes (`GotInv`); bounds need that
offsets in files and in calls never pass the end (`OffsetInv`), although they are
stored back stale; permissions need that only admitted modes are open
(`PermInv`). `EnterInv` covers both ways of acquiring the mutex, `LeaveInv` the
common part of all ways to leave the copy, `Exclusion` says that no other process is
copying on a device whose mutex is free or one's own, and `ClampBounds` that the
clamped count stays between zero, the request and the rest of the device.

Its second part proves `DriverIsAtomic`, the refinement of `PcdAtomic`, step by
step, under the same invariant and `LimitInv` (a copy stops where it faults).
`ReadEnterMap` and `WriteEnterMap` map the acquisition of the mutex to the one
abstract step of the call, in which its whole effect is foreseen: how many bytes
it will move before the end or the fault. A step of the copy then maps to no step
(`ReadByteMap`, `WriteByteMap`, `ReadFaultMap`, `WriteFaultMap`, `DoneMap`),
because the overlay of the bytes still to be stored shrinks as the buffer fills up.

**`PcdSingleProofs`** proves `SingleTypeOK`, `MutexAccounted` and `Stacked`, and
`CopyIsolated` and `CopyInBounds` again, for `SingleSpec`. Its invariant is
`SInv`. Every step of `PcdSingle` is a step of `PcdOps`, a stutter of it
or one of two others (`OtherSteps`), so that `IInv` is kept by the lemma that
`PcdOpsProofs` proves, by `InterruptedIInv`, and by `InsmodIInv`, which needs
that no call is in flight when the module is loaded. That is `FileInv`: an open file
is in a module that stays, with all its layers. `LoaderInv` says how many
layers are registered at each step of init, unwinding and exit, and `LockInv`
that only a copy or a failed call has the mutex. `SeekCurOvershoots` is about
`PcdLseek` alone: a `SEEK_CUR` that is accepted adds the old offset twice (`pcd.c:121`).

**`PcdLifecycleProofs`.** `InitInv` and `ExitInv` say which cdevs and nodes exist at
each step of `pcd_init`, of its unwinding and of `pcd_exit` (below `destroy` only
bounds are known, since a device may have failed between its cdev and its node).
`CountInv` counts the files that have a reference by cardinality.

**`ChardevProofs`.** `MessageInv` says that a message half printed is its owner's,
`InsideInv` that nobody is inside a module whose number leads nowhere, and `CountInv`
that an open is uncounted only while the module is going, when nobody has a
reference that the surplus `module_put` could take.
`CountedIsNotStranded` is an action property.

**`ProcfsProofs`.** `StageInv` says what the locals of a call hold at each of its
loads and stores: what the call itself keeps of a size is clamped before it copies. `SizeInv`
says of the shared size, which the copy may take instead, that it exceeds the buffer only
while a write of procfs2 that has stored it has still to test it or to store the lesser one. `UndisturbedCalls` needs an invariant on calls that are alone (`AloneInv`, `QuietInv`,
`OffsetInv`, `ReadInv`, `WriteInv`): the file is the beginning of the buffer, and
its length the size, whenever no call is in progress. `CountInv` gives what unloading waits for.

**`GpioSysfsProofs`.** `HandlerInv` says that a handler past `mutex_lock` owns the mutex of a
gpio whose data exists, `FilesInv` that every file left is of an entry of `dev`
that remove has still to come to, and every handler of such a file or of the device it is waiting for,
`DevInv` that without unavailable children no entry is empty.

**`PcdPlatformProofs`.** `TaskInv` gives each task a device of its own. With numbers by id,
`PlatformCdevs` says that each number has the cdev of its device, exactly from `cdev_add` to
`cdev_del`. With numbers by count, a probe may put its cdev in front of that of a
bound device with the same number; `DtCdevs` says that it is then the first of two,
so that undoing takes it off again, and `NumbersInv` that it is undone: every bound device
has a node (`NodesInv`), and `device_create` admits no number twice. `CountInv`
relates the count to the bound devices for the drivers whose tasks do not overlap, where what a
task has loaded (`seen`) is still the count when it stores; `ServedInv` follows a device from its arrival to its
binding. The hypothesis `SerialOverlays` is that the two tasks overlap with the platform
driver only. Two probes of the device tree drivers at once can read the same
`total_devices`, one of the defects named above, and nothing is claimed of what follows.
`CdevFrame`, `NodeFrame`, `TaskStays`, `ServedStep` and their like say what a step
of one task on its device leaves alone, once for all actions.

**`LcdProofs`.** `Program` is the list of the 108 writes that the application makes
before its first call. `Has(program, n, block)` says that a list has a block after its
first n writes, and `Ends(todo, program)` that what is left to do is the end of a list;
with them `LcdInitIs`, `SendByteIs` and `ProgramIs` state once which write comes where,
and `NextOfBlock` names the next one. The invariant relates how many writes are left to the
pins and the display: `InitAt(n)` after n writes of `Program`, `ByteAt(rs, b, j)` after j
writes of the byte b. That `lcd_init` works from every state is in four of its clauses: after
the first 3, a display with half an instruction has the half that was just sent
(`OneNibbleIn`); after the second, a display that still has four bits has a half that is 3
(`TwoNibblesIn`); the third makes it 0x33, which sets eight bits; then 2 sets four with nothing
half sent. `InitStep` follows every write through `NibbleStep` and `ByteStep`; a call needs
besides that no byte it sends is a function set (`RequestIs`), which `StaysInStep` rests on.
For the refinement, `AddrOfIs` and `CellOfIs` say that addresses and cells are the same thing
and that the address counter moves as the cursor does, at the ends of the lines too, and
`TakesEffect` that the byte sent for a request does what was asked for. `Start`, `Kill` and
`GpioWriteFails` map to the loss of the display, and every write but the last of a call or
of `lcd_init` to no step.

Only model-checked are the liveness properties `CallsComplete`, `SignalledCallsReturn`,
`LoaderTerminates` and `HandlersReturn`, which are out of the prover's reach, and the
disagreements with documents that the runs with a violation show.

## Plan

All modules, runs and proofs planned are in place.

## Not modelled

The hello modules have no state; the Makefiles, the device tree includes and
overlays are data. The layout of what the LCD application prints is left out.
A row other than 1 or 2 makes `lcd_set_cursor` send nothing, and nobody asks for one. The
display shift of `lcd_app.c:167` is sent like every command, but where the glass stands over
the memory is not part of the display's state.
`gpio_read_value` and `gpio_file_open` are called by nothing. `pcd_syscalls.c` and
the file operations of the platform drivers return a constant or do nothing.
A `platform_add_devices` that fails halfway takes its devices off the bus again, and
the exit of the setup module then unregisters devices that are not there: `PcdPlatform`
leaves that out.
`store_max_size` of the `sysfs` driver reallocates memory that `devm` owns, which is
undefined: only the attribute group around it is modelled. What `chardev.c`
does after a `class_create` that failed is undefined too.
