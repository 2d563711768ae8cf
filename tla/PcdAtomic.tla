----------------------------- MODULE PcdAtomic -----------------------------
(***************************************************************************)
(* What the read and write methods of the pseudo character driver          *)
(* (src/src/ldd-programming/pcd/pcd_n.c) promise to the processes that     *)
(* call them: every call takes effect on the device buffer in ONE step     *)
(* somewhere between the call and its return, whatever the other processes *)
(* do meanwhile.  There is no mutex and no copy loop here; what remains of *)
(* the mutex is the set of devices on which nothing more will happen.      *)
(***************************************************************************)
EXTENDS Integers, Sequences, FiniteSetsExt

CONSTANTS
    Proc,       \* the processes (tasks) that call into the driver
    File,       \* the open file descriptions (struct file)
    Dev,        \* the devices: pcdrv_data.pcdevice_data[]
    Size,       \* Size[d]: the length of the buffer of device d
    Byte,       \* what one cell of a buffer can hold
    Zero,       \* the content of static storage at start, and of a memset
    MaxCount,   \* bound: the largest count a call passes
    NoDev,      \* the device of a file that is not open
    NoArg       \* the argument of a process that is in no call

VARIABLES
    mem,        \* mem[d]: the buffer of device d
    fdev,       \* fdev[f]: the device file f is open on, or NoDev
    fmode,      \* fmode[f]: the access mode of f, a subset of Modes
    fpos,       \* fpos[f]: the offset of f
    wedged,     \* wedged[d]: no later call on d will take effect
    st,         \* st[p]: is p in a call, and has it taken effect
    arg,        \* arg[p]: the call of p
    pos,        \* pos[p]: the offset the call works on
    got,        \* got[p]: the bytes the call delivered to p
    ret         \* ret[p]: what the call will return

vars == <<mem, fdev, fmode, fpos, wedged, st, arg, pos, got, ret>>
call == <<st, arg, pos, got, ret>>

Modes == {"read", "write"}

\* f_mode of a file opened O_RDONLY, O_WRONLY or O_RDWR.
OpenModes == {{"read"}, {"write"}, {"read", "write"}}
ENOMEM == -12
EFAULT == -14

\* The device the call of p works on.
DevOf(p) == fdev[arg[p].file]

\* As many of the requested bytes as fit between the offset and the end.
Room(p) == Max({m \in 0..arg[p].n : pos[p] + m <= Size[DevOf(p)]})

Init ==
    /\ mem = [d \in Dev |-> [k \in 0..Size[d] - 1 |-> Zero]]
    /\ fdev = [f \in File |-> NoDev]
    /\ fmode = [f \in File |-> {}]
    /\ fpos = [f \in File |-> 0]
    /\ wedged = [d \in Dev |-> FALSE]
    /\ st = [p \in Proc |-> "idle"]
    /\ arg = [p \in Proc |-> NoArg]
    /\ pos = [p \in Proc |-> 0]
    /\ got = [p \in Proc |-> <<>>]
    /\ ret = [p \in Proc |-> 0]

\* Any open may succeed: which modes a device admits is the driver's business.
Open(f, d, mode) ==
    /\ fdev[f] = NoDev
    /\ fdev' = [fdev EXCEPT ![f] = d]
    /\ fmode' = [fmode EXCEPT ![f] = mode]
    /\ fpos' = [fpos EXCEPT ![f] = 0]
    /\ UNCHANGED <<mem, wedged, call>>

Close(f) ==
    /\ fdev[f] # NoDev
    /\ fdev' = [fdev EXCEPT ![f] = NoDev]
    /\ \A p \in Proc : st[p] # "idle" => arg[p].file # f
    /\ fmode' = [fmode EXCEPT ![f] = {}]
    /\ fpos' = [fpos EXCEPT ![f] = 0]
    /\ UNCHANGED <<mem, wedged, call>>

\* A call is made; it works on the offset the file has now.
Call(p) ==
    /\ st[p] = "idle"
    /\ st' = [st EXCEPT ![p] = "called"]
    /\ \E op \in Modes, f \in File, n \in 0..MaxCount, b \in Byte : \E limit \in 0..n :
         /\ fdev[f] # NoDev
         /\ op \in fmode[f]
         /\ arg' = [arg EXCEPT ![p] =
                      [op |-> op, file |-> f, n |-> n, limit |-> limit, byte |-> b]]
         /\ pos' = [pos EXCEPT ![p] = fpos[f]]
    /\ UNCHANGED <<mem, fdev, fmode, fpos, wedged, got, ret>>

\* The call of p takes effect now: the device is live, and afterwards it is
\* wedged if the call failed.
Answer(p, result) ==
    /\ st[p] = "called"
    /\ st' = [st EXCEPT ![p] = "done"]
    /\ ~wedged[DevOf(p)]
    /\ ret' = [ret EXCEPT ![p] = result]
    /\ wedged' = [wedged EXCEPT ![DevOf(p)] = result < 0]
    /\ pos' = [pos EXCEPT ![p] = IF result < 0 THEN @ ELSE @ + result]
    /\ UNCHANGED <<fdev, fmode, fpos, arg>>

\* A read delivers the bytes of one instant, all of them or, when the user's
\* buffer ends early, those before its end.
ReadEffect(p) ==
    LET n == Room(p)
        m == IF arg[p].limit < n THEN arg[p].limit ELSE n
    IN  /\ arg[p] # NoArg /\ arg[p].op = "read"
        /\ Answer(p, IF m < n THEN EFAULT ELSE n)
        /\ got' = [got EXCEPT ![p] = [i \in 1..m |-> mem[DevOf(p)][pos[p] + i - 1]]]
        /\ UNCHANGED mem

\* A write stores all its bytes at one instant; one whose source ends early
\* stores what there is and clears the rest of its span.
WriteEffect(p) ==
    LET n == Room(p)
        d == DevOf(p)
    IN  /\ arg[p] # NoArg /\ arg[p].op = "write"
        /\ Answer(p, IF n = 0 THEN ENOMEM
                     ELSE IF arg[p].limit < n THEN EFAULT ELSE n)
        /\ mem' = [mem EXCEPT ![d] = [k \in DOMAIN @ |->
                     IF k \in pos[p]..(pos[p] + n - 1)
                     THEN IF k < pos[p] + arg[p].limit THEN arg[p].byte ELSE Zero
                     ELSE @[k]]]
        /\ UNCHANGED got

\* The call returns; a successful one moves the offset of its file.
Return(p) ==
    /\ st[p] = "done"
    /\ st' = [st EXCEPT ![p] = "idle"]
    /\ fpos' = IF ret[p] < 0 THEN fpos ELSE [fpos EXCEPT ![arg[p].file] = pos[p]]
    /\ arg' = [arg EXCEPT ![p] = NoArg]
    /\ pos' = [pos EXCEPT ![p] = 0]
    /\ got' = [got EXCEPT ![p] = <<>>]
    /\ ret' = [ret EXCEPT ![p] = 0]
    /\ UNCHANGED <<mem, fdev, fmode, wedged>>

Next ==
    \/ \E f \in File, d \in Dev, mode \in OpenModes : Open(f, d, mode)
    \/ \E f \in File : Close(f)
    \/ \E p \in Proc : Call(p) \/ ReadEffect(p) \/ WriteEffect(p) \/ Return(p)

Spec == Init /\ [][Next]_vars
=============================================================================
