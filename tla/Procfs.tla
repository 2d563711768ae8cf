------------------------------- MODULE Procfs -------------------------------
(***************************************************************************)
(* The three drivers of a file under /proc: src/src/lkmpg/procfs1.c, a     *)
(* message to read; procfs2.c, which can be written too; and procfs3.c,    *)
(* which gives back what was written and counts its open files.  version   *)
(* says which one is loaded.                                               *)
(*                                                                         *)
(* Each process has a file of its own, since calls that share one wait for *)
(* each other in the VFS (they share f_pos_lock).  The buffer and its size *)
(* are static, shared by all files and locked by nobody.  The size is      *)
(* loaded and stored in steps of their own; a copy is one step, because    *)
(* nothing is claimed of the bytes that overlapping calls leave.  Where    *)
(* the code names the static again after a store or a load of its own,     *)
(* the value is loaded anew (the calls between may have changed it) or     *)
(* is the one the compiler has kept: both are possible, in SizeNow.        *)
(*                                                                         *)
(* External: the loader; and /proc, which starts no call once an entry is  *)
(* removed, waits for those that run and then closes the open files.       *)
(*                                                                         *)
(* procfs2.c uses two undeclared names, procfs_buffer_size and len: they   *)
(* are read as procfs_buf_size and buffer_len.  procfs1.c initialises a    *)
(* member read of proc_ops: it is read as proc_read.                       *)
(***************************************************************************)
EXTENDS Integers, Sequences

CONSTANTS
    Proc,       \* the processes
    Max,        \* PROCFS_MAX_SIZE
    HelloLen,   \* the length of the message of procfs1 and procfs2
    Byte,       \* the bytes a process writes; 0 is what memory is cleared to
    MaxLen,     \* bound: the longest buffer a call passes
    Unknown     \* not a sequence: what overlapping or failed writes leave

ASSUME MaxAssumption == Max \in Nat \ {0} /\ HelloLen \in Nat \ {0} /\ MaxLen \in Nat

EFAULT == -14

VARIABLES
    version,    \* 1, 2 or 3: which driver it is
    mod,        \* the module: unloaded, coming, live or going
    entry,      \* is the file in /proc
    refcnt,     \* the usage count of the module
    buffer,     \* procfs_buffer
    size,       \* procfs_buffer_size, or procfs_buf_size
    fpos,       \* fpos[p]: the offset of the file of p
    pc,         \* pc[p]: where process p is
    call,       \* call[p]: the arguments and locals of the call of p
    counted,    \* counted[p]: did the open of p get a reference
    alone,      \* history, alone[p]: has no other call run during that of p
    where,      \* history, where[p]: is the file of p at its start or behind data
    file        \* history: what a reader of procfs3 would expect of it, or Unknown

module == <<version, mod, entry>>
static == <<buffer, size>>
history == <<alone, where, file>>
vars == <<module, refcnt, static, fpos, pc, call, counted, history>>

NoCall == [op |-> "none", len |-> 0, byte |-> 0, pos |-> 0, n |-> 0, ret |-> 0, got |-> <<>>]

Init ==
    /\ version \in 1..3
    /\ mod = "unloaded" /\ entry = FALSE /\ refcnt = 0
    /\ buffer = [i \in 1..Max |-> 0] /\ size = 0
    /\ fpos = [p \in Proc |-> 0]
    /\ pc = [p \in Proc |-> "user"]
    /\ call = [p \in Proc |-> NoCall]
    /\ counted = [p \in Proc |-> FALSE]
    /\ alone = [p \in Proc |-> FALSE]
    /\ where = [p \in Proc |-> "start"]
    /\ file = <<>>

InCall(p) == pc[p] \notin {"user", "opening", "open"}
InHandler(p) == pc[p] = "opening" \/ InCall(p)

Min2(a, b) == IF a < b THEN a ELSE b

\* Bound: of an offset only zero, and having reached HelloLen, make a difference.
Offset(x) == Min2(x, HelloLen)

-----------------------------------------------------------------------------
(* init and exit *)

Insmod ==
    /\ mod = "unloaded"
    /\ mod' = "coming"
    /\ buffer' = [i \in 1..Max |-> 0] /\ size' = 0
    /\ file' = <<>>
    /\ UNCHANGED <<version, entry, refcnt, fpos, pc, call, counted, alone, where>>

\* proc_create; when it fails there is nothing to remove, and init returns -ENOMEM.
ProcCreate ==
    /\ mod = "coming" /\ ~entry
    /\ \/ entry' = TRUE /\ mod' = mod
       \/ entry' = FALSE /\ mod' = "unloaded"
    /\ UNCHANGED <<version, refcnt, static, fpos, pc, call, counted, history>>

InitSucceeds ==
    /\ mod = "coming" /\ entry
    /\ mod' = "live"
    /\ UNCHANGED <<version, entry, refcnt, static, fpos, pc, call, counted, history>>

Rmmod ==
    /\ mod = "live" /\ refcnt = 0
    /\ mod' = "going"
    /\ UNCHANGED <<version, entry, refcnt, static, fpos, pc, call, counted, history>>

\* Mutant: the exit function forgets to remove the entry.
ExitKeepsEntry ==
    /\ mod = "going" /\ entry
    /\ entry' = FALSE /\ mod' = "unloaded"
    /\ UNCHANGED <<version, refcnt, static, fpos, pc, call, counted, history>>

\* remove_proc_entry or proc_remove: no call starts from here on.
RemoveEntry ==
    /\ mod = "going" /\ entry
    /\ entry' = FALSE
    /\ UNCHANGED <<version, mod, refcnt, static, fpos, pc, call, counted, history>>

\* It returns when no call runs, with the open files closed; the module_put of
\* procfs_close finds a count of zero and leaves it there (with a warning).
Rundown ==
    /\ mod = "going" /\ ~entry
    /\ \A p \in Proc : ~InHandler(p)
    /\ pc' = [p \in Proc |-> "user"]
    /\ fpos' = [p \in Proc |-> 0] /\ where' = [p \in Proc |-> "start"]
    /\ mod' = "unloaded"
    /\ UNCHANGED <<version, entry, refcnt, static, call, counted, alone, file>>

-----------------------------------------------------------------------------
(* open and close *)

OpenStart(p) ==
    /\ pc[p] = "user" /\ entry
    /\ pc' = [pc EXCEPT ![p] = "opening"]
    /\ UNCHANGED <<module, refcnt, static, fpos, call, counted, history>>

\* Only procfs3 counts, and drops the result of try_module_get.
ProcfsOpen(p) ==
    /\ pc[p] = "opening"
    /\ pc' = [pc EXCEPT ![p] = "open"]
    /\ counted' = [counted EXCEPT ![p] = version = 3 /\ mod # "going"]
    /\ refcnt' = IF counted'[p] THEN refcnt + 1 ELSE refcnt
    /\ UNCHANGED <<module, static, fpos, call, history>>

ProcfsClose(p) ==
    /\ pc[p] = "open"
    /\ pc' = [pc EXCEPT ![p] = "user"]
    /\ fpos' = [fpos EXCEPT ![p] = 0] /\ where' = [where EXCEPT ![p] = "start"]
    /\ counted' = [counted EXCEPT ![p] = FALSE]
    /\ refcnt' = IF version = 3 /\ refcnt > 0 THEN refcnt - 1 ELSE refcnt
    /\ UNCHANGED <<module, static, call, alone, file>>

-----------------------------------------------------------------------------
(* read and write *)

StartCall(p, op, l, b) ==
    /\ pc[p] = "open" /\ entry
    /\ op = "write" => version # 1
    /\ pc' = [pc EXCEPT ![p] = CASE op = "write" -> "size"
                                 [] op = "read" /\ version = 3 -> "test"
                                 [] OTHER -> "hello"]
    /\ call' = [call EXCEPT ![p] =
                  [NoCall EXCEPT !.op = op, !.len = l, !.byte = b, !.pos = fpos[p]]]
    /\ IF \A q \in Proc : ~InCall(q)
       THEN alone' = [alone EXCEPT ![p] = TRUE] /\ UNCHANGED <<where, file>>
       ELSE /\ alone' = [q \in Proc |-> FALSE]
            /\ where' = [q \in Proc |-> IF q = p \/ InCall(q) THEN "unknown" ELSE where[q]]
            /\ file' = Unknown
    /\ UNCHANGED <<module, refcnt, static, fpos, counted>>

\* p goes on to next with c; nothing else of the module changes.
Local(p, next, c) ==
    /\ pc' = [pc EXCEPT ![p] = next]
    /\ call' = [call EXCEPT ![p] = c]
    /\ UNCHANGED <<module, refcnt, fpos, counted, history>>

\* procfs1 and procfs2 copy the message whatever the length; a fault is an END.
HelloRead(p) ==
    /\ pc[p] = "hello"
    /\ \/ Local(p, "ret", call[p])
       \/ /\ call[p].pos < HelloLen
          /\ Local(p, "ret", [call[p] EXCEPT !.ret = HelloLen,
                                             !.pos = Offset(@ + HelloLen)])
    /\ UNCHANGED static

\* Mutant: the END leaves the offset where it is.
ReadTestKeepsOffset(p) ==
    /\ pc[p] = "test"
    /\ IF call[p].pos # 0 \/ size = 0
       THEN Local(p, "ret", call[p])
       ELSE Local(p, "load", call[p])
    /\ UNCHANGED static

ReadTest(p) ==
    /\ pc[p] = "test"
    /\ IF call[p].pos # 0 \/ size = 0
       THEN Local(p, "ret", [call[p] EXCEPT !.pos = 0])
       ELSE Local(p, "load", call[p])
    /\ UNCHANGED static

\* Mutant: the read takes the length asked for, however much there is.
ReadLoadAsked(p) ==
    /\ pc[p] = "load"
    /\ Local(p, "store", [call[p] EXCEPT !.n = call[p].len])
    /\ UNCHANGED static

ReadLoad(p) ==
    /\ pc[p] = "load"
    /\ Local(p, "store", [call[p] EXCEPT !.n = Min2(size, call[p].len)])
    /\ UNCHANGED static

ReadStore(p) ==
    /\ pc[p] = "store"
    /\ size' = call[p].n
    /\ Local(p, "copy", call[p])
    /\ UNCHANGED buffer

\* procfs_buffer_size where p names it again: what p stored or loaded last, or
\* what the static holds by now.  Neither a lock nor READ_ONCE decides which.
SizeNow(p) == {call[p].n, size}

\* Mutant: the length of the buffer is not looked at.
ClampNot(l) == l

Clamp(l) == Min2(Max, l)

\* procfs3 stores the clamped length, procfs2 the length as it is.
WriteSize(p) ==
    /\ pc[p] = "size"
    /\ size' = IF version = 3 THEN Clamp(call[p].len) ELSE call[p].len
    /\ Local(p, IF version = 3 THEN "copy" ELSE "over", [call[p] EXCEPT !.n = size'])
    /\ UNCHANGED buffer

\* procfs2 compares the static with the length of the buffer,
WriteTest(p) ==
    /\ pc[p] = "over"
    /\ \E s \in SizeNow(p) :
         Local(p, IF s > Max THEN "clamp" ELSE "copy", [call[p] EXCEPT !.n = s])
    /\ UNCHANGED static

\* and stores that length if it is less.
WriteClamp(p) ==
    /\ pc[p] = "clamp"
    /\ size' = Max
    /\ Local(p, "copy", [call[p] EXCEPT !.n = Max])
    /\ UNCHANGED buffer

\* copy_to_user; it may fault, and the size stays what it is.
ReadCopy(p) ==
    /\ pc[p] = "copy" /\ call[p].op = "read"
    /\ \E l \in SizeNow(p) :
         \/ Local(p, "offset", [call[p] EXCEPT !.got = SubSeq(buffer, 1, l)])
         \/ l > 0 /\ Local(p, "ret", [call[p] EXCEPT !.ret = EFAULT])
    /\ UNCHANGED static

\* The part of procfs_buffer that k bytes of a copy of l fill; a fault clears the
\* rest of the l.  What lies behind the buffer is not modelled.
Filled(p, k, l) == [i \in 1..Max |-> IF i <= k THEN call[p].byte
                                     ELSE IF i <= l THEN 0 ELSE buffer[i]]

\* copy_from_user.  A length that exceeds the buffer it may also refuse as a whole.
WriteCopy(p) ==
    /\ pc[p] = "copy" /\ call[p].op = "write"
    /\ \E l \in SizeNow(p) :
         \/ /\ buffer' = Filled(p, l, l)
            /\ Local(p, IF version = 2 THEN "zero" ELSE "offset",
                     [call[p] EXCEPT !.got = [i \in 1..l |-> call[p].byte]])
         \/ /\ \/ \E k \in 0..l - 1 : buffer' = Filled(p, k, l)
               \/ l > Max /\ buffer' = buffer
            /\ Local(p, "ret", [call[p] EXCEPT !.ret = EFAULT])
    /\ UNCHANGED size

\* The shared size again: procfs2 puts a zero behind what it takes for the text.
PutZero(p) ==
    /\ pc[p] = "zero"
    /\ buffer' = [buffer EXCEPT ![(size % Max) + 1] = 0]
    /\ Local(p, "offset", [call[p] EXCEPT !.n = size])
    /\ UNCHANGED size

\* *offset += procfs_buffer_size, which procfs3 has to load after the copy.
AddOffset(p) ==
    /\ pc[p] = "offset"
    /\ \E s \in IF version = 2 THEN SizeNow(p) ELSE {size} :
         Local(p, "result", [call[p] EXCEPT !.n = s, !.pos = Offset(@ + s)])
    /\ UNCHANGED static

\* return procfs_buffer_size; n and byte are not used any more.
Result(p) ==
    /\ pc[p] = "result"
    /\ \E r \in SizeNow(p) :
         Local(p, "ret", [call[p] EXCEPT !.ret = r, !.n = 0, !.byte = 0])
    /\ UNCHANGED static

-----------------------------------------------------------------------------
(* back in the VFS, and what a user may expect next *)

\* A read that delivered from the start has cut the file to what it delivered.
FileAfter(p) ==
    IF ~alone[p] \/ version # 3 THEN Unknown
    ELSE IF call[p].op = "write" THEN IF call[p].ret = EFAULT THEN Unknown ELSE call[p].got
    ELSE IF file = Unknown \/ where[p] = "unknown" THEN Unknown
    ELSE IF where[p] = "start" THEN SubSeq(file, 1, Min2(call[p].len, Len(file)))
    ELSE file

WhereAfter(p) ==
    IF ~alone[p] \/ version # 3 THEN "unknown"
    ELSE IF call[p].ret > 0 THEN "data"
    ELSE IF call[p].ret = 0 /\ call[p].op = "read" THEN "start"
    ELSE where[p]

\* A call that did not fail stores its offset in the file.
Return(p) ==
    /\ pc[p] = "ret"
    /\ pc' = [pc EXCEPT ![p] = "open"]
    /\ fpos' = IF call[p].ret < 0 THEN fpos ELSE [fpos EXCEPT ![p] = call[p].pos]
    /\ call' = [call EXCEPT ![p] = NoCall]
    /\ file' = FileAfter(p)
    /\ where' = [where EXCEPT ![p] = WhereAfter(p)]
    /\ alone' = [alone EXCEPT ![p] = FALSE]
    /\ UNCHANGED <<module, refcnt, static, counted>>

-----------------------------------------------------------------------------
(* the specification *)

Loader == Insmod \/ ProcCreate \/ InitSucceeds \/ Rmmod \/ RemoveEntry \/ Rundown

Handler(p) ==
    \/ ProcfsOpen(p) \/ HelloRead(p)
    \/ ReadTest(p) \/ ReadLoad(p) \/ ReadStore(p) \/ ReadCopy(p)
    \/ WriteSize(p) \/ WriteTest(p) \/ WriteClamp(p) \/ WriteCopy(p)
    \/ PutZero(p) \/ AddOffset(p) \/ Result(p) \/ Return(p)

Next ==
    \/ Loader
    \/ \E p \in Proc : OpenStart(p) \/ ProcfsClose(p) \/ Handler(p)
    \/ \E p \in Proc, l \in 0..MaxLen :
         StartCall(p, "read", l, 0) \/ \E b \in Byte : StartCall(p, "write", l, b)

Spec == Init /\ [][Next]_vars

-----------------------------------------------------------------------------
(* properties *)

\* Types; the size exceeds the buffer at most between the two stores of procfs2.
TypeOK ==
    /\ mod \in {"unloaded", "coming", "live", "going"}
    /\ refcnt \in Nat
    /\ buffer \in [1..Max -> Byte \cup {0}]
    /\ size \in 0..MaxLen
    /\ size > Max => version = 2 /\ \E p \in Proc : pc[p] \in {"over", "clamp"}
    /\ \A p \in Proc : fpos[p] \in 0..HelloLen /\ call[p].pos \in 0..HelloLen

\* The length that a copy is given, whichever call stored it last: in procfs3 it
\* never exceeds the buffer, in procfs2 only while another write is between its
\* two stores; and a call of procfs3 that no other overlaps copies no more than
\* its caller asked for (procfs3.c:33-34, 47-48; procfs2.c:49-55).  One that is
\* overlapped may copy more, when a longer write stores its size in between.
CopyInBounds ==
    \A p \in Proc : pc[p] = "copy" => \A l \in SizeNow(p) :
        /\ l > Max => version = 2 /\ \E q \in Proc \ {p} : pc[q] \in {"over", "clamp"}
        /\ version = 3 /\ alone[p] => l <= call[p].len

\* To calls that no other call overlaps, procfs3 is a file: a read from its
\* start delivers what was last written, as far as no read has cut it, the next
\* read is an END and the one after it starts again; a write stores as much of
\* its buffer as there is room for (procfs3.c:25-57).
UndisturbedCalls ==
    \A p \in Proc : version = 3 /\ pc[p] = "ret" /\ alone[p] /\ call[p].ret # EFAULT =>
        IF call[p].op = "write" THEN call[p].ret = Min2(Max, call[p].len)
        ELSE /\ where[p] = "data" => call[p].ret = 0
             /\ where[p] = "start" /\ file # Unknown =>
                  /\ call[p].ret = Min2(call[p].len, Len(file))
                  /\ call[p].got = SubSeq(file, 1, call[p].ret)

\* No handler runs and no file is open in a module that is not loaded, whether
\* its open was counted or came too late to be; and one that was counted keeps
\* the module from going (procfs3.c:59-69, 105-109; procfs2.c:93-97;
\* procfs1.c:64-68).
HandlersInModule ==
    /\ mod = "unloaded" => ~entry /\ \A p \in Proc : pc[p] = "user"
    /\ \A p \in Proc : counted[p] => mod \in {"coming", "live"}
=============================================================================
