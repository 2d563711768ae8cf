---------------------------- MODULE ProcfsProofs ----------------------------
(***************************************************************************)
(* The safety properties of Procfs for any set of processes, any size of   *)
(* the buffer and any calls.                                               *)
(***************************************************************************)
EXTENDS Procfs, FiniteSetTheorems, SequenceTheorems, TLAPS

Data == Byte \cup {0}
Call == [op: {"none", "read", "write"}, len: 0..MaxLen, byte: Data, pos: 0..HelloLen,
         n: 0..MaxLen, ret: Nat \cup {EFAULT}, got: Seq(Data)]
Stage == {"hello", "test", "load", "store", "size", "over", "clamp", "copy", "zero", "offset",
          "result", "ret"}

\* What TypeOK says, with the types of the variables it leaves out.
TypeInv ==
    /\ version \in 1..3 /\ mod \in {"unloaded", "coming", "live", "going"}
    /\ entry \in BOOLEAN /\ refcnt \in Nat
    /\ buffer \in [1..Max -> Data] /\ size \in 0..MaxLen
    /\ fpos \in [Proc -> 0..HelloLen]
    /\ pc \in [Proc -> Stage \cup {"user", "opening", "open"}]
    /\ call \in [Proc -> Call]
    /\ counted \in [Proc -> BOOLEAN] /\ alone \in [Proc -> BOOLEAN]
    /\ where \in [Proc -> {"start", "data", "unknown"}]

\* Where the loader is.
LoadInv ==
    /\ mod = "unloaded" => ~entry
    /\ mod = "live" => entry
    /\ mod = "unloaded" \/ (mod = "coming" /\ ~entry) => \A p \in Proc : pc[p] = "user"

Counted == {p \in Proc : counted[p]}

\* procfs3 counts its open files, except those opened while it is going; the
\* others count none.
CountInv ==
    /\ IsFiniteSet(Counted) /\ refcnt = Cardinality(Counted)
    /\ \A p \in Proc : counted[p] => version = 3 /\ pc[p] \notin {"user", "opening"}
    /\ mod = "going" => Counted = {}
    /\ \A p \in Proc : version = 3 /\ ~counted[p] /\ pc[p] \notin {"user", "opening"}
           => mod = "going"

\* What the call of p has done so far; what it keeps of a size is clamped.
StageOk(p) ==
    /\ pc[p] = "hello" => call[p].op = "read" /\ version # 3
    /\ pc[p] \in {"test", "load", "store"} => call[p].op = "read" /\ version = 3
    /\ pc[p] = "size" => call[p].op = "write" /\ version # 1
    /\ pc[p] \in {"over", "clamp"} => call[p].op = "write" /\ version = 2
    /\ pc[p] = "clamp" => call[p].n > Max
    /\ pc[p] \in {"store", "copy"} => call[p].n <= Max
    /\ pc[p] = "store" => call[p].n <= call[p].len
    /\ pc[p] = "copy" /\ version = 3 => call[p].n <= call[p].len
    /\ pc[p] = "copy" /\ call[p].op = "read" => version = 3
    /\ pc[p] = "zero" => version = 2
    /\ InCall(p) => call[p].op \in {"read", "write"}
    /\ pc[p] \in {"hello", "test", "load", "store"} => call[p].ret = 0 /\ call[p].got = <<>>

StageInv == \A p \in Proc : StageOk(p)

\* The size exceeds the buffer only while the write of procfs2 that has stored
\* it has still to test it, or to store the length of the buffer.
SizeInv ==
    size > Max =>
        version = 2 /\ \E p \in Proc : pc[p] \in {"over", "clamp"} /\ call[p].n > Max

\* While a call is alone no other is there; when one is not, the file is unknown.
AloneInv ==
    /\ \A p \in Proc : alone[p] => InCall(p)
    /\ \A p, q \in Proc : alone[p] /\ InCall(q) => p = q
    /\ \A p \in Proc : InCall(p) /\ ~alone[p] => file = Unknown

\* The file of a reader is the beginning of the buffer.
InBuffer == file \in Seq(Data) /\ Len(file) <= Max /\ \A k \in 1..Len(file) : buffer[k] = file[k]

\* Between the calls of procfs3 its length is the size, and where is about fpos.
QuietInv ==
    version = 3 =>
        /\ (\A p \in Proc : ~InCall(p)) /\ file # Unknown => InBuffer /\ size = Len(file)
        /\ \A p \in Proc : /\ where[p] = "start" => fpos[p] = 0
                           /\ where[p] = "data" => fpos[p] > 0

\* The offset of a call of procfs3 that is alone.
OffsetOk(p) ==
    version = 3 /\ alone[p] =>
        /\ pc[p] \in {"test", "size"} => call[p].pos = fpos[p]
        /\ call[p].op = "read" /\ pc[p] \in {"load", "store", "copy", "offset", "result"}
               => where[p] # "data"
        /\ call[p].op = "read" /\ pc[p] \in {"load", "store", "copy", "offset"} => call[p].pos = 0
        /\ call[p].op = "write" /\ pc[p] \in {"copy", "offset"} => call[p].pos = fpos[p]
        /\ pc[p] = "copy" => call[p].n = size
        /\ pc[p] = "result" =>
               /\ call[p].n = size
               /\ call[p].op = "read" => call[p].pos = Offset(size)
               /\ call[p].op = "write" => call[p].pos = Offset(fpos[p] + size)
        /\ pc[p] = "ret" =>
               /\ call[p].ret > 0 => call[p].pos > 0
               /\ call[p].ret = 0 /\ call[p].op = "read" => call[p].pos = 0
               /\ call[p].ret = 0 /\ call[p].op = "write" => call[p].pos = fpos[p]
               /\ call[p].op = "read" /\ where[p] = "data" => call[p].ret = 0

OffsetInv == \A p \in Proc : OffsetOk(p)

\* A read of procfs3 that is alone cuts the file to what it delivers.
ReadOk(p) ==
    version = 3 /\ alone[p] /\ call[p].op = "read" /\ file # Unknown =>
        LET cut == Min2(call[p].len, Len(file)) IN
        /\ InBuffer
        /\ pc[p] \in {"test", "load", "store"} => size = Len(file)
        /\ pc[p] = "store" => call[p].n = cut
        /\ pc[p] = "copy" => size = cut
        /\ pc[p] \in {"offset", "result"} => size = cut /\ call[p].got = SubSeq(file, 1, cut)
        /\ pc[p] = "ret" /\ where[p] = "start" =>
               size = cut /\ (call[p].ret # EFAULT => /\ call[p].ret = cut
                                                      /\ call[p].got = SubSeq(file, 1, cut))
        /\ pc[p] = "ret" /\ where[p] = "data" => size = Len(file)

ReadInv == \A p \in Proc : ReadOk(p)

\* A write that is alone makes the file what it takes from the caller.
WriteOk(p) ==
    version = 3 /\ alone[p] /\ call[p].op = "write" /\ pc[p] # "size" =>
        /\ size = Clamp(call[p].len)
        /\ pc[p] \in {"offset", "result"} \/ (pc[p] = "ret" /\ call[p].ret # EFAULT) =>
               /\ Len(call[p].got) = size
               /\ \A k \in 1..size : call[p].got[k] = buffer[k]
        /\ pc[p] = "ret" => call[p].ret \in {size, EFAULT}

WriteInv == \A p \in Proc : WriteOk(p)

IInv ==
    /\ TypeInv /\ LoadInv /\ CountInv /\ StageInv /\ SizeInv
    /\ AloneInv /\ QuietInv /\ OffsetInv /\ ReadInv /\ WriteInv

USE MaxAssumption

-----------------------------------------------------------------------------
(* sequences *)

\* A function on 1..n is a sequence of length n.
LEMMA SeqOfLength ==
  ASSUME NEW S, NEW n \in Nat, NEW s \in [1..n -> S]
  PROVE  s \in Seq(S) /\ Len(s) = n
<1>1. s \in Seq(S)
  BY SeqDef
<1>2. DOMAIN s = 1..n /\ DOMAIN s = 1..Len(s) /\ Len(s) \in Nat
  BY <1>1, LenProperties
<1> QED
  BY <1>1, <1>2

\* What a read copies out of the buffer is data, and as much as was asked for.
LEMMA BufferPrefix ==
  ASSUME TypeInv, NEW n \in 0..Max
  PROVE  /\ SubSeq(buffer, 1, n) \in Seq(Data) /\ Len(SubSeq(buffer, 1, n)) = n
         /\ \A k \in 1..n : SubSeq(buffer, 1, n)[k] = buffer[k]
<1>1. \A k \in 1..n : buffer[k] \in Data
  BY DEF TypeInv
<1> QED
  BY <1>1, SubSeqProperties

\* If the file is the beginning of the buffer, what is read is its beginning.
LEMMA FilePrefix ==
  ASSUME TypeInv, InBuffer, NEW n \in 0..Len(file)
  PROVE  /\ SubSeq(file, 1, n) \in Seq(Data) /\ Len(SubSeq(file, 1, n)) = n
         /\ \A k \in 1..n : SubSeq(file, 1, n)[k] = buffer[k]
         /\ SubSeq(buffer, 1, n) = SubSeq(file, 1, n)
<1>1. file \in Seq(Data) /\ Len(file) \in Nat /\ Len(file) <= Max
  BY LenProperties DEF InBuffer
<1>2. \A k \in 1..n : file[k] \in Data /\ buffer[k] = file[k]
  BY <1>1, ElementOfSeq DEF InBuffer
<1>3. /\ SubSeq(file, 1, n) \in Seq(Data) /\ Len(SubSeq(file, 1, n)) = n
      /\ \A k \in 1..n : SubSeq(file, 1, n)[k] = file[k]
  BY <1>1, <1>2, SubSeqProperties
<1>4. /\ SubSeq(buffer, 1, n) \in Seq(Data) /\ Len(SubSeq(buffer, 1, n)) = n
      /\ \A k \in 1..n : SubSeq(buffer, 1, n)[k] = buffer[k]
  BY <1>1, BufferPrefix
<1> QED
  BY <1>2, <1>3, <1>4, SeqEqual

LEMMA MinProperties ==
  \A a, b \in Nat : /\ Min2(a, b) \in {a, b} /\ Min2(a, b) <= a /\ Min2(a, b) <= b
                    /\ (a > 0 /\ b > 0 => Min2(a, b) > 0)
BY DEF Min2

\* The arguments and locals of a call.
LEMMA CallFields ==
  ASSUME TypeInv, NEW p \in Proc
  PROVE  /\ call[p] \in Call /\ call[p].op \in {"none", "read", "write"}
         /\ call[p].len \in 0..MaxLen /\ call[p].byte \in Data /\ call[p].pos \in 0..HelloLen
         /\ call[p].n \in 0..MaxLen /\ call[p].ret \in Nat \cup {EFAULT}
         /\ call[p].got \in Seq(Data) /\ Len(call[p].got) \in Nat
BY LenProperties DEF TypeInv, Call

LEMMA NoCallType == NoCall \in Call
<1>1. 0 \in Data /\ <<>> \in Seq(Data) /\ 0 \in 0..MaxLen /\ 0 \in 0..HelloLen
  BY EmptySeq DEF Data
<1> QED
  BY <1>1 DEF NoCall, Call

-----------------------------------------------------------------------------
(* the loader *)

LEMMA InitInv == Init => IInv
<1> SUFFICES ASSUME Init PROVE IInv
  OBVIOUS
<1>1. TypeInv
  <2>1. buffer \in [1..Max -> Data] /\ size \in 0..MaxLen
    BY DEF Init, Data
  <2>2. call \in [Proc -> Call]
    BY NoCallType DEF Init
  <2>3. /\ fpos \in [Proc -> 0..HelloLen]
        /\ pc \in [Proc -> Stage \cup {"user", "opening", "open"}]
        /\ where \in [Proc -> {"start", "data", "unknown"}]
    BY DEF Init
  <2>4. counted \in [Proc -> BOOLEAN] /\ alone \in [Proc -> BOOLEAN]
    BY Zenon DEF Init
  <2> QED
    BY <2>1, <2>2, <2>3, <2>4 DEF Init, TypeInv
<1>2. \A p \in Proc : pc[p] = "user" /\ ~alone[p] /\ ~InCall(p) /\ ~counted[p]
  BY DEF Init, InCall
<1>3. CountInv
  <2>1. Counted = {} /\ refcnt = 0
    BY <1>2 DEF Init, Counted
  <2> QED
    BY <1>2, <2>1, FS_EmptySet DEF CountInv
<1>4. LoadInv /\ StageInv /\ SizeInv /\ AloneInv
  BY <1>2 DEF Init, LoadInv, StageInv, StageOk, SizeInv, AloneInv
<1>5. QuietInv
  <2>1. file = <<>> /\ size = 0 /\ InBuffer /\ Len(file) = 0
    BY EmptySeq DEF Init, InBuffer
  <2> QED
    BY <2>1 DEF Init, QuietInv
<1>6. OffsetInv /\ ReadInv /\ WriteInv
  BY <1>2 DEF OffsetInv, OffsetOk, ReadInv, ReadOk, WriteInv, WriteOk
<1> QED
  BY <1>1, <1>3, <1>4, <1>5, <1>6 DEF IInv

\* Loading clears the buffer, with nobody there.
LEMMA InsmodInv ==
  ASSUME IInv, Insmod
  PROVE  IInv'
<1>1. \A p \in Proc : pc'[p] = "user" /\ ~alone'[p] /\ ~InCall(p)'
  BY DEF Insmod, IInv, LoadInv, AloneInv, InCall
<1>2. TypeInv'
  <2>1. buffer' \in [1..Max -> Data] /\ size' \in 0..MaxLen
    BY DEF Insmod, Data
  <2> QED
    BY <2>1 DEF Insmod, IInv, TypeInv
<1>3. CountInv'
  <2>1. Counted' = Counted
    BY DEF Insmod, Counted
  <2> QED
    BY <2>1 DEF Insmod, IInv, CountInv
<1>4. LoadInv' /\ StageInv' /\ SizeInv' /\ AloneInv'
  BY <1>1 DEF Insmod, IInv, LoadInv, StageInv, StageOk, SizeInv, AloneInv
<1>5. QuietInv'
  <2>1. file' = <<>> /\ size' = 0 /\ InBuffer' /\ Len(file') = 0
    BY EmptySeq DEF Insmod, InBuffer
  <2> QED
    BY <2>1 DEF Insmod, IInv, QuietInv
<1>6. OffsetInv' /\ ReadInv' /\ WriteInv'
  BY <1>1 DEF OffsetInv, OffsetOk, ReadInv, ReadOk, WriteInv, WriteOk
<1> QED
  BY <1>2, <1>3, <1>4, <1>5, <1>6 DEF IInv

\* The other steps of the loader, except the last, change the module only.
LEMMA LoaderInv ==
  ASSUME IInv, ProcCreate \/ InitSucceeds \/ Rmmod \/ RemoveEntry
  PROVE  IInv'
<1>1. /\ UNCHANGED <<version, refcnt, buffer, size, fpos, pc, call, counted, alone, where, file>>
      /\ Counted' = Counted /\ InBuffer' = InBuffer
  BY DEF ProcCreate, InitSucceeds, Rmmod, RemoveEntry, static, history, Counted, InBuffer
<1>2. /\ mod' \in {"unloaded", "coming", "live", "going"} /\ entry' \in BOOLEAN
      /\ LoadInv'
      /\ mod' = "going" => mod = "going" \/ refcnt = 0
      /\ mod = "going" => mod' = "going"
  <2>1. CASE ProcCreate
    BY <2>1 DEF ProcCreate, IInv, TypeInv, LoadInv
  <2>2. CASE InitSucceeds
    BY <2>2 DEF InitSucceeds, IInv, TypeInv, LoadInv
  <2>3. CASE Rmmod
    BY <2>3 DEF Rmmod, IInv, TypeInv, LoadInv
  <2>4. CASE RemoveEntry
    BY <2>4 DEF RemoveEntry, IInv, TypeInv, LoadInv
  <2> QED
    BY <2>1, <2>2, <2>3, <2>4
<1>3. TypeInv'
  BY <1>1, <1>2 DEF IInv, TypeInv
<1>4. CountInv'
  <2>1. refcnt = 0 => Counted = {}
    BY FS_EmptySet DEF IInv, CountInv
  <2> QED
    BY <1>1, <1>2, <2>1 DEF IInv, CountInv
<1>5. StageInv' /\ SizeInv' /\ AloneInv' /\ QuietInv'
  BY <1>1 DEF IInv, StageInv, StageOk, SizeInv, AloneInv, QuietInv, InCall
<1>6. OffsetInv' /\ ReadInv' /\ WriteInv'
  BY <1>1 DEF IInv, OffsetInv, OffsetOk, ReadInv, ReadOk, WriteInv, WriteOk
<1> QED
  BY <1>2, <1>3, <1>4, <1>5, <1>6 DEF IInv

\* The entry is gone and nobody is in a handler; what was opened is closed.
LEMMA RundownInv ==
  ASSUME IInv, Rundown
  PROVE  IInv'
<1>1. \A p \in Proc : /\ pc'[p] = "user" /\ ~InCall(p) /\ ~InCall(p)' /\ ~alone'[p] /\ ~alone[p]
                      /\ fpos'[p] = 0 /\ where'[p] = "start"
  BY DEF Rundown, IInv, AloneInv, InHandler, InCall
<1>2. TypeInv'
  BY DEF Rundown, static, IInv, TypeInv
<1>3. CountInv'
  <2>1. Counted = {} /\ Counted' = Counted
    BY DEF Rundown, IInv, CountInv, Counted
  <2> QED
    BY <1>1, <2>1 DEF Rundown, IInv, CountInv, Counted
<1>4. LoadInv' /\ StageInv' /\ SizeInv' /\ AloneInv'
  BY <1>1 DEF Rundown, static, IInv, LoadInv, StageInv, StageOk, SizeInv, AloneInv, InCall
<1>5. QuietInv'
  BY <1>1 DEF Rundown, static, IInv, QuietInv, InBuffer
<1>6. OffsetInv' /\ ReadInv' /\ WriteInv'
  BY <1>1 DEF OffsetInv, OffsetOk, ReadInv, ReadOk, WriteInv, WriteOk
<1> QED
  BY <1>2, <1>3, <1>4, <1>5, <1>6 DEF IInv

-----------------------------------------------------------------------------
(* open and close *)

\* A process that is in no call before or after does not disturb the others.
LEMMA OutsideInv ==
  ASSUME IInv, NEW p \in Proc, OpenStart(p) \/ ProcfsOpen(p) \/ ProcfsClose(p)
  PROVE  IInv'
<1>1. /\ UNCHANGED <<version, mod, entry, buffer, size, call, alone, file>>
      /\ pc[p] \in {"user", "opening", "open"} /\ pc'[p] \in {"user", "opening", "open"}
      /\ \A q \in Proc \ {p} : pc'[q] = pc[q] /\ fpos'[q] = fpos[q] /\ where'[q] = where[q]
                               /\ counted'[q] = counted[q]
      /\ (fpos'[p] = fpos[p] /\ where'[p] = where[p]) \/ (fpos'[p] = 0 /\ where'[p] = "start")
  BY DEF OpenStart, ProcfsOpen, ProcfsClose, module, static, history, IInv, TypeInv
<1>2. ~alone[p] /\ InBuffer' = InBuffer /\ \A q \in Proc : InCall(q)' = InCall(q)
  BY <1>1 DEF IInv, AloneInv, InCall, InBuffer
<1>3. CountInv' /\ refcnt' \in Nat
  <2>1. CASE OpenStart(p)
    <3>1. Counted' = Counted /\ refcnt' = refcnt /\ counted' = counted
      BY <2>1 DEF OpenStart, history, Counted
    <3>2. \A q \in Proc : pc'[q] \notin {"user", "opening"} <=> pc[q] \notin {"user", "opening"}
      BY <2>1 DEF OpenStart, IInv, TypeInv
    <3> QED
      BY <3>1, <3>2, <1>1 DEF IInv, TypeInv, CountInv
  <2>2. CASE ProcfsOpen(p)
    <3>1. p \notin Counted /\ pc[p] = "opening" /\ pc'[p] = "open"
          /\ (counted'[p] <=> version = 3 /\ mod # "going")
      BY <2>2 DEF ProcfsOpen, IInv, TypeInv, CountInv, Counted
    <3>2. CASE version = 3 /\ mod # "going"
      <4>1. Counted' = Counted \cup {p} /\ refcnt' = refcnt + 1
        BY <1>1, <2>2, <3>1, <3>2 DEF ProcfsOpen, Counted
      <4>2. IsFiniteSet(Counted') /\ Cardinality(Counted') = Cardinality(Counted) + 1
        BY <3>1, <4>1, FS_AddElement DEF IInv, CountInv
      <4>3. refcnt' = Cardinality(Counted') /\ refcnt' \in Nat
        BY <4>1, <4>2 DEF IInv, TypeInv, CountInv
      <4> QED
        BY <1>1, <3>1, <3>2, <4>2, <4>3 DEF IInv, CountInv
    <3>3. CASE ~(version = 3 /\ mod # "going")
      <4>1. Counted' = Counted /\ refcnt' = refcnt
        BY <1>1, <2>2, <3>1, <3>3 DEF ProcfsOpen, Counted
      <4> QED
        BY <1>1, <3>1, <3>3, <4>1 DEF IInv, TypeInv, CountInv
    <3> QED
      BY <3>2, <3>3
  <2>3. CASE ProcfsClose(p)
    <3>1. /\ ~counted'[p] /\ pc'[p] = "user" /\ Counted' = Counted \ {p}
          /\ refcnt' = IF version = 3 /\ refcnt > 0 THEN refcnt - 1 ELSE refcnt
      BY <1>1, <2>3 DEF ProcfsClose, IInv, TypeInv, Counted
    <3>2. /\ IsFiniteSet(Counted') /\ Cardinality(Counted) \in Nat
          /\ Cardinality(Counted') = IF p \in Counted THEN Cardinality(Counted) - 1
                                     ELSE Cardinality(Counted)
      BY <3>1, FS_RemoveElement, FS_CardinalityType DEF IInv, CountInv
    <3>3. p \in Counted => version = 3 /\ Cardinality(Counted) # 0
      BY <3>2, FS_EmptySet DEF IInv, CountInv, Counted
    <3>4. p \notin Counted => version # 3 \/ refcnt = 0
      BY <1>1, <2>3, FS_EmptySet DEF ProcfsClose, IInv, CountInv, Counted
    <3>5. refcnt' = Cardinality(Counted') /\ refcnt' \in Nat
      BY <3>1, <3>2, <3>3, <3>4 DEF IInv, CountInv
    <3> QED
      BY <1>1, <3>1, <3>2, <3>5 DEF IInv, CountInv
  <2> QED
    BY <2>1, <2>2, <2>3
<1>4. TypeInv'
  <2>1. pc' \in [Proc -> Stage \cup {"user", "opening", "open"}]
    BY DEF OpenStart, ProcfsOpen, ProcfsClose, IInv, TypeInv
  <2>2. /\ fpos' \in [Proc -> 0..HelloLen]
        /\ where' \in [Proc -> {"start", "data", "unknown"}]
    <3>1. 0 \in 0..HelloLen
      OBVIOUS
    <3>2. CASE ProcfsClose(p)
      BY <3>1, <3>2 DEF ProcfsClose, IInv, TypeInv
    <3>3. CASE OpenStart(p) \/ ProcfsOpen(p)
      BY <3>3 DEF OpenStart, ProcfsOpen, history, IInv, TypeInv
    <3> QED
      BY <3>2, <3>3
  <2>3. counted' \in [Proc -> BOOLEAN]
    BY DEF OpenStart, ProcfsOpen, ProcfsClose, IInv, TypeInv
  <2> QED
    BY <1>1, <1>3, <2>1, <2>2, <2>3 DEF IInv, TypeInv
<1>5. LoadInv'
  <2>1. pc[p] # "user" \/ entry
    BY DEF OpenStart, ProcfsOpen, ProcfsClose
  <2>2. ~(mod = "unloaded" \/ (mod = "coming" /\ ~entry))
    BY <2>1 DEF IInv, LoadInv
  <2> QED
    BY <1>1, <2>2 DEF IInv, LoadInv
<1>6. StageInv' /\ SizeInv'
  BY <1>1, <1>2 DEF IInv, StageInv, StageOk, SizeInv
<1>7. AloneInv' /\ QuietInv'
  BY <1>1, <1>2 DEF IInv, AloneInv, QuietInv
<1>8. OffsetInv' /\ ReadInv' /\ WriteInv'
  BY <1>1, <1>2 DEF IInv, OffsetInv, OffsetOk, ReadInv, ReadOk, WriteInv, WriteOk
<1> QED
  BY <1>3, <1>4, <1>5, <1>6, <1>7, <1>8 DEF IInv

-----------------------------------------------------------------------------
(* the calls *)

\* A call that starts is alone, or makes all that run not alone.
LEMMA StartCallInv ==
  ASSUME IInv, NEW p \in Proc, NEW op \in {"read", "write"}, NEW l \in 0..MaxLen, NEW b \in Data,
         StartCall(p, op, l, b)
  PROVE  IInv'
<1>1. /\ UNCHANGED <<version, mod, entry, refcnt, buffer, size, fpos, counted>>
      /\ pc[p] = "open" /\ entry /\ (op = "write" => version # 1)
      /\ \A q \in Proc \ {p} : pc'[q] = pc[q] /\ call'[q] = call[q]
      /\ op = "write" => pc'[p] = "size"
      /\ op = "read" /\ version = 3 => pc'[p] = "test"
      /\ op = "read" /\ version # 3 => pc'[p] = "hello"
      /\ pc'[p] \in {"size", "test", "hello"}
  BY DEF StartCall, module, static, IInv, TypeInv
<1>2. /\ call'[p] \in Call /\ call'[p].op = op /\ call'[p].len = l /\ call'[p].pos = fpos[p]
      /\ call'[p].ret = 0 /\ call'[p].got = <<>> /\ Len(call'[p].got) = 0
  <2>1. fpos[p] \in 0..HelloLen
    BY DEF IInv, TypeInv
  <2>2. call'[p] = [NoCall EXCEPT !.op = op, !.len = l, !.byte = b, !.pos = fpos[p]]
    BY DEF StartCall, IInv, TypeInv
  <2> QED
    BY <2>1, <2>2, NoCallType, EmptySeq DEF NoCall, Call
<1>3. InBuffer' = InBuffer \/ file' = Unknown
  BY <1>1 DEF StartCall, InBuffer
<1>4. ~InCall(p) /\ InCall(p)' /\ \A q \in Proc \ {p} : InCall(q)' = InCall(q)
  BY <1>1 DEF InCall
<1>5. \/ /\ \A q \in Proc : ~InCall(q) /\ ~alone[q]
         /\ alone' = [alone EXCEPT ![p] = TRUE] /\ where' = where /\ file' = file
      \/ /\ alone' = [q \in Proc |-> FALSE] /\ file' = Unknown
         /\ where' = [q \in Proc |-> IF q = p \/ InCall(q) THEN "unknown" ELSE where[q]]
  BY DEF StartCall, IInv, AloneInv
<1>6. TypeInv'
  <2>1. pc' \in [Proc -> Stage \cup {"user", "opening", "open"}]
    BY <1>1 DEF StartCall, IInv, TypeInv, Stage
  <2>2. call' \in [Proc -> Call]
    <3>1. call' = [call EXCEPT ![p] = call'[p]]
      BY DEF StartCall, IInv, TypeInv
    <3> QED
      BY <1>2, <3>1 DEF IInv, TypeInv
  <2>3. alone' \in [Proc -> BOOLEAN] /\ where' \in [Proc -> {"start", "data", "unknown"}]
    BY <1>5 DEF IInv, TypeInv
  <2> QED
    BY <1>1, <2>1, <2>2, <2>3 DEF IInv, TypeInv
<1>7. LoadInv' /\ CountInv'
  BY <1>1 DEF IInv, LoadInv, CountInv, Counted
<1>8. StageInv' /\ SizeInv'
  <2>1. StageOk(p)'
    BY <1>1, <1>2 DEF StageOk, IInv, TypeInv
  <2>2. \A q \in Proc \ {p} : StageOk(q)'
    BY <1>1, <1>4 DEF IInv, StageInv, StageOk
  <2>3. SizeInv'
    BY <1>1 DEF IInv, SizeInv
  <2> QED
    BY <2>1, <2>2, <2>3 DEF StageInv
<1>9. AloneInv'
  BY <1>4, <1>5 DEF IInv, TypeInv, AloneInv
<1>10. QuietInv'
  BY <1>1, <1>4, <1>5 DEF IInv, TypeInv, QuietInv
<1>11. OffsetInv' /\ ReadInv' /\ WriteInv'
  <2>1. \A q \in Proc : alone'[q] => q = p
    BY <1>5 DEF IInv, TypeInv
  <2>2. OffsetOk(p)' /\ WriteOk(p)'
    BY <1>1, <1>2 DEF OffsetOk, WriteOk
  <2>3. ReadOk(p)'
    <3> SUFFICES ASSUME version' = 3, alone'[p], call'[p].op = "read", file' # Unknown
                 PROVE  InBuffer' /\ size' = Len(file') /\ pc'[p] = "test"
      BY DEF ReadOk
    <3>1. InBuffer /\ size = Len(file) /\ file' = file
      BY <1>1, <1>5 DEF IInv, QuietInv
    <3> QED
      BY <1>1, <1>2, <1>3, <3>1
  <2>4. \A q \in Proc \ {p} : OffsetOk(q)' /\ ReadOk(q)' /\ WriteOk(q)'
    BY <2>1 DEF OffsetOk, ReadOk, WriteOk
  <2> QED
    BY <2>2, <2>3, <2>4 DEF OffsetInv, ReadInv, WriteInv
<1> QED
  BY <1>6, <1>7, <1>8, <1>9, <1>10, <1>11 DEF IInv

\* What a step of the call of p has to show: the rest is as it was.
LEMMA LocalInv ==
  ASSUME IInv, NEW p \in Proc, NEW next \in Stage, NEW c \in Call, Local(p, next, c), InCall(p),
         buffer' \in [1..Max -> Data], size' \in 0..MaxLen,
         SizeInv', StageOk(p)', OffsetOk(p)', ReadOk(p)', WriteOk(p)'
  PROVE  IInv'
<1>1. /\ UNCHANGED <<version, mod, entry, refcnt, fpos, counted, alone, where, file>>
      /\ pc'[p] = next /\ \A q \in Proc \ {p} : pc'[q] = pc[q] /\ call'[q] = call[q]
      /\ pc' \in [Proc -> Stage \cup {"user", "opening", "open"}] /\ call' \in [Proc -> Call]
  BY DEF Local, module, history, IInv, TypeInv
<1>2. InCall(p)' /\ \A q \in Proc : InCall(q)' = InCall(q)
  BY <1>1 DEF InCall, Stage
<1>3. TypeInv'
  BY <1>1 DEF IInv, TypeInv
<1>4. LoadInv' /\ CountInv'
  <2>1. pc[p] \notin {"user", "opening"} /\ pc'[p] \notin {"user", "opening"}
    BY <1>1 DEF InCall, Stage
  <2> QED
    BY <1>1, <2>1 DEF IInv, LoadInv, CountInv, Counted
<1>5. StageInv'
  BY <1>1, <1>2 DEF IInv, StageInv, StageOk
<1>6. AloneInv' /\ QuietInv'
  BY <1>1, <1>2 DEF IInv, AloneInv, QuietInv
<1>7. \A q \in Proc : alone'[q] => q = p
  BY <1>1 DEF IInv, AloneInv
<1>8. OffsetInv' /\ ReadInv' /\ WriteInv'
  BY <1>7 DEF OffsetInv, OffsetOk, ReadInv, ReadOk, WriteInv, WriteOk
<1> QED
  BY <1>3, <1>4, <1>5, <1>6, <1>8 DEF IInv

\* The message of procfs1 and procfs2 has nothing to do with the buffer.
LEMMA HelloReadInv ==
  ASSUME IInv, NEW p \in Proc, HelloRead(p)
  PROVE  IInv'
<1>1. PICK c \in Call : /\ Local(p, "ret", c) /\ c.op = call[p].op /\ c.len = call[p].len
                        /\ c.got = call[p].got
  <2>1. /\ Offset(call[p].pos + HelloLen) \in 0..HelloLen /\ HelloLen \in Nat \cup {EFAULT}
        /\ call[p] \in Call
    BY CallFields DEF Offset, Min2, IInv
  <2>2. [call[p] EXCEPT !.ret = HelloLen, !.pos = Offset(call[p].pos + HelloLen)] \in Call
    BY <2>1 DEF Call
  <2>3. CASE Local(p, "ret", call[p])
    BY <2>1, <2>3
  <2>4. CASE Local(p, "ret", [call[p] EXCEPT !.ret = HelloLen,
                                             !.pos = Offset(call[p].pos + HelloLen)])
    BY <2>1, <2>2, <2>4 DEF Call
  <2> QED
    BY <2>3, <2>4 DEF HelloRead
<1>2. /\ pc[p] = "hello" /\ buffer' = buffer /\ size' = size /\ pc'[p] = "ret" /\ call'[p] = c
      /\ version' = version /\ version # 3 /\ c.op = "read"
      /\ \A q \in Proc \ {p} : pc'[q] = pc[q] /\ call'[q] = call[q]
  BY <1>1 DEF HelloRead, static, Local, module, IInv, TypeInv, StageInv, StageOk
<1>3. SizeInv' /\ StageOk(p)' /\ OffsetOk(p)' /\ ReadOk(p)' /\ WriteOk(p)'
  BY <1>1, <1>2 DEF IInv, SizeInv, StageInv, StageOk, OffsetOk, ReadOk, WriteOk, InCall
<1> QED
  BY <1>1, <1>2, <1>3, LocalInv DEF IInv, TypeInv, InCall, Stage

\* The effect of a step of a call on what the invariant of the call is about.
LEMMA LocalEffect ==
  ASSUME IInv, NEW p \in Proc, NEW next, NEW c, Local(p, next, c)
  PROVE  /\ pc'[p] = next /\ call'[p] = c
         /\ UNCHANGED <<version, fpos, alone, where, file>>
         /\ buffer' = buffer => InBuffer' = InBuffer
         /\ \A q \in Proc \ {p} : pc'[q] = pc[q] /\ call'[q] = call[q]
BY DEF Local, module, history, IInv, TypeInv, InBuffer

\* The size is within the buffer, except in a write of procfs2.
LEMMA SizeBound ==
  ASSUME IInv, version = 3
  PROVE  size \in 0..Max /\ size \in 0..MaxLen
BY DEF IInv, TypeInv, SizeInv

\* At an END nothing is cut off; otherwise the offset is zero.
LEMMA ReadTestInv ==
  ASSUME IInv, NEW p \in Proc, ReadTest(p)
  PROVE  IInv'
<1>0. /\ pc[p] = "test" /\ InCall(p) /\ buffer' = buffer /\ size' = size
      /\ version = 3 /\ call[p].op = "read" /\ call[p].ret = 0 /\ call[p].got = <<>>
      /\ alone[p] => call[p].pos = fpos[p]
      /\ where[p] = "start" => fpos[p] = 0
      /\ where[p] = "data" => fpos[p] > 0
      /\ alone[p] /\ file # Unknown => InBuffer /\ size = Len(file)
  BY DEF ReadTest, static, IInv, StageInv, StageOk, OffsetInv, OffsetOk, QuietInv, ReadInv,
         ReadOk, InCall
<1>1. size \in 0..Max /\ size \in 0..MaxLen /\ buffer \in [1..Max -> Data]
  BY <1>0, SizeBound DEF IInv, TypeInv
<1>2. call[p] \in Call /\ 0 \in 0..HelloLen /\ call[p].len \in Nat
  BY CallFields DEF IInv
<1>3. ASSUME NEW next \in {"ret", "load"}, NEW c \in Call, Local(p, next, c),
             c.op = "read", c.pos = 0, c.ret = 0, c.got = <<>>, c.len = call[p].len,
             next = "load" => fpos[p] = 0 \/ ~alone[p],
             next = "ret" => fpos[p] # 0 \/ size = 0 \/ ~alone[p]
      PROVE  IInv'
  <2>1. /\ pc'[p] = next /\ call'[p] = c
        /\ UNCHANGED <<version, fpos, alone, where, file>> /\ InBuffer' = InBuffer
    BY <1>0, <1>3, LocalEffect
  <2>2. Len(<<>>) = 0 /\ SubSeq(file, 1, 0) = <<>>
    BY SubSeqEmpty, EmptySeq
  <2>3. SizeInv'
    BY <1>0, <1>1, <2>1 DEF SizeInv
  <2>4. StageOk(p)' /\ OffsetOk(p)' /\ WriteOk(p)'
    BY <1>0, <1>2, <1>3, <2>1, <2>2 DEF StageOk, OffsetOk, WriteOk
  <2>5. ReadOk(p)'
    <3> SUFFICES ASSUME alone[p], file # Unknown
                 PROVE  /\ InBuffer /\ size = Len(file)
                        /\ next = "ret" /\ where[p] = "start" =>
                             /\ Min2(c.len, Len(file)) = 0
                             /\ <<>> = SubSeq(file, 1, Min2(c.len, Len(file)))
      BY <1>0, <1>3, <2>1 DEF ReadOk, EFAULT
    <3>1. InBuffer /\ size = Len(file)
      BY <1>0
    <3>2. next = "ret" /\ where[p] = "start" => size = 0
      BY <1>0, <1>3
    <3> QED
      BY <3>1, <3>2, <2>2, <1>2, <1>3 DEF Min2
  <2> QED
    BY <1>0, <1>1, <1>3, <2>3, <2>4, <2>5, LocalInv DEF Stage
<1>4. CASE call[p].pos # 0 \/ size = 0
  <2>1. Local(p, "ret", [call[p] EXCEPT !.pos = 0])
    BY <1>4 DEF ReadTest
  <2>2. /\ [call[p] EXCEPT !.pos = 0] \in Call
        /\ [call[p] EXCEPT !.pos = 0].op = "read" /\ [call[p] EXCEPT !.pos = 0].pos = 0
        /\ [call[p] EXCEPT !.pos = 0].ret = 0 /\ [call[p] EXCEPT !.pos = 0].got = <<>>
        /\ [call[p] EXCEPT !.pos = 0].len = call[p].len
    BY <1>0, <1>2 DEF Call
  <2> QED
    BY <1>0, <1>3, <1>4, <2>1, <2>2
<1>5. CASE ~(call[p].pos # 0 \/ size = 0)
  <2>1. Local(p, "load", call[p]) /\ call[p].pos = 0
    BY <1>5 DEF ReadTest
  <2> QED
    BY <1>0, <1>2, <1>3, <2>1
<1> QED
  BY <1>4, <1>5

\* The length is the least of the size and what is asked for.
LEMMA ReadLoadInv ==
  ASSUME IInv, NEW p \in Proc, ReadLoad(p)
  PROVE  IInv'
<1> DEFINE c == [call[p] EXCEPT !.n = Min2(size, call[p].len)]
<1>0. /\ pc[p] = "load" /\ InCall(p) /\ buffer' = buffer /\ size' = size /\ Local(p, "store", c)
      /\ version = 3 /\ call[p].op = "read" /\ call[p].ret = 0 /\ call[p].got = <<>>
      /\ alone[p] => call[p].pos = 0 /\ where[p] # "data"
      /\ alone[p] /\ file # Unknown => InBuffer /\ size = Len(file)
  BY DEF ReadLoad, static, IInv, StageInv, StageOk, OffsetInv, OffsetOk, ReadInv, ReadOk, InCall
<1>1. size \in 0..Max /\ size \in 0..MaxLen /\ buffer \in [1..Max -> Data]
  BY <1>0, SizeBound DEF IInv, TypeInv
<1>2. /\ call[p] \in Call /\ call[p].len \in 0..MaxLen /\ Min2(size, call[p].len) \in 0..MaxLen
      /\ Min2(size, call[p].len) <= Max /\ Min2(size, call[p].len) <= call[p].len
      /\ Min2(size, call[p].len) = Min2(call[p].len, size)
  BY <1>1, CallFields DEF IInv, Min2
<1>3. /\ c \in Call /\ c.op = "read" /\ c.ret = 0 /\ c.got = <<>> /\ c.len = call[p].len
      /\ c.pos = call[p].pos /\ c.n = Min2(size, call[p].len)
  BY <1>0, <1>2 DEF Call
<1> HIDE DEF c
<1>4. /\ pc'[p] = "store" /\ call'[p] = c
      /\ UNCHANGED <<version, fpos, alone, where, file>> /\ InBuffer' = InBuffer
  BY <1>0, LocalEffect
<1>5. SizeInv' /\ StageOk(p)' /\ OffsetOk(p)' /\ WriteOk(p)'
  <2>1. Len(<<>>) = 0
    BY EmptySeq
  <2> QED
    BY <1>0, <1>1, <1>2, <1>3, <1>4, <2>1 DEF SizeInv, StageOk, OffsetOk, WriteOk
<1>6. ReadOk(p)'
  BY <1>0, <1>2, <1>3, <1>4 DEF ReadOk
<1> QED
  BY <1>0, <1>1, <1>3, <1>5, <1>6, LocalInv DEF Stage

\* The read stores its length in the size: the file is cut.
LEMMA ReadStoreInv ==
  ASSUME IInv, NEW p \in Proc, ReadStore(p)
  PROVE  IInv'
<1>0. /\ pc[p] = "store" /\ InCall(p) /\ buffer' = buffer /\ size' = call[p].n
      /\ Local(p, "copy", call[p])
      /\ version = 3 /\ call[p].op = "read" /\ call[p].ret = 0 /\ call[p].got = <<>>
      /\ call[p].n <= Max /\ call[p].n <= call[p].len
      /\ alone[p] => call[p].pos = 0 /\ where[p] # "data"
      /\ alone[p] /\ file # Unknown => InBuffer /\ call[p].n = Min2(call[p].len, Len(file))
  BY DEF ReadStore, IInv, StageInv, StageOk, OffsetInv, OffsetOk, ReadInv, ReadOk, InCall
<1>1. call[p] \in Call /\ call[p].n \in 0..MaxLen /\ buffer \in [1..Max -> Data]
  BY CallFields DEF IInv, TypeInv
<1>2. /\ pc'[p] = "copy" /\ call'[p] = call[p]
      /\ UNCHANGED <<version, fpos, alone, where, file>> /\ InBuffer' = InBuffer
  BY <1>0, LocalEffect
<1>3. SizeInv' /\ StageOk(p)' /\ OffsetOk(p)' /\ WriteOk(p)'
  <2>1. Len(<<>>) = 0
    BY EmptySeq
  <2>2. call[p].len \in 0..MaxLen
    BY CallFields DEF IInv
  <2> QED
    BY <1>0, <1>1, <1>2, <2>1, <2>2 DEF SizeInv, StageOk, OffsetOk, WriteOk
<1>4. ReadOk(p)'
  BY <1>0, <1>2 DEF ReadOk
<1> QED
  BY <1>0, <1>1, <1>3, <1>4, LocalInv DEF Stage

\* procfs3 stores the clamped length, procfs2 the length as it is.
LEMMA WriteSizeInv ==
  ASSUME IInv, NEW p \in Proc, WriteSize(p)
  PROVE  IInv'
<1> DEFINE c == [call[p] EXCEPT !.n = size']
           next == IF version = 3 THEN "copy" ELSE "over"
<1>0. /\ pc[p] = "size" /\ InCall(p) /\ buffer' = buffer /\ Local(p, next, c)
      /\ size' = IF version = 3 THEN Clamp(call[p].len) ELSE call[p].len
      /\ call[p].op = "write" /\ version # 1
      /\ version = 3 /\ alone[p] => call[p].pos = fpos[p]
  BY DEF WriteSize, IInv, StageInv, StageOk, OffsetInv, OffsetOk, InCall
<1>1. /\ call[p] \in Call /\ call[p].len \in 0..MaxLen /\ Clamp(call[p].len) \in 0..MaxLen
      /\ Clamp(call[p].len) <= Max /\ Clamp(call[p].len) <= call[p].len
      /\ version \in 1..3 /\ buffer \in [1..Max -> Data]
  BY CallFields DEF IInv, TypeInv, Clamp, Min2
<1>2. size' \in 0..MaxLen
  BY <1>0, <1>1
<1>3. /\ c \in Call /\ c.op = "write" /\ c.got = call[p].got /\ c.len = call[p].len
      /\ c.pos = call[p].pos /\ c.n = size'
  BY <1>0, <1>1, <1>2 DEF Call
<1> HIDE DEF c
<1>4. /\ pc'[p] = next /\ call'[p] = c /\ UNCHANGED <<version, fpos, alone, where, file>>
  BY <1>0, LocalEffect
<1>5. SizeInv'
  BY <1>0, <1>1, <1>3, <1>4 DEF SizeInv
<1>6. StageOk(p)'
  BY <1>0, <1>1, <1>3, <1>4 DEF StageOk, InCall
<1>7. OffsetOk(p)' /\ WriteOk(p)' /\ ReadOk(p)'
  BY <1>0, <1>1, <1>3, <1>4 DEF OffsetOk, WriteOk, ReadOk
<1> QED
  BY <1>0, <1>1, <1>2, <1>3, <1>5, <1>6, <1>7, LocalInv DEF Stage

\* Whoever else stores in between, a size that exceeds the buffer is that of a
\* write that will still store the length of the buffer.
LEMMA WriteTestInv ==
  ASSUME IInv, NEW p \in Proc, WriteTest(p)
  PROVE  IInv'
<1>1. PICK s \in SizeNow(p) :
        Local(p, IF s > Max THEN "clamp" ELSE "copy", [call[p] EXCEPT !.n = s])
  BY DEF WriteTest
<1> DEFINE c == [call[p] EXCEPT !.n = s]
           next == IF s > Max THEN "clamp" ELSE "copy"
<1>0. /\ pc[p] = "over" /\ InCall(p) /\ buffer' = buffer /\ size' = size /\ Local(p, next, c)
      /\ call[p].op = "write" /\ version = 2
  BY <1>1 DEF WriteTest, static, IInv, StageInv, StageOk, InCall
<1>2. /\ call[p] \in Call /\ s \in 0..MaxLen /\ size \in 0..MaxLen /\ call[p].n \in 0..MaxLen
      /\ buffer \in [1..Max -> Data] /\ s \in {call[p].n, size}
  BY <1>1, CallFields DEF IInv, TypeInv, SizeNow
<1>3. c \in Call /\ c.op = "write" /\ c.got = call[p].got /\ c.len = call[p].len /\ c.n = s
  BY <1>0, <1>2 DEF Call
<1> HIDE DEF c
<1>4. /\ pc'[p] = next /\ call'[p] = c /\ version' = version
      /\ \A q \in Proc \ {p} : pc'[q] = pc[q] /\ call'[q] = call[q]
  BY <1>0, LocalEffect
<1>5. SizeInv'
  <2> SUFFICES ASSUME size > Max
               PROVE  \E q \in Proc : pc'[q] \in {"over", "clamp"} /\ call'[q].n > Max
    BY <1>0, <1>4 DEF SizeInv
  <2>1. PICK q \in Proc : pc[q] \in {"over", "clamp"} /\ call[q].n > Max
    BY DEF IInv, SizeInv
  <2>2. CASE q = p
    BY <1>2, <1>3, <1>4, <2>1, <2>2
  <2>3. CASE q # p
    BY <1>4, <2>1, <2>3
  <2> QED
    BY <2>2, <2>3
<1>6. StageOk(p)' /\ OffsetOk(p)' /\ WriteOk(p)' /\ ReadOk(p)'
  BY <1>0, <1>2, <1>3, <1>4 DEF StageOk, OffsetOk, WriteOk, ReadOk
<1> QED
  BY <1>0, <1>2, <1>3, <1>5, <1>6, LocalInv DEF Stage

LEMMA WriteClampInv ==
  ASSUME IInv, NEW p \in Proc, WriteClamp(p)
  PROVE  IInv'
<1> DEFINE c == [call[p] EXCEPT !.n = Max]
<1>0. /\ pc[p] = "clamp" /\ InCall(p) /\ buffer' = buffer /\ size' = Max
      /\ Local(p, "copy", c)
      /\ version = 2 /\ call[p].op = "write"
  BY DEF WriteClamp, IInv, StageInv, StageOk, InCall
<1>1. call[p] \in Call /\ Max \in 0..MaxLen /\ buffer \in [1..Max -> Data]
  BY <1>0, CallFields DEF IInv, TypeInv, StageInv, StageOk
<1>2. c \in Call /\ c.op = "write" /\ c.got = call[p].got /\ c.len = call[p].len /\ c.n = Max
  BY <1>0, <1>1 DEF Call
<1> HIDE DEF c
<1>3. /\ pc'[p] = "copy" /\ call'[p] = c /\ version' = version
  BY <1>0, LocalEffect
<1>4. SizeInv' /\ StageOk(p)' /\ OffsetOk(p)' /\ WriteOk(p)' /\ ReadOk(p)'
  BY <1>0, <1>1, <1>2, <1>3 DEF SizeInv, StageOk, OffsetOk, WriteOk, ReadOk
<1> QED
  BY <1>0, <1>1, <1>2, <1>4, LocalInv DEF Stage

\* A read delivers the beginning of the buffer, within its bounds.
LEMMA ReadCopyInv ==
  ASSUME IInv, NEW p \in Proc, ReadCopy(p)
  PROVE  IInv'
<1>0. /\ pc[p] = "copy" /\ InCall(p) /\ buffer' = buffer /\ size' = size
      /\ version = 3 /\ call[p].op = "read" /\ call[p].n <= Max
      /\ alone[p] => call[p].pos = 0 /\ where[p] # "data" /\ call[p].n = size
      /\ alone[p] /\ file # Unknown => InBuffer /\ size = Min2(call[p].len, Len(file))
  BY DEF ReadCopy, static, IInv, StageInv, StageOk, OffsetInv, OffsetOk, ReadInv, ReadOk, InCall
<1>1. /\ call[p] \in Call /\ call[p].n \in 0..Max /\ size \in 0..Max /\ size \in 0..MaxLen
      /\ buffer \in [1..Max -> Data] /\ EFAULT \in Nat \cup {EFAULT} /\ EFAULT < 0
  BY <1>0, CallFields, SizeBound DEF IInv, TypeInv, EFAULT
<1>2. PICK l \in SizeNow(p) :
        \/ Local(p, "offset", [call[p] EXCEPT !.got = SubSeq(buffer, 1, l)])
        \/ Local(p, "ret", [call[p] EXCEPT !.ret = EFAULT])
  BY DEF ReadCopy
<1>3. l \in 0..Max /\ (alone[p] => l = size)
  BY <1>0, <1>1, <1>2 DEF SizeNow
<1>4. SubSeq(buffer, 1, l) \in Seq(Data)
  BY <1>3, BufferPrefix DEF IInv
<1>5. CASE Local(p, "offset", [call[p] EXCEPT !.got = SubSeq(buffer, 1, l)])
  <2> DEFINE c == [call[p] EXCEPT !.got = SubSeq(buffer, 1, l)]
  <2>1. /\ c \in Call /\ c.op = "read" /\ c.got = SubSeq(buffer, 1, l)
        /\ c.len = call[p].len /\ c.pos = call[p].pos
    BY <1>0, <1>1, <1>4 DEF Call
  <2>2. Local(p, "offset", c)
    BY <1>5
  <2> HIDE DEF c
  <2>3. /\ pc'[p] = "offset" /\ call'[p] = c
        /\ UNCHANGED <<version, fpos, alone, where, file>> /\ InBuffer' = InBuffer
    BY <1>0, <2>2, LocalEffect
  <2>4. SizeInv' /\ StageOk(p)' /\ OffsetOk(p)' /\ WriteOk(p)'
    BY <1>0, <1>1, <2>1, <2>3 DEF SizeInv, StageOk, OffsetOk, WriteOk
  <2>5. ReadOk(p)'
    <3> SUFFICES ASSUME alone[p], file # Unknown
                 PROVE  /\ InBuffer /\ size = Min2(c.len, Len(file))
                        /\ c.got = SubSeq(file, 1, Min2(c.len, Len(file)))
      BY <1>0, <2>1, <2>3 DEF ReadOk
    <3>1. InBuffer /\ size = Min2(c.len, Len(file)) /\ l = size
      BY <1>0, <1>3, <2>1
    <3>2. Len(file) \in Nat /\ c.len \in Nat
      BY <3>1, LenProperties, CallFields, <2>1 DEF InBuffer, IInv
    <3>3. size \in 0..Len(file)
      BY <1>1, <3>1, <3>2, MinProperties
    <3> QED
      BY <2>1, <3>1, <3>3, FilePrefix DEF IInv
  <2> QED
    BY <1>0, <1>1, <2>1, <2>2, <2>4, <2>5, LocalInv DEF Stage
<1>6. CASE Local(p, "ret", [call[p] EXCEPT !.ret = EFAULT])
  <2> DEFINE c == [call[p] EXCEPT !.ret = EFAULT]
  <2>1. /\ c \in Call /\ c.op = "read" /\ c.got = call[p].got /\ c.ret = EFAULT
        /\ c.len = call[p].len /\ c.pos = call[p].pos
    BY <1>0, <1>1 DEF Call
  <2>2. Local(p, "ret", c)
    BY <1>6
  <2> HIDE DEF c
  <2>3. /\ pc'[p] = "ret" /\ call'[p] = c
        /\ UNCHANGED <<version, fpos, alone, where, file>> /\ InBuffer' = InBuffer
    BY <1>0, <2>2, LocalEffect
  <2>4. SizeInv' /\ StageOk(p)' /\ OffsetOk(p)' /\ WriteOk(p)'
    BY <1>0, <1>1, <2>1, <2>3 DEF SizeInv, StageOk, OffsetOk, WriteOk, EFAULT
  <2>5. ReadOk(p)'
    BY <1>0, <2>1, <2>3 DEF ReadOk
  <2> QED
    BY <1>0, <1>1, <2>1, <2>2, <2>4, <2>5, LocalInv DEF Stage
<1> QED
  BY <1>2, <1>5, <1>6

\* Whatever a copy is told to take, the buffer keeps its cells.
LEMMA FilledType ==
  ASSUME IInv, NEW p \in Proc, NEW k, NEW l
  PROVE  Filled(p, k, l) \in [1..Max -> Data]
<1>1. call[p].byte \in Data /\ 0 \in Data /\ \A i \in 1..Max : buffer[i] \in Data
  BY CallFields DEF IInv, TypeInv, Data
<1> QED
  BY <1>1 DEF Filled

\* A write takes as much as there is room for; what it takes is in the buffer.
LEMMA WriteCopyInv ==
  ASSUME IInv, NEW p \in Proc, WriteCopy(p)
  PROVE  IInv'
<1>0. /\ pc[p] = "copy" /\ InCall(p) /\ size' = size /\ call[p].op = "write"
      /\ version = 3 /\ alone[p] => /\ call[p].pos = fpos[p] /\ call[p].n = size
                                    /\ size = Clamp(call[p].len)
  BY DEF WriteCopy, IInv, StageInv, StageOk, OffsetInv, OffsetOk, WriteInv, WriteOk, InCall
<1>1. /\ call[p] \in Call /\ call[p].n \in 0..MaxLen /\ size \in 0..MaxLen /\ call[p].byte \in Data
      /\ EFAULT \in Nat \cup {EFAULT} /\ 0 \in Data /\ buffer \in [1..Max -> Data]
      /\ version = 3 => size <= Max
  BY CallFields, SizeBound DEF IInv, TypeInv, Data
<1> DEFINE next == IF version = 2 THEN "zero" ELSE "offset"
<1>2. PICK l \in SizeNow(p) :
        \/ /\ buffer' = Filled(p, l, l)
           /\ Local(p, next, [call[p] EXCEPT !.got = [i \in 1..l |-> call[p].byte]])
        \/ /\ buffer' = buffer \/ \E k \in 0..l - 1 : buffer' = Filled(p, k, l)
           /\ Local(p, "ret", [call[p] EXCEPT !.ret = EFAULT])
  BY DEF WriteCopy
<1>3. buffer' \in [1..Max -> Data]
  BY <1>1, <1>2, FilledType
<1>4. SizeInv' /\ version' = version
  <2>1. version' = version /\ \A q \in Proc \ {p} : pc'[q] = pc[q] /\ call'[q] = call[q]
    BY <1>2, LocalEffect
  <2> QED
    BY <1>0, <2>1 DEF IInv, SizeInv
<1>5. l \in 0..MaxLen /\ (version = 3 /\ alone[p] => l = size)
  BY <1>0, <1>1, <1>2 DEF SizeNow
<1>6. CASE /\ buffer' = Filled(p, l, l)
           /\ Local(p, next, [call[p] EXCEPT !.got = [i \in 1..l |-> call[p].byte]])
  <2> DEFINE all == [i \in 1..l |-> call[p].byte]
             c == [call[p] EXCEPT !.got = all]
  <2>1. all \in Seq(Data) /\ Len(all) = l /\ \A i \in 1..l : all[i] = call[p].byte
    BY <1>1, <1>5, SeqOfLength
  <2>2. l <= Max => \A i \in 1..l : buffer'[i] = call[p].byte
    BY <1>5, <1>6 DEF Filled
  <2>3. Local(p, next, c)
    BY <1>6
  <2>4. /\ c \in Call /\ c.op = "write" /\ c.got = all /\ c.len = call[p].len
        /\ c.pos = call[p].pos
    BY <1>0, <1>1, <2>1 DEF Call
  <2> HIDE DEF all, c
  <2>5. /\ pc'[p] = next /\ call'[p] = c /\ next \in {"zero", "offset"}
        /\ next = "zero" <=> version = 2
        /\ UNCHANGED <<version, fpos, alone, where, file>>
    BY <2>3, LocalEffect
  <2> HIDE DEF next
  <2>6. StageOk(p)' /\ OffsetOk(p)' /\ ReadOk(p)'
    BY <1>0, <2>4, <2>5 DEF StageOk, OffsetOk, ReadOk
  <2>7. WriteOk(p)'
    <3> SUFFICES ASSUME version = 3, alone[p]
                 PROVE  /\ size = Clamp(c.len) /\ Len(c.got) = size
                        /\ \A i \in 1..size : c.got[i] = buffer'[i]
      BY <1>0, <2>4, <2>5 DEF WriteOk
    <3> QED
      BY <1>0, <1>1, <1>5, <2>1, <2>2, <2>4
  <2> QED
    BY <1>0, <1>1, <1>3, <1>4, <2>3, <2>4, <2>5, <2>6, <2>7, LocalInv DEF Stage
<1>7. CASE Local(p, "ret", [call[p] EXCEPT !.ret = EFAULT])
  <2> DEFINE c == [call[p] EXCEPT !.ret = EFAULT]
  <2>1. /\ c \in Call /\ c.op = "write" /\ c.got = call[p].got /\ c.ret = EFAULT
        /\ c.len = call[p].len /\ c.pos = call[p].pos
    BY <1>0, <1>1 DEF Call
  <2>2. Local(p, "ret", c)
    BY <1>7
  <2> HIDE DEF c
  <2>3. /\ pc'[p] = "ret" /\ call'[p] = c
        /\ UNCHANGED <<version, fpos, alone, where, file>>
    BY <2>2, LocalEffect
  <2>4. StageOk(p)' /\ OffsetOk(p)' /\ WriteOk(p)' /\ ReadOk(p)'
    BY <1>0, <2>1, <2>3 DEF StageOk, OffsetOk, WriteOk, ReadOk, EFAULT
  <2> QED
    BY <1>0, <1>1, <1>3, <1>4, <2>1, <2>2, <2>4, LocalInv DEF Stage
<1> QED
  BY <1>2, <1>6, <1>7

\* The zero of procfs2; nothing is claimed of what it puts where.
LEMMA PutZeroInv ==
  ASSUME IInv, NEW p \in Proc, PutZero(p)
  PROVE  IInv'
<1> DEFINE c == [call[p] EXCEPT !.n = size]
<1>0. /\ pc[p] = "zero" /\ InCall(p) /\ size' = size /\ Local(p, "offset", c) /\ version = 2
      /\ buffer' = [buffer EXCEPT ![(size % Max) + 1] = 0] /\ call[p].op \in {"read", "write"}
  BY DEF PutZero, IInv, StageInv, StageOk, InCall
<1>1. call[p] \in Call /\ size \in 0..MaxLen /\ buffer' \in [1..Max -> Data]
  BY <1>0, CallFields DEF IInv, TypeInv, Data
<1>2. c \in Call /\ c.op = call[p].op
  BY <1>0, <1>1 DEF Call
<1> HIDE DEF c
<1>3. /\ pc'[p] = "offset" /\ call'[p] = c /\ version' = version
      /\ \A q \in Proc \ {p} : pc'[q] = pc[q] /\ call'[q] = call[q]
  BY <1>0, LocalEffect
<1>4. SizeInv' /\ StageOk(p)'
  BY <1>0, <1>2, <1>3 DEF IInv, SizeInv, StageOk
<1>5. OffsetOk(p)' /\ ReadOk(p)' /\ WriteOk(p)'
  BY <1>0, <1>3 DEF OffsetOk, ReadOk, WriteOk
<1> QED
  BY <1>0, <1>1, <1>2, <1>4, <1>5, LocalInv DEF Stage

\* The size is added to the offset; nobody has changed it if the call is alone.
LEMMA AddOffsetInv ==
  ASSUME IInv, NEW p \in Proc, AddOffset(p)
  PROVE  IInv'
<1>10. PICK s \in IF version = 2 THEN SizeNow(p) ELSE {size} :
        Local(p, "result", [call[p] EXCEPT !.n = s, !.pos = Offset(@ + s)])
  BY DEF AddOffset
<1> DEFINE c == [call[p] EXCEPT !.n = s, !.pos = Offset(call[p].pos + s)]
<1>11. s \in 0..MaxLen /\ (version = 3 => s = size)
  BY <1>10, CallFields DEF SizeNow, IInv, TypeInv
<1>0. /\ pc[p] = "offset" /\ InCall(p) /\ size' = size /\ Local(p, "result", c)
      /\ buffer' = buffer /\ call[p].op \in {"read", "write"}
  BY <1>10 DEF AddOffset, static, IInv, StageInv, StageOk, InCall
<1>1. /\ call[p] \in Call /\ size \in 0..MaxLen /\ Offset(call[p].pos + s) \in 0..HelloLen
      /\ fpos[p] \in 0..HelloLen
  BY <1>11, CallFields DEF IInv, TypeInv, Offset, Min2
<1>2. buffer' \in [1..Max -> Data]
  BY <1>0 DEF IInv, TypeInv
<1>3. /\ c \in Call /\ c.op = call[p].op /\ c.got = call[p].got /\ c.len = call[p].len
      /\ c.pos = Offset(call[p].pos + s) /\ c.n = s
  BY <1>0, <1>1, <1>11 DEF Call
<1> HIDE DEF c
<1>4. /\ pc'[p] = "result" /\ call'[p] = c
      /\ UNCHANGED <<version, fpos, alone, where, file>>
      /\ InBuffer' = InBuffer
      /\ \A q \in Proc \ {p} : pc'[q] = pc[q] /\ call'[q] = call[q]
  BY <1>0, LocalEffect
<1>5. SizeInv' /\ StageOk(p)'
  BY <1>0, <1>3, <1>4 DEF IInv, SizeInv, StageOk
<1>6. OffsetOk(p)'
  <2>1. version = 3 /\ alone[p] => /\ call[p].op = "read" => call[p].pos = 0 /\ where[p] # "data"
                                   /\ call[p].op = "write" => call[p].pos = fpos[p]
    BY <1>0 DEF IInv, OffsetInv, OffsetOk
  <2>2. 0 + size = size
    BY <1>1
  <2> QED
    BY <1>0, <1>3, <1>4, <1>11, <2>1, <2>2 DEF OffsetOk
<1>7. WriteOk(p)' /\ ReadOk(p)'
  BY <1>0, <1>3, <1>4 DEF IInv, WriteInv, WriteOk, ReadInv, ReadOk
<1> QED
  BY <1>0, <1>1, <1>2, <1>3, <1>5, <1>6, <1>7, LocalInv DEF Stage

\* The result is the size, loaded once more or kept.
LEMMA ResultInv ==
  ASSUME IInv, NEW p \in Proc, Result(p)
  PROVE  IInv'
<1>1. PICK r \in {call[p].n, size} :
        Local(p, "ret", [call[p] EXCEPT !.ret = r, !.n = 0, !.byte = 0])
  BY DEF Result, SizeNow
<1> DEFINE c == [call[p] EXCEPT !.ret = r, !.n = 0, !.byte = 0]
<1>0. /\ pc[p] = "result" /\ InCall(p) /\ size' = size /\ buffer' = buffer /\ Local(p, "ret", c)
      /\ call[p].op \in {"read", "write"}
  BY <1>1 DEF Result, static, IInv, StageInv, StageOk, InCall
<1>2. /\ call[p] \in Call /\ size \in 0..MaxLen /\ r \in Nat /\ buffer \in [1..Max -> Data]
      /\ fpos[p] \in 0..HelloLen /\ EFAULT < 0 /\ 0 \in Data /\ 0 \in 0..MaxLen
  BY CallFields DEF IInv, TypeInv, EFAULT, Data
<1>3. /\ c \in Call /\ c.op = call[p].op /\ c.got = call[p].got /\ c.len = call[p].len
      /\ c.pos = call[p].pos /\ c.ret = r
  BY <1>0, <1>2 DEF Call
<1> HIDE DEF c
<1>4. /\ pc'[p] = "ret" /\ call'[p] = c
      /\ UNCHANGED <<version, fpos, alone, where, file>>
      /\ InBuffer' = InBuffer
      /\ \A q \in Proc \ {p} : pc'[q] = pc[q] /\ call'[q] = call[q]
  BY <1>0, LocalEffect
<1>5. SizeInv' /\ StageOk(p)'
  BY <1>0, <1>3, <1>4 DEF IInv, SizeInv, StageOk
<1>6. version = 3 /\ alone[p] => r = size /\ r # EFAULT
  BY <1>0, <1>2 DEF IInv, OffsetInv, OffsetOk
<1>7. OffsetOk(p)'
  <2>1. version = 3 /\ alone[p] =>
          /\ call[p].op = "read" => call[p].pos = Offset(size) /\ where[p] # "data"
          /\ call[p].op = "write" => call[p].pos = Offset(fpos[p] + size)
    BY <1>0 DEF IInv, OffsetInv, OffsetOk
  <2>2. /\ size > 0 => Offset(size) > 0 /\ Offset(fpos[p] + size) > 0
        /\ size = 0 => Offset(size) = 0 /\ Offset(fpos[p] + size) = fpos[p]
    BY <1>2 DEF Offset, Min2
  <2> QED
    BY <1>0, <1>3, <1>4, <1>6, <2>1, <2>2 DEF OffsetOk
<1>8. WriteOk(p)'
  <2> SUFFICES ASSUME version = 3, alone[p], call[p].op = "write"
               PROVE  /\ size = Clamp(c.len) /\ Len(c.got) = size /\ r \in {size, EFAULT}
                      /\ \A k \in 1..size : c.got[k] = buffer[k]
    BY <1>0, <1>3, <1>4 DEF WriteOk
  <2> QED
    BY <1>0, <1>3, <1>6 DEF IInv, WriteInv, WriteOk
<1>9. ReadOk(p)'
  <2>1. version = 3 /\ alone[p] /\ call[p].op = "read" => where[p] # "data"
    BY <1>0 DEF IInv, OffsetInv, OffsetOk
  <2> QED
    BY <1>0, <1>3, <1>4, <1>6, <2>1 DEF IInv, ReadInv, ReadOk
<1> QED
  BY <1>0, <1>2, <1>3, <1>5, <1>7, <1>8, <1>9, LocalInv DEF Stage

\* After a call that was alone the file is known again.
LEMMA ReturnInv ==
  ASSUME IInv, NEW p \in Proc, Return(p)
  PROVE  IInv'
<1>1. /\ UNCHANGED <<version, mod, entry, refcnt, buffer, size, counted>>
      /\ pc[p] = "ret" /\ pc'[p] = "open" /\ InCall(p) /\ ~InCall(p)' /\ ~alone'[p]
      /\ call[p].op \in {"read", "write"}
      /\ file' = FileAfter(p) /\ where'[p] = WhereAfter(p)
      /\ fpos'[p] = IF call[p].ret < 0 THEN fpos[p] ELSE call[p].pos
      /\ \A q \in Proc \ {p} : /\ pc'[q] = pc[q] /\ call'[q] = call[q] /\ fpos'[q] = fpos[q]
                               /\ where'[q] = where[q] /\ alone'[q] = alone[q]
  BY DEF Return, module, static, IInv, TypeInv, StageInv, StageOk, InCall
<1>2. /\ call[p] \in Call /\ call[p].pos \in 0..HelloLen /\ call[p].ret \in Nat \cup {EFAULT}
      /\ EFAULT < 0 /\ EFAULT \notin Nat /\ fpos[p] \in 0..HelloLen /\ call[p].len \in Nat
  BY CallFields DEF IInv, TypeInv, EFAULT
<1>3. \A q \in Proc \ {p} : InCall(q)' = InCall(q) /\ ~alone[q] /\ ~alone'[q]
  BY <1>1 DEF IInv, AloneInv, InCall
<1>4. TypeInv'
  <2>1. WhereAfter(p) \in {"start", "data", "unknown"}
    BY DEF WhereAfter, IInv, TypeInv
  <2>2. /\ fpos' \in [Proc -> 0..HelloLen] /\ call' \in [Proc -> Call]
        /\ where' \in [Proc -> {"start", "data", "unknown"}]
    BY <1>2, <2>1, NoCallType DEF Return, IInv, TypeInv
  <2>3. pc' \in [Proc -> Stage \cup {"user", "opening", "open"}] /\ alone' \in [Proc -> BOOLEAN]
    BY DEF Return, IInv, TypeInv
  <2> QED
    BY <1>1, <2>2, <2>3 DEF IInv, TypeInv
<1>5. LoadInv' /\ CountInv' /\ SizeInv'
  BY <1>1 DEF IInv, LoadInv, CountInv, SizeInv, Counted
<1>6. StageInv'
  <2>1. StageOk(p)'
    BY <1>1 DEF StageOk
  <2> QED
    BY <1>1, <1>3, <2>1 DEF IInv, StageInv, StageOk
<1>7. AloneInv'
  <2>1. \A q \in Proc \ {p} : InCall(q) => ~alone[p]
    BY DEF IInv, AloneInv
  <2>2. ~alone[p] => FileAfter(p) = Unknown
    BY DEF FileAfter
  <2> QED
    BY <1>1, <1>3, <2>1, <2>2 DEF AloneInv
<1>8. QuietInv'
  <2> SUFFICES ASSUME version = 3 PROVE QuietInv'
    BY <1>1 DEF QuietInv
  <2>1. /\ where'[p] = "start" => fpos'[p] = 0
        /\ where'[p] = "data" => fpos'[p] > 0
    <3>1. /\ where[p] = "start" => fpos[p] = 0
          /\ where[p] = "data" => fpos[p] > 0
      BY DEF IInv, QuietInv
    <3>2. alone[p] => /\ call[p].ret > 0 => call[p].pos > 0
                      /\ call[p].ret = 0 /\ call[p].op = "read" => call[p].pos = 0
                      /\ call[p].ret = 0 /\ call[p].op = "write" => call[p].pos = fpos[p]
      BY <1>1 DEF IInv, OffsetInv, OffsetOk
    <3>3. CASE ~alone[p]
      BY <1>1, <3>3 DEF WhereAfter
    <3>4. CASE alone[p] /\ call[p].ret > 0
      <4>1. where'[p] = "data" /\ ~(call[p].ret < 0)
        BY <1>1, <1>2, <3>4 DEF WhereAfter, EFAULT
      <4> QED
        BY <1>1, <3>2, <3>4, <4>1
    <3>5. CASE alone[p] /\ call[p].ret = 0
      <4>1. /\ call[p].op = "read" => where'[p] = "start" /\ fpos'[p] = 0
            /\ call[p].op = "write" => where'[p] = where[p] /\ fpos'[p] = fpos[p]
        BY <1>1, <3>2, <3>5 DEF WhereAfter
      <4> QED
        BY <1>1, <3>1, <4>1
    <3>6. CASE alone[p] /\ call[p].ret = EFAULT
      <4>1. where'[p] = where[p] /\ fpos'[p] = fpos[p]
        BY <1>1, <1>2, <3>6 DEF WhereAfter, EFAULT
      <4> QED
        BY <3>1, <4>1
    <3> QED
      BY <1>2, <3>3, <3>4, <3>5, <3>6
  <2>2. ASSUME file' # Unknown PROVE InBuffer' /\ size = Len(file')
    <3>1. alone[p]
      BY <1>1, <2>2 DEF FileAfter
    <3>2. CASE call[p].op = "write"
      <4>1. call[p].ret # EFAULT /\ file' = call[p].got
        BY <1>1, <2>2, <3>1, <3>2 DEF FileAfter
      <4>2. /\ Len(call[p].got) = size /\ \A k \in 1..size : call[p].got[k] = buffer[k]
            /\ call[p].got \in Seq(Data) /\ size <= Max
        BY <1>1, <3>1, <3>2, <4>1, CallFields, SizeBound DEF IInv, WriteInv, WriteOk
      <4> QED
        BY <1>1, <4>1, <4>2 DEF InBuffer
    <3>3. CASE call[p].op = "read" /\ where[p] = "start"
      <4> DEFINE cut == Min2(call[p].len, Len(file))
      <4>1. file # Unknown /\ file' = SubSeq(file, 1, cut)
        BY <1>1, <2>2, <3>1, <3>3 DEF FileAfter
      <4>2. InBuffer /\ size = cut
        BY <1>1, <3>1, <3>3, <4>1 DEF IInv, ReadInv, ReadOk
      <4>3. Len(file) \in Nat /\ Len(file) <= Max
        BY <4>2, LenProperties DEF InBuffer
      <4>4. cut \in 0..Len(file)
        BY <1>2, <4>3, MinProperties
      <4> HIDE DEF cut
      <4>5. file' \in Seq(Data) /\ Len(file') = cut /\ \A k \in 1..cut : file'[k] = buffer[k]
        BY <4>1, <4>2, <4>4, FilePrefix DEF IInv
      <4> QED
        BY <1>1, <4>2, <4>3, <4>4, <4>5 DEF InBuffer
    <3>4. CASE call[p].op = "read" /\ where[p] # "start"
      <4>1. where[p] = "data" /\ file # Unknown /\ file' = file
        BY <1>1, <2>2, <3>1, <3>4 DEF FileAfter, IInv, TypeInv
      <4>2. InBuffer /\ size = Len(file)
        BY <1>1, <3>1, <3>4, <4>1 DEF IInv, ReadInv, ReadOk
      <4> QED
        BY <1>1, <4>1, <4>2 DEF InBuffer
    <3> QED
      BY <1>1, <3>2, <3>3, <3>4
  <2> QED
    BY <1>1, <2>1, <2>2 DEF IInv, QuietInv
<1>9. OffsetInv' /\ ReadInv' /\ WriteInv'
  BY <1>1, <1>3 DEF OffsetInv, OffsetOk, ReadInv, ReadOk, WriteInv, WriteOk
<1> QED
  BY <1>4, <1>5, <1>6, <1>7, <1>8, <1>9 DEF IInv

-----------------------------------------------------------------------------
(* the theorems *)

LEMMA StepInv == IInv /\ [Next]_vars => IInv'
<1> SUFFICES ASSUME IInv, [Next]_vars PROVE IInv'
  OBVIOUS
<1>1. CASE Loader
  BY <1>1, InsmodInv, LoaderInv, RundownInv DEF Loader
<1>2. ASSUME NEW p \in Proc, OpenStart(p) \/ ProcfsClose(p) \/ Handler(p) PROVE IInv'
  BY <1>2, OutsideInv, HelloReadInv, ReadTestInv, ReadLoadInv, ReadStoreInv, ReadCopyInv,
     WriteSizeInv, WriteTestInv, WriteClampInv, WriteCopyInv, PutZeroInv, AddOffsetInv,
     ResultInv, ReturnInv DEF Handler
<1>3. ASSUME NEW p \in Proc, NEW l \in 0..MaxLen,
             StartCall(p, "read", l, 0) \/ \E b \in Byte : StartCall(p, "write", l, b)
      PROVE  IInv'
  <2>1. 0 \in Data /\ Byte \subseteq Data
    BY DEF Data
  <2> QED
    BY <1>3, <2>1, StartCallInv
<1>4. CASE UNCHANGED vars
  <2>1. /\ UNCHANGED <<version, mod, entry, refcnt, buffer, size, fpos, pc, call, counted,
                       alone, where, file>>
        /\ Counted' = Counted /\ InBuffer' = InBuffer
    BY <1>4 DEF vars, module, static, history, Counted, InBuffer
  <2>2. TypeInv' /\ LoadInv' /\ CountInv'
    BY <2>1 DEF IInv, TypeInv, LoadInv, CountInv
  <2>3. StageInv' /\ SizeInv' /\ AloneInv' /\ QuietInv'
    BY <2>1 DEF IInv, StageInv, StageOk, SizeInv, AloneInv, QuietInv, InCall
  <2>4. OffsetInv' /\ ReadInv' /\ WriteInv'
    BY <2>1 DEF IInv, OffsetInv, OffsetOk, ReadInv, ReadOk, WriteInv, WriteOk
  <2> QED
    BY <2>2, <2>3, <2>4 DEF IInv
<1> QED
  BY <1>1, <1>2, <1>3, <1>4 DEF Next

\* The inductive invariant: where the loader is, who is counted, how far each
\* call is, and what a call that is alone has made of the file.
THEOREM Invariance == Spec => []IInv
BY InitInv, StepInv, PTL DEF Spec

\* Type correctness; the size exceeds the buffer only between the two stores of
\* a write of procfs2 (procfs2.c:49-52).
THEOREM TypeCorrect == Spec => []TypeOK
<1>1. IInv => TypeOK
  BY CallFields DEF IInv, TypeInv, SizeInv, TypeOK, Data
<1> QED
  BY <1>1, Invariance, PTL

\* Whichever call has stored the size last, a copy of procfs3 exceeds neither the
\* buffer nor, if no call overlaps it, its caller's length, and one of procfs2 the
\* buffer only while another write is between its two stores (procfs3.c:33-34,
\* 47-48; procfs2.c:49-55).
THEOREM CopiesInBounds == Spec => []CopyInBounds
<1>1. IInv => CopyInBounds
  <2> SUFFICES ASSUME IInv, NEW p \in Proc, pc[p] = "copy", NEW l \in SizeNow(p)
               PROVE  /\ l > Max =>
                           version = 2 /\ \E q \in Proc \ {p} : pc[q] \in {"over", "clamp"}
                      /\ version = 3 /\ alone[p] => l <= call[p].len
    BY DEF CopyInBounds
  <2>1. call[p].n <= Max /\ (version = 3 => call[p].n <= call[p].len) /\ call[p].n \in Nat
    BY CallFields DEF IInv, StageInv, StageOk
  <2>2. CASE l = call[p].n
    BY <2>1, <2>2
  <2>3. CASE l = size
    <3>1. l > Max => version = 2 /\ \E q \in Proc \ {p} : pc[q] \in {"over", "clamp"}
      BY <2>3 DEF IInv, SizeInv
    <3>2. version = 3 /\ alone[p] => l = call[p].n
      BY <2>3 DEF IInv, OffsetInv, OffsetOk
    <3> QED
      BY <2>1, <3>1, <3>2
  <2> QED
    BY <2>2, <2>3 DEF SizeNow
<1> QED
  BY <1>1, Invariance, PTL

\* To calls that no other call overlaps procfs3 is a file (procfs3.c:25-57).
THEOREM AloneIsAFile == Spec => []UndisturbedCalls
<1>1. IInv => UndisturbedCalls
  <2> SUFFICES ASSUME IInv, NEW p \in Proc, version = 3, pc[p] = "ret", alone[p],
                      call[p].ret # EFAULT
               PROVE  IF call[p].op = "write" THEN call[p].ret = Min2(Max, call[p].len)
                      ELSE /\ where[p] = "data" => call[p].ret = 0
                           /\ where[p] = "start" /\ file # Unknown =>
                                /\ call[p].ret = Min2(call[p].len, Len(file))
                                /\ call[p].got = SubSeq(file, 1, call[p].ret)
    BY DEF UndisturbedCalls
  <2>1. call[p].op \in {"read", "write"}
    BY DEF IInv, StageInv, StageOk, InCall
  <2>2. CASE call[p].op = "write"
    BY <2>2 DEF IInv, WriteInv, WriteOk, Clamp
  <2>3. CASE call[p].op = "read"
    BY <2>3 DEF IInv, OffsetInv, OffsetOk, ReadInv, ReadOk
  <2> QED
    BY <2>1, <2>2, <2>3
<1> QED
  BY <1>1, Invariance, PTL

\* No handler runs in a module that is not loaded, and a counted file keeps the
\* module from going (procfs3.c:59-69, 105-109).
THEOREM ModuleOutlivesHandlers == Spec => []HandlersInModule
<1>1. IInv => HandlersInModule
  BY DEF IInv, TypeInv, LoadInv, CountInv, Counted, HandlersInModule
<1> QED
  BY <1>1, Invariance, PTL
=============================================================================
