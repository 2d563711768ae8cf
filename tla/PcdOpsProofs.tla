---------------------------- MODULE PcdOpsProofs ----------------------------
(***************************************************************************)
(* Type correctness and the safety properties of PcdOps for every number   *)
(* of processes, files and devices, every size and every permission; and   *)
(* that PcdOps implements PcdAtomic: under the inductive invariant the     *)
(* initial states map to initial states of PcdAtomic, the step with which  *)
(* a call acquires the mutex maps to the step with which it takes effect,  *)
(* and the steps of its copy and the one that releases the mutex map to no *)
(* step at all.                                                            *)
(***************************************************************************)
EXTENDS PcdRefinement, TLAPS

\* A call in flight keeps its file open, in a mode that admits the call.
CallInv ==
    \A p \in Proc : InCall(p) =>
        /\ arg[p] \in Arg
        /\ DevOf(p) \in Dev
        /\ arg[p].op \in fmode[arg[p].file]

\* No offset, in a file or in a call, lies past the end of its device.
OffsetInv ==
    /\ \A f \in File : fdev[f] # NoDev => fpos[f] <= Size[fdev[f]]
    /\ \A p \in Proc : InCall(p) => pos[p] <= Size[DevOf(p)]

\* A copy runs under the mutex of its device and inside its buffer.
CopyInv ==
    \A p \in Proc : pc[p] = "copy" =>
        /\ lock[DevOf(p)] = p
        /\ done[p] <= count[p]
        /\ pos[p] + count[p] <= Size[DevOf(p)]

\* A read has delivered as many bytes as it has copied, and a write none.
GotInv ==
    \A p \in Proc :
        /\ pc[p] \in {"idle", "lock"} => done[p] = 0 /\ got[p] = <<>>
        /\ InCall(p) =>
             IF arg[p].op = "read" THEN Len(got[p]) = done[p] ELSE got[p] = <<>>

\* Files are open only in modes that check_permission admits, and nothing was
\* ever stored on a read-only device.
PermInv ==
    /\ \A f \in File : fdev[f] # NoDev => CheckPermission(Perm[fdev[f]], fmode[f]) = 0
    /\ \A d \in Dev : Perm[d] = "RDONLY" =>
         \A k \in 0..Size[d] - 1 : mem[d][k] = Zero

IInv == TypeOK /\ CallInv /\ OffsetInv /\ CopyInv /\ GotInv /\ CopyIsolated /\ PermInv

USE SizeAssumption, PermAssumption, ByteAssumption, CountAssumption, NoneAssumption

LEMMA InitInv == Init => IInv
<1> SUFFICES ASSUME Init PROVE IInv
  OBVIOUS
<1>1. TypeOK
  BY DEF Init, TypeOK, Modes
<1>2. CallInv /\ OffsetInv /\ CopyInv /\ GotInv /\ CopyIsolated
  BY DEF Init, CallInv, OffsetInv, CopyInv, GotInv, CopyIsolated, InCall
<1>3. PermInv
  BY DEF Init, PermInv
<1> QED
  BY <1>1, <1>2, <1>3 DEF IInv

LEMMA PcdOpenInv ==
  ASSUME IInv, NEW f \in File, NEW d \in Dev, NEW mode \in OpenModes, PcdOpen(f, d, mode)
  PROVE  IInv'
<1> USE DEF PcdOpen, locals
<1>0. fdev[f] = NoDev /\ mode \in SUBSET Modes
  BY DEF OpenModes, Modes
<1>1. TypeOK'
  BY <1>0 DEF IInv, TypeOK
<1>2. \A p \in Proc : InCall(p) => arg[p].file # f /\ DevOf(p)' = DevOf(p)
  BY <1>0 DEF IInv, CallInv, TypeOK, DevOf, Arg
<1>3. CallInv'
  BY <1>2 DEF IInv, CallInv, TypeOK, InCall, Arg
<1>4. OffsetInv'
  BY <1>2 DEF IInv, OffsetInv, TypeOK, InCall
<1>5. CopyInv' /\ GotInv' /\ CopyIsolated'
  BY <1>2 DEF IInv, CopyInv, GotInv, CopyIsolated, InCall
<1>6. PermInv'
  BY <1>0 DEF IInv, PermInv, TypeOK
<1> QED
  BY <1>1, <1>3, <1>4, <1>5, <1>6 DEF IInv

LEMMA PcdReleaseInv ==
  ASSUME IInv, NEW f \in File, PcdRelease(f)
  PROVE  IInv'
<1> USE DEF PcdRelease, locals
<1>1. TypeOK'
  BY DEF IInv, TypeOK
<1>2. \A p \in Proc : InCall(p) => DevOf(p)' = DevOf(p)
  BY DEF IInv, CallInv, TypeOK, DevOf, Arg
<1>3. CallInv'
  BY <1>2 DEF IInv, CallInv, TypeOK, InCall, Arg
<1>4. OffsetInv'
  BY <1>2 DEF IInv, OffsetInv, TypeOK, InCall
<1>5. CopyInv' /\ GotInv' /\ CopyIsolated'
  BY <1>2 DEF IInv, CopyInv, GotInv, CopyIsolated, InCall
<1>6. PermInv'
  BY DEF IInv, PermInv, TypeOK
<1> QED
  BY <1>1, <1>3, <1>4, <1>5, <1>6 DEF IInv

LEMMA CallStepInv ==
  ASSUME IInv, NEW p \in Proc, NEW op \in Modes, NEW f \in File, NEW n \in 0..MaxCount,
         NEW limit \in 0..n, NEW b \in Byte, Call(p, op, f, n, limit, b)
  PROVE  IInv'
<1> DEFINE a == [op |-> op, file |-> f, n |-> n, limit |-> limit, byte |-> b]
<1>a. a \in Arg
  BY DEF Arg
<1>b. /\ ~InCall(p) /\ fdev[f] # NoDev /\ op \in fmode[f]
      /\ pc' = [pc EXCEPT ![p] = "lock"]
      /\ arg' = [arg EXCEPT ![p] = a]
      /\ pos' = [pos EXCEPT ![p] = fpos[f]]
      /\ UNCHANGED <<mem, lock, files, count, done, got, ret>>
  BY DEF Call
<1>c. arg'[p].file = f /\ arg'[p].op = op /\ DevOf(p)' = fdev[f]
  BY <1>b DEF IInv, TypeOK, DevOf, files
<1>d. \A q \in Proc \ {p} : DevOf(q)' = DevOf(q) /\ InCall(q)' = InCall(q) /\ arg'[q] = arg[q]
  BY <1>b DEF IInv, TypeOK, DevOf, files, InCall
<1> HIDE DEF a
<1>1. TypeOK'
  BY <1>a, <1>b DEF IInv, TypeOK, files
<1>2. CallInv'
  <2> SUFFICES ASSUME NEW q \in Proc, InCall(q)'
               PROVE  (arg[q] \in Arg /\ DevOf(q) \in Dev /\ arg[q].op \in fmode[arg[q].file])'
    BY DEF CallInv
  <2>1. CASE q = p
    <3>1. arg'[p] = a
      BY <1>b DEF IInv, TypeOK
    <3>2. DevOf(p)' \in Dev /\ fmode' = fmode
      BY <1>b, <1>c DEF IInv, TypeOK, files
    <3> QED
      BY <1>a, <1>b, <1>c, <2>1, <3>1, <3>2
  <2>2. CASE q # p
    <3>1. arg'[q] = arg[q] /\ DevOf(q)' = DevOf(q) /\ InCall(q)
      BY <1>d, <2>2
    <3>2. fmode' = fmode
      BY <1>b DEF files
    <3> QED
      BY <3>1, <3>2 DEF IInv, CallInv
  <2> QED
    BY <2>1, <2>2
<1>3. OffsetInv'
  BY <1>b, <1>c, <1>d DEF IInv, OffsetInv, TypeOK, files
<1>4. CopyInv'
  BY <1>b, <1>d DEF IInv, CopyInv, TypeOK
<1>5. GotInv'
  BY <1>b, <1>c, <1>d DEF IInv, GotInv, TypeOK, InCall
<1>6. CopyIsolated'
  <2> SUFFICES ASSUME NEW q \in Proc, pc'[q] = "copy"
               PROVE  (pc[q] = "copy" => \A i \in 0..done[q] - 1 :
                         mem[DevOf(q)][pos[q] + i] =
                           IF arg[q].op = "read" THEN got[q][i + 1] ELSE arg[q].byte)'
    BY DEF CopyIsolated
  <2>1. q # p /\ pc[q] = "copy" /\ pos'[q] = pos[q]
    BY <1>b DEF IInv, TypeOK
  <2> QED
    BY <1>b, <1>d, <2>1 DEF IInv, CopyIsolated
<1>7. PermInv'
  BY <1>b DEF IInv, PermInv, files
<1> QED
  BY <1>1, <1>2, <1>3, <1>4, <1>5, <1>6, <1>7 DEF IInv

\* The clamped count never reaches past the end, and never exceeds the request.
LEMMA ClampBounds ==
  ASSUME IInv, NEW p \in Proc, InCall(p)
  PROVE  /\ Clamped(p) \in 0..arg[p].n
         /\ Clamped(p) \in 0..MaxCount
         /\ pos[p] + Clamped(p) <= Size[DevOf(p)]
<1>1. arg[p].n \in 0..MaxCount /\ Size[DevOf(p)] \in Nat
  BY DEF IInv, CallInv, Arg
<1>2. pos[p] \in Nat /\ pos[p] <= Size[DevOf(p)]
  BY DEF IInv, TypeOK, OffsetInv
<1> QED
  BY <1>1, <1>2 DEF Clamped, Clamp

\* Another process is never copying on the device whose mutex p holds.
LEMMA Exclusion ==
  ASSUME IInv, NEW p \in Proc, NEW q \in Proc \ {p}, pc[q] = "copy",
         \/ lock[DevOf(p)] = p
         \/ lock[DevOf(p)] = NoProc
  PROVE  DevOf(q) # DevOf(p)
BY DEF IInv, CopyInv

\* The actions of a call leave the files alone and change the call of p only.
CallStep(p) ==
    /\ UNCHANGED <<files, arg>>
    /\ pc[p] # "idle"
    /\ \E x \in {"copy", "ret"} : pc' = [pc EXCEPT ![p] = x]

LEMMA CallStepCallInv ==
  ASSUME IInv, NEW p \in Proc, CallStep(p)
  PROVE  /\ CallInv'
         /\ \A q \in Proc : DevOf(q)' = DevOf(q) /\ InCall(q)' = InCall(q)
         /\ pc'[p] # "idle" /\ \A q \in Proc \ {p} : pc'[q] = pc[q]
<1>1. \A q \in Proc : DevOf(q)' = DevOf(q)
  BY DEF CallStep, DevOf, files
<1>2. pc'[p] # "idle" /\ \A q \in Proc \ {p} : pc'[q] = pc[q]
  BY DEF CallStep, IInv, TypeOK
<1>3. \A q \in Proc : InCall(q)' = InCall(q)
  BY <1>2 DEF CallStep, InCall
<1>4. CallInv'
  BY <1>1, <1>3 DEF IInv, CallInv, CallStep, files
<1> QED
  BY <1>1, <1>2, <1>3, <1>4

\* Acquiring the mutex and clamping the count, in a read or in a write.
LEMMA EnterInv ==
  ASSUME IInv, NEW p \in Proc, ReadEnter(p) \/ WriteEnter(p)
  PROVE  IInv'
<1>a. /\ pc[p] = "lock" /\ InCall(p)
      /\ lock[DevOf(p)] = NoProc
      /\ lock' = [lock EXCEPT ![DevOf(p)] = p]
      /\ count' = [count EXCEPT ![p] = Clamped(p)]
      /\ pc' = [pc EXCEPT ![p] = "copy"]
      /\ UNCHANGED <<mem, files, arg, pos, done, got, ret>>
  BY DEF ReadEnter, WriteEnter, MutexLock, InCall
<1>b. CallStep(p)
  BY <1>a DEF CallStep
<1>c. /\ CallInv'
      /\ \A q \in Proc : DevOf(q)' = DevOf(q) /\ InCall(q)' = InCall(q)
      /\ pc'[p] # "idle" /\ \A q \in Proc \ {p} : pc'[q] = pc[q]
  BY <1>b, CallStepCallInv
<1>d. /\ Clamped(p) \in 0..MaxCount
      /\ pos[p] + Clamped(p) <= Size[DevOf(p)]
  BY <1>a, ClampBounds
<1>e. DevOf(p) \in Dev /\ done[p] = 0 /\ got[p] = <<>>
  BY <1>a DEF IInv, CallInv, GotInv
<1>f. \A q \in Proc \ {p} : pc[q] = "copy" => DevOf(q) # DevOf(p)
  BY <1>a, Exclusion
<1>1. TypeOK'
  BY <1>a, <1>d, <1>e DEF IInv, TypeOK, files
<1>2. OffsetInv'
  BY <1>a, <1>c DEF IInv, OffsetInv, files
<1>3. CopyInv'
  <2> SUFFICES ASSUME NEW q \in Proc, pc'[q] = "copy"
               PROVE  /\ lock'[DevOf(q)] = q
                      /\ done'[q] <= count'[q]
                      /\ pos'[q] + count'[q] <= Size[DevOf(q)]
    BY <1>c DEF CopyInv
  <2>1. CASE q = p
    BY <2>1, <1>a, <1>d, <1>e DEF IInv, TypeOK
  <2>2. CASE q # p
    BY <2>2, <1>a, <1>c, <1>f DEF IInv, CopyInv, TypeOK
  <2> QED
    BY <2>1, <2>2
<1>4. GotInv'
  BY <1>a, <1>c DEF IInv, GotInv
<1>5. CopyIsolated'
  <2> SUFFICES ASSUME NEW q \in Proc, pc'[q] = "copy", NEW i \in 0..done[q] - 1
               PROVE  mem[DevOf(q)][pos[q] + i] =
                        IF arg[q].op = "read" THEN got[q][i + 1] ELSE arg[q].byte
    BY <1>a, <1>c DEF CopyIsolated
  <2>1. q # p
    BY <1>e
  <2> QED
    BY <2>1, <1>c DEF IInv, CopyIsolated
<1>6. PermInv'
  BY <1>a DEF IInv, PermInv, files
<1> QED
  BY <1>1, <1>2, <1>3, <1>4, <1>5, <1>6, <1>c DEF IInv

\* The error returns and the success path leave the copy of p; they change the
\* device, if at all, in cells no other copy works on.
LEMMA LeaveInv ==
  ASSUME IInv, NEW p \in Proc, pc' = [pc EXCEPT ![p] = "ret"], pc[p] # "idle",
         UNCHANGED <<files, arg, count, done, got>>,
         \A q \in Proc \ {p} :
           /\ pos'[q] = pos[q]
           /\ pc[q] = "copy" => /\ lock'[DevOf(q)] = lock[DevOf(q)]
                                /\ mem'[DevOf(q)] = mem[DevOf(q)],
         pos'[p] <= Size[DevOf(p)],
         pc[p] = "lock" => done[p] = 0 /\ got[p] = <<>>
  PROVE  CallInv' /\ OffsetInv' /\ CopyInv' /\ GotInv' /\ CopyIsolated'
<1>b. CallStep(p)
  BY DEF CallStep
<1>c. /\ CallInv'
      /\ \A q \in Proc : DevOf(q)' = DevOf(q) /\ InCall(q)' = InCall(q)
      /\ pc'[p] = "ret" /\ \A q \in Proc \ {p} : pc'[q] = pc[q]
  BY <1>b, CallStepCallInv DEF IInv, TypeOK
<1>1. OffsetInv'
  BY <1>c DEF IInv, OffsetInv, files
<1>2. CopyInv'
  BY <1>c DEF IInv, CopyInv
<1>3. GotInv'
  BY <1>c DEF IInv, GotInv, InCall
<1>4. CopyIsolated'
  <2> SUFFICES ASSUME NEW q \in Proc, pc'[q] = "copy", NEW i \in 0..done[q] - 1
               PROVE  mem'[DevOf(q)][pos'[q] + i] =
                        IF arg[q].op = "read" THEN got[q][i + 1] ELSE arg[q].byte
    BY <1>c DEF CopyIsolated
  <2>1. q # p /\ pc[q] = "copy"
    BY <1>c
  <2> QED
    BY <2>1 DEF IInv, CopyIsolated
<1> QED
  BY <1>1, <1>2, <1>3, <1>4, <1>c

LEMMA WriteNoSpaceInv ==
  ASSUME IInv, NEW p \in Proc, WriteNoSpace(p)
  PROVE  IInv'
<1>a. /\ pc[p] = "lock" /\ InCall(p)
      /\ lock[DevOf(p)] = NoProc
      /\ lock' = [lock EXCEPT ![DevOf(p)] = p]
      /\ ret' = [ret EXCEPT ![p] = ENOMEM]
      /\ pc' = [pc EXCEPT ![p] = "ret"]
      /\ UNCHANGED <<mem, files, arg, pos, count, done, got>>
  BY DEF WriteNoSpace, MutexLock, InCall
<1>b. DevOf(p) \in Dev /\ done[p] = 0 /\ got[p] = <<>> /\ pos[p] <= Size[DevOf(p)]
  BY <1>a DEF IInv, CallInv, GotInv, OffsetInv
<1>c. \A q \in Proc \ {p} : pc[q] = "copy" => DevOf(q) # DevOf(p)
  BY <1>a, Exclusion
<1>d. \A q \in Proc \ {p} : pc[q] = "copy" => lock'[DevOf(q)] = lock[DevOf(q)]
  BY <1>a, <1>c DEF IInv, TypeOK, CallInv, InCall
<1>1. TypeOK'
  BY <1>a, <1>b DEF IInv, TypeOK, files, ENOMEM
<1>2. CallInv' /\ OffsetInv' /\ CopyInv' /\ GotInv' /\ CopyIsolated'
  BY <1>a, <1>b, <1>d, LeaveInv
<1>3. PermInv'
  BY <1>a DEF IInv, PermInv, files
<1> QED
  BY <1>1, <1>2, <1>3 DEF IInv

LEMMA FinishInv ==
  ASSUME IInv, NEW p \in Proc, NEW op \in Modes, Finish(p, op)
  PROVE  IInv'
<1>a. /\ pc[p] = "copy" /\ InCall(p)
      /\ lock' = [lock EXCEPT ![DevOf(p)] = NoProc]
      /\ pos' = [pos EXCEPT ![p] = @ + count[p]]
      /\ ret' = [ret EXCEPT ![p] = count[p]]
      /\ pc' = [pc EXCEPT ![p] = "ret"]
      /\ UNCHANGED <<mem, files, arg, count, done, got>>
  BY DEF Finish, MutexUnlock, InCall
<1>b. /\ DevOf(p) \in Dev /\ lock[DevOf(p)] = p
      /\ pos[p] + count[p] <= Size[DevOf(p)]
  BY <1>a DEF IInv, CallInv, CopyInv
<1>c. \A q \in Proc \ {p} : pc[q] = "copy" => DevOf(q) # DevOf(p)
  BY <1>b, Exclusion
<1>d. \A q \in Proc \ {p} : pos'[q] = pos[q] /\
          (pc[q] = "copy" => lock'[DevOf(q)] = lock[DevOf(q)])
  BY <1>a, <1>c DEF IInv, TypeOK, CallInv, InCall
<1>1. TypeOK'
  BY <1>a, <1>b DEF IInv, TypeOK, files
<1>2. pos'[p] <= Size[DevOf(p)]
  BY <1>a, <1>b DEF IInv, TypeOK
<1>3. CallInv' /\ OffsetInv' /\ CopyInv' /\ GotInv' /\ CopyIsolated'
  BY <1>a, <1>d, <1>2, LeaveInv
<1>4. PermInv'
  BY <1>a DEF IInv, PermInv, files
<1> QED
  BY <1>1, <1>3, <1>4 DEF IInv

LEMMA ReadFaultInv ==
  ASSUME IInv, NEW p \in Proc, ReadFault(p)
  PROVE  IInv'
<1>a. /\ pc[p] = "copy" /\ InCall(p)
      /\ ret' = [ret EXCEPT ![p] = EFAULT]
      /\ pc' = [pc EXCEPT ![p] = "ret"]
      /\ UNCHANGED <<mem, lock, files, arg, pos, count, done, got>>
  BY DEF ReadFault, Fault, InCall
<1>1. TypeOK'
  BY <1>a DEF IInv, TypeOK, files, EFAULT
<1>2. pos[p] <= Size[DevOf(p)]
  BY <1>a DEF IInv, OffsetInv
<1>3. CallInv' /\ OffsetInv' /\ CopyInv' /\ GotInv' /\ CopyIsolated'
  BY <1>a, <1>2, LeaveInv
<1>4. PermInv'
  BY <1>a DEF IInv, PermInv, files
<1> QED
  BY <1>1, <1>3, <1>4 DEF IInv

\* No write is ever in flight on a read-only device.
LEMMA WritesAreAdmitted ==
  ASSUME IInv, NEW p \in Proc, InCall(p), arg[p].op = "write"
  PROVE  Perm[DevOf(p)] # "RDONLY"
<1>1. /\ arg[p].file \in File /\ DevOf(p) \in Dev
      /\ "write" \in fmode[arg[p].file]
  BY DEF IInv, CallInv, Arg
<1>2. CheckPermission(Perm[DevOf(p)], fmode[arg[p].file]) = 0
  BY <1>1 DEF IInv, PermInv, DevOf
<1> QED
  BY <1>1, <1>2 DEF CheckPermission, EPERM

LEMMA WriteFaultInv ==
  ASSUME IInv, NEW p \in Proc, WriteFault(p)
  PROVE  IInv'
<1> DEFINE d == DevOf(p)
           cells == [k \in DOMAIN mem[d] |->
                       IF k \in (pos[p] + done[p])..(pos[p] + count[p] - 1)
                       THEN Zero ELSE mem[d][k]]
<1>a. /\ pc[p] = "copy" /\ InCall(p) /\ arg[p].op = "write"
      /\ ret' = [ret EXCEPT ![p] = EFAULT]
      /\ pc' = [pc EXCEPT ![p] = "ret"]
      /\ mem' = [mem EXCEPT ![d] = cells]
      /\ UNCHANGED <<lock, files, arg, pos, count, done, got>>
  BY DEF WriteFault, Fault, InCall
<1>b. d \in Dev /\ lock[d] = p /\ pos[p] <= Size[d]
  BY <1>a DEF IInv, CallInv, CopyInv, OffsetInv
<1>c. \A q \in Proc \ {p} : pc[q] = "copy" => mem'[DevOf(q)] = mem[DevOf(q)]
  BY <1>a, <1>b, Exclusion DEF IInv, TypeOK, CallInv, InCall
<1>d. cells \in [0..Size[d] - 1 -> Byte]
  BY <1>b DEF IInv, TypeOK
<1> HIDE DEF d, cells
<1>1. TypeOK'
  <2>1. DOMAIN mem' = Dev /\ \A e \in Dev : mem'[e] \in [0..Size[e] - 1 -> Byte]
    BY <1>a, <1>b, <1>d DEF IInv, TypeOK
  <2> QED
    BY <1>a, <2>1 DEF IInv, TypeOK, files, EFAULT
<1>2. CallInv' /\ OffsetInv' /\ CopyInv' /\ GotInv' /\ CopyIsolated'
  BY <1>a, <1>b, <1>c, LeaveInv DEF d
<1>3. PermInv'
  <2>1. Perm[d] # "RDONLY"
    BY <1>a, WritesAreAdmitted DEF d
  <2> QED
    BY <1>a, <1>b, <2>1 DEF IInv, PermInv, TypeOK, files
<1> QED
  BY <1>1, <1>2, <1>3 DEF IInv

LEMMA ReadByteInv ==
  ASSUME IInv, NEW p \in Proc, ReadByte(p)
  PROVE  IInv'
<1> DEFINE b == mem[DevOf(p)][pos[p] + done[p]]
<1>a. /\ pc[p] = "copy" /\ InCall(p) /\ arg[p].op = "read" /\ done[p] < count[p]
      /\ got' = [got EXCEPT ![p] = Append(got[p], b)]
      /\ done' = [done EXCEPT ![p] = @ + 1]
      /\ UNCHANGED <<mem, lock, files, pc, arg, pos, count, ret>>
  BY DEF ReadByte, Copying, InCall
<1>b. /\ DevOf(p) \in Dev /\ pos[p] + count[p] <= Size[DevOf(p)]
      /\ Len(got[p]) = done[p] /\ done[p] \in Nat /\ count[p] \in Nat
      /\ pos[p] \in Nat /\ got[p] \in Seq(Byte)
  BY <1>a DEF IInv, TypeOK, CallInv, CopyInv, GotInv
<1>c. b \in Byte
  <2>1. pos[p] + done[p] \in 0..Size[DevOf(p)] - 1
    BY <1>a, <1>b
  <2>2. mem[DevOf(p)] \in [0..Size[DevOf(p)] - 1 -> Byte]
    BY <1>b DEF IInv, TypeOK
  <2> QED
    BY <2>1, <2>2
<1>d. /\ done'[p] = done[p] + 1 /\ got'[p] = Append(got[p], b)
      /\ \A q \in Proc \ {p} : done'[q] = done[q] /\ got'[q] = got[q]
      /\ \A q \in Proc : DevOf(q)' = DevOf(q) /\ InCall(q)' = InCall(q)
  BY <1>a DEF IInv, TypeOK, DevOf, InCall, files
<1> HIDE DEF b
<1>1. TypeOK'
  BY <1>a, <1>b, <1>c DEF IInv, TypeOK, files
<1>2. CallInv' /\ OffsetInv'
  BY <1>a, <1>d DEF IInv, CallInv, OffsetInv, files
<1>3. CopyInv'
  BY <1>a, <1>b, <1>d DEF IInv, CopyInv
<1>4. GotInv'
  BY <1>a, <1>b, <1>c, <1>d DEF IInv, GotInv
<1>5. CopyIsolated'
  <2>a. UNCHANGED <<mem, pc, arg, pos>>
    BY <1>a
  <2> SUFFICES ASSUME NEW q \in Proc, pc[q] = "copy", NEW i \in 0..done'[q] - 1
               PROVE  mem[DevOf(q)][pos[q] + i] =
                        IF arg[q].op = "read" THEN got'[q][i + 1] ELSE arg[q].byte
    BY <2>a, <1>d DEF CopyIsolated
  <2>1. CASE q # p
    BY <2>1, <1>d DEF IInv, CopyIsolated
  <2>2. CASE q = p /\ i < done[p]
    <3>1. got'[p][i + 1] = got[p][i + 1]
      BY <2>2, <1>b, <1>c, <1>d
    <3>2. i \in 0..done[p] - 1
      BY <2>2, <1>b
    <3>3. mem[DevOf(p)][pos[p] + i] = got[p][i + 1]
      BY <3>2, <1>a DEF IInv, CopyIsolated
    <3> QED
      BY <2>2, <3>1, <3>3, <1>a
  <2>3. CASE q = p /\ i = done[p]
    BY <2>3, <1>a, <1>b, <1>c, <1>d DEF b
  <2> QED
    BY <2>1, <2>2, <2>3, <1>b, <1>d
<1>6. PermInv'
  BY <1>a DEF IInv, PermInv, files
<1> QED
  BY <1>1, <1>2, <1>3, <1>4, <1>5, <1>6 DEF IInv

LEMMA WriteByteInv ==
  ASSUME IInv, NEW p \in Proc, WriteByte(p)
  PROVE  IInv'
<1> DEFINE d == DevOf(p)
           k == pos[p] + done[p]
<1>a. /\ pc[p] = "copy" /\ InCall(p) /\ arg[p].op = "write" /\ done[p] < count[p]
      /\ mem' = [mem EXCEPT ![d] = [mem[d] EXCEPT ![k] = arg[p].byte]]
      /\ done' = [done EXCEPT ![p] = @ + 1]
      /\ UNCHANGED <<lock, files, pc, arg, pos, count, got, ret>>
  BY DEF WriteByte, Copying, InCall
<1>b. /\ d \in Dev /\ lock[d] = p /\ arg[p].byte \in Byte
      /\ pos[p] + count[p] <= Size[d] /\ Size[d] \in Nat
      /\ done[p] \in Nat /\ count[p] \in Nat /\ pos[p] \in Nat
  BY <1>a DEF IInv, TypeOK, CallInv, CopyInv, Arg
<1>c. /\ done'[p] = done[p] + 1
      /\ \A q \in Proc \ {p} : done'[q] = done[q]
      /\ \A q \in Proc : DevOf(q)' = DevOf(q) /\ InCall(q)' = InCall(q)
  BY <1>a DEF IInv, TypeOK, DevOf, InCall, files
<1>d. \A q \in Proc \ {p} : pc[q] = "copy" => mem'[DevOf(q)] = mem[DevOf(q)]
  BY <1>a, <1>b, Exclusion DEF IInv, TypeOK, CallInv, InCall
<1>e. /\ mem'[d][k] = arg[p].byte
      /\ \A i \in 0..Size[d] - 1 : i # k => mem'[d][i] = mem[d][i]
      /\ DOMAIN mem' = Dev
      /\ \A e \in Dev : mem'[e] \in [0..Size[e] - 1 -> Byte]
  BY <1>a, <1>b DEF IInv, TypeOK
<1>1. TypeOK'
  <2>1. done' \in [Proc -> Nat]
    BY <1>a, <1>b DEF IInv, TypeOK
  <2>2. UNCHANGED <<lock, fdev, fmode, fpos, pc, arg, pos, count, got, ret>>
    BY <1>a DEF files
  <2> QED
    BY <1>e, <2>1, <2>2 DEF IInv, TypeOK
<1>2. CallInv' /\ OffsetInv'
  BY <1>a, <1>c DEF IInv, CallInv, OffsetInv, files
<1>3. CopyInv'
  BY <1>a, <1>b, <1>c DEF IInv, CopyInv
<1>4. GotInv'
  BY <1>a, <1>c DEF IInv, GotInv
<1>5. CopyIsolated'
  <2> SUFFICES ASSUME NEW q \in Proc, pc[q] = "copy", NEW i \in 0..done'[q] - 1
               PROVE  mem'[DevOf(q)][pos[q] + i] =
                        IF arg[q].op = "read" THEN got[q][i + 1] ELSE arg[q].byte
    BY <1>a, <1>c DEF CopyIsolated
  <2>1. CASE q # p
    BY <2>1, <1>c, <1>d DEF IInv, CopyIsolated
  <2>2. CASE q = p /\ i < done[p]
    <3>1. mem[d][pos[p] + i] = arg[p].byte
      BY <2>2, <1>a, <1>b DEF IInv, CopyIsolated
    <3>2. pos[p] + i \in 0..Size[d] - 1 /\ pos[p] + i # k
      BY <2>2, <1>a, <1>b
    <3> QED
      BY <2>2, <3>1, <3>2, <1>a, <1>e
  <2>3. CASE q = p /\ i = done[p]
    BY <2>3, <1>a, <1>e
  <2> QED
    BY <2>1, <2>2, <2>3, <1>b, <1>c
<1>6. PermInv'
  <2>1. Perm[d] # "RDONLY"
    BY <1>a, WritesAreAdmitted
  <2> QED
    BY <1>a, <1>b, <2>1 DEF IInv, PermInv, TypeOK, files
<1> QED
  BY <1>1, <1>2, <1>3, <1>4, <1>5, <1>6 DEF IInv

LEMMA ReturnInv ==
  ASSUME IInv, NEW p \in Proc, Return(p)
  PROVE  IInv'
<1> DEFINE f == arg[p].file
<1>a. pc[p] = "ret" /\ InCall(p) /\ f \in File /\ fdev[f] = DevOf(p)
  BY DEF Return, InCall, IInv, CallInv, Arg, DevOf
<1>b. /\ pc' = [pc EXCEPT ![p] = "idle"]
      /\ arg' = [arg EXCEPT ![p] = NoArg]
      /\ pos' = [pos EXCEPT ![p] = 0]
      /\ count' = [count EXCEPT ![p] = 0]
      /\ done' = [done EXCEPT ![p] = 0]
      /\ got' = [got EXCEPT ![p] = <<>>]
      /\ ret' = [ret EXCEPT ![p] = 0]
      /\ fpos' = IF ret[p] < 0 THEN fpos ELSE [fpos EXCEPT ![f] = pos[p]]
      /\ UNCHANGED <<mem, lock, fdev, fmode>>
  BY DEF Return
<1>c. \A q \in Proc \ {p} : arg'[q] = arg[q] /\ DevOf(q)' = DevOf(q) /\ pc'[q] = pc[q]
  BY <1>b DEF IInv, TypeOK, DevOf
<1>d. ~InCall(p)' /\ pc'[p] = "idle"
  BY <1>b DEF InCall, IInv, TypeOK
<1>e. pos[p] \in Nat /\ pos[p] <= Size[fdev[f]]
  BY <1>a DEF IInv, TypeOK, OffsetInv
<1> HIDE DEF f
<1>1. TypeOK'
  <2>1. fpos' \in [File -> Nat]
    BY <1>a, <1>b, <1>e DEF IInv, TypeOK
  <2>2. <<>> \in Seq(Byte)
    OBVIOUS
  <2> QED
    BY <1>b, <2>1, <2>2 DEF IInv, TypeOK
<1>2. CallInv'
  BY <1>b, <1>c, <1>d DEF IInv, CallInv, InCall
<1>3. OffsetInv'
  <2>1. \A g \in File : fdev'[g] # NoDev => fpos'[g] <= Size[fdev'[g]]
    BY <1>b, <1>a, <1>e DEF IInv, OffsetInv, TypeOK
  <2>2. \A q \in Proc : InCall(q)' => pos'[q] <= Size[DevOf(q)']
    BY <1>b, <1>c, <1>d DEF IInv, OffsetInv, InCall, TypeOK
  <2> QED
    BY <2>1, <2>2 DEF OffsetInv
<1>4. CopyInv'
  BY <1>b, <1>c, <1>d DEF IInv, CopyInv, TypeOK
<1>5. GotInv'
  BY <1>b, <1>c, <1>d DEF IInv, GotInv, InCall, TypeOK
<1>6. CopyIsolated'
  <2> SUFFICES ASSUME NEW q \in Proc, pc'[q] = "copy", NEW i \in 0..done'[q] - 1
               PROVE  mem[DevOf(q)'][pos'[q] + i] =
                        IF arg'[q].op = "read" THEN got'[q][i + 1] ELSE arg'[q].byte
    BY <1>b DEF CopyIsolated
  <2>1. q # p /\ pc[q] = "copy" /\ pos'[q] = pos[q] /\ done'[q] = done[q] /\ got'[q] = got[q]
    BY <1>b, <1>c, <1>d DEF IInv, TypeOK
  <2> QED
    BY <1>c, <2>1 DEF IInv, CopyIsolated
<1>7. PermInv'
  BY <1>b DEF IInv, PermInv
<1> QED
  BY <1>1, <1>2, <1>3, <1>4, <1>5, <1>6, <1>7 DEF IInv

LEMMA StepInv == IInv /\ [Next]_vars => IInv'
<1> SUFFICES ASSUME IInv, [Next]_vars PROVE IInv'
  OBVIOUS
<1>1. ASSUME NEW f \in File, NEW d \in Dev, NEW mode \in OpenModes, PcdOpen(f, d, mode)
      PROVE  IInv'
  BY <1>1, PcdOpenInv
<1>2. ASSUME NEW f \in File, PcdRelease(f) PROVE IInv'
  BY <1>2, PcdReleaseInv
<1>3. ASSUME NEW p \in Proc, NEW op \in Modes, NEW f \in File, NEW n \in 0..MaxCount,
             NEW limit \in 0..n, NEW b \in Payload(op), Call(p, op, f, n, limit, b)
      PROVE  IInv'
  <2>1. b \in Byte
    BY DEF Payload
  <2> QED
    BY <1>3, <2>1, CallStepInv
<1>4. ASSUME NEW p \in Proc, Enter(p) PROVE IInv'
  BY <1>4, EnterInv, WriteNoSpaceInv DEF Enter
<1>5. ASSUME NEW p \in Proc, Step(p) PROVE IInv'
  <2>1. CASE ReadByte(p)
    BY <2>1, ReadByteInv
  <2>2. CASE ReadFault(p)
    BY <2>2, ReadFaultInv
  <2>3. CASE ReadDone(p)
    BY <2>3, FinishInv DEF ReadDone, Modes
  <2>4. CASE WriteByte(p)
    BY <2>4, WriteByteInv
  <2>5. CASE WriteFault(p)
    BY <2>5, WriteFaultInv
  <2>6. CASE WriteDone(p)
    BY <2>6, FinishInv DEF WriteDone, Modes
  <2>7. CASE Return(p)
    BY <2>7, ReturnInv
  <2> QED
    BY <1>5, <2>1, <2>2, <2>3, <2>4, <2>5, <2>6, <2>7 DEF Step
<1>6. CASE UNCHANGED vars
  <2>1. /\ UNCHANGED <<mem, lock, fdev, fmode, fpos, pc, arg, pos, count, done, got, ret>>
        /\ \A p \in Proc : DevOf(p)' = DevOf(p) /\ InCall(p)' = InCall(p)
    BY <1>6 DEF vars, DevOf, InCall
  <2>2. TypeOK' /\ CallInv' /\ OffsetInv'
    BY <2>1 DEF IInv, TypeOK, CallInv, OffsetInv
  <2>3. CopyInv' /\ GotInv' /\ PermInv'
    BY <2>1 DEF IInv, CopyInv, GotInv, PermInv
  <2>4. CopyIsolated'
    BY <2>1 DEF IInv, CopyIsolated
  <2> QED
    BY <2>2, <2>3, <2>4 DEF IInv
<1> QED
  BY <1>1, <1>2, <1>3, <1>4, <1>5, <1>6 DEF Next

\* The inductive invariant holds throughout: every call in flight works on an
\* open file, inside the bounds of its device and, while it copies, under its mutex.
THEOREM Invariance == Spec => []IInv
BY InitInv, StepInv, PTL DEF Spec

\* Type correctness: in particular the clamped count never goes negative and no
\* buffer changes its length (pcd_n.c:222-224, 251-253).
THEOREM TypeCorrect == Spec => []TypeOK
<1>1. IInv => TypeOK
  BY DEF IInv
<1> QED
  BY <1>1, Invariance, PTL

\* No call gets between the bytes of another call's copy, for any number of
\* processes and files (pcd_n.c:214-235, 249-269 under pcdev_lock).
THEOREM CopiesAreIsolated == Spec => []CopyIsolated
<1>1. IInv => CopyIsolated
  BY DEF IInv
<1> QED
  BY <1>1, Invariance, PTL

\* Every copy stays inside the buffer of its device, whatever stale offsets the
\* calls that share a file store back (pcd_n.c:222-226, 251-260).
THEOREM CopiesInBounds == Spec => []CopyInBounds
<1>1. IInv => CopyInBounds
  BY DEF IInv, OffsetInv, CopyInv, CopyInBounds
<1> QED
  BY <1>1, Invariance, PTL

\* check_permission is enough: a read-only device never changes and a
\* write-only one never delivers a byte (pcd_n.c:274-289).
THEOREM PermissionsHold == Spec => []PermissionRespected
<1>1. IInv => PermissionRespected
  <2> SUFFICES ASSUME IInv, NEW d \in Dev
               PROVE  /\ Perm[d] = "RDONLY" => \A k \in 0..Size[d] - 1 : mem[d][k] = Zero
                      /\ Perm[d] = "WRONLY" =>
                            \A p \in Proc : InCall(p) /\ DevOf(p) = d => got[p] = <<>>
    BY DEF PermissionRespected
  <2>1. ASSUME Perm[d] = "WRONLY", NEW p \in Proc, InCall(p), DevOf(p) = d
        PROVE  got[p] = <<>>
    <3>1. /\ arg[p].file \in File /\ fdev[arg[p].file] = d
          /\ arg[p].op \in fmode[arg[p].file]
      BY <2>1 DEF IInv, CallInv, Arg, DevOf
    <3>2. CheckPermission(Perm[d], fmode[arg[p].file]) = 0
      BY <3>1 DEF IInv, PermInv, TypeOK
    <3>3. arg[p].op # "read"
      BY <2>1, <3>1, <3>2 DEF CheckPermission, EPERM
    <3> QED
      BY <2>1, <3>3 DEF IInv, GotInv
  <2> QED
    BY <2>1 DEF IInv, PermInv
<1> QED
  BY <1>1, Invariance, PTL

-----------------------------------------------------------------------------
(* the refinement *)

\* A copy stops at the end of what is mapped.
LimitInv == \A p \in Proc : pc[p] = "copy" => done[p] <= arg[p].limit

RInv == IInv /\ LimitInv

LEMMA LimitInit == Init => LimitInv
  BY DEF Init, LimitInv

LEMMA LimitStep == IInv /\ LimitInv /\ [Next]_vars => LimitInv'
<1> SUFFICES ASSUME IInv, LimitInv, [Next]_vars PROVE LimitInv'
  OBVIOUS
<1> USE DEF LimitInv
<1>1. CASE UNCHANGED vars
  BY <1>1 DEF vars
<1>2. ASSUME NEW f \in File, NEW d \in Dev, NEW mode \in OpenModes, PcdOpen(f, d, mode)
      PROVE  LimitInv'
  BY <1>2 DEF PcdOpen, locals
<1>3. ASSUME NEW f \in File, PcdRelease(f) PROVE LimitInv'
  BY <1>3 DEF PcdRelease, locals
<1>4. ASSUME NEW p \in Proc, NEW op \in Modes, NEW f \in File, NEW n \in 0..MaxCount,
             NEW limit \in 0..n, NEW b, Call(p, op, f, n, limit, b)
      PROVE  LimitInv'
  <2>1. pc'[p] = "lock" /\ \A q \in Proc \ {p} : pc'[q] = pc[q] /\ arg'[q] = arg[q]
    BY <1>4 DEF Call, IInv, TypeOK
  <2> QED
    BY <1>4, <2>1 DEF Call
<1>5. ASSUME NEW p \in Proc, ReadEnter(p) \/ WriteEnter(p) \/ WriteNoSpace(p)
      PROVE  LimitInv'
  <2>1. pc[p] = "lock" /\ done' = done /\ arg' = arg /\ \A q \in Proc \ {p} : pc'[q] = pc[q]
    BY <1>5 DEF ReadEnter, WriteEnter, WriteNoSpace, IInv, TypeOK
  <2>2. done[p] = 0 /\ arg[p].limit >= 0
    BY <2>1 DEF IInv, GotInv, CallInv, InCall, Arg
  <2> QED
    BY <2>1, <2>2
<1>6. ASSUME NEW p \in Proc, ReadByte(p) \/ WriteByte(p) PROVE LimitInv'
  <2>1. /\ done[p] < arg[p].limit /\ done' = [done EXCEPT ![p] = @ + 1]
        /\ arg' = arg /\ pc' = pc /\ pc[p] = "copy"
    BY <1>6 DEF ReadByte, WriteByte, Copying
  <2>2. done[p] \in Nat /\ arg[p].limit \in Nat /\ done \in [Proc -> Nat]
    BY <2>1 DEF IInv, TypeOK, CallInv, InCall, Arg
  <2>3. done'[p] <= arg'[p].limit /\ \A q \in Proc \ {p} : done'[q] = done[q]
    BY <2>1, <2>2
  <2> QED
    BY <2>1, <2>3
<1>7. ASSUME NEW p \in Proc,
             ReadFault(p) \/ ReadDone(p) \/ WriteFault(p) \/ WriteDone(p) \/ Return(p)
      PROVE  LimitInv'
  <2>1. /\ pc'[p] # "copy"
        /\ \A q \in Proc \ {p} : pc'[q] = pc[q] /\ arg'[q] = arg[q] /\ done'[q] = done[q]
    BY <1>7 DEF ReadFault, ReadDone, WriteFault, WriteDone, Return, Fault, Finish, IInv, TypeOK
  <2> QED
    BY <2>1
<1> QED
  BY <1>1, <1>2, <1>3, <1>4, <1>5, <1>6, <1>7 DEF Next, Enter, Step

-----------------------------------------------------------------------------
(* initial states, and the part of a request that is served *)

LEMMA InitMap == Init => Atomic!Init
<1> SUFFICES ASSUME Init PROVE Atomic!Init
  OBVIOUS
<1>1. MemBar = [d \in Dev |-> [k \in 0..Size[d] - 1 |-> Zero]]
  BY DEF Init, MemBar
<1>2. [d \in Dev |-> Wedged(d)] = [d \in Dev |-> FALSE]
  BY DEF Init, Wedged
<1>3. StBar = [p \in Proc |-> "idle"]
  BY DEF Init, StBar
<1>4. PosBar = [p \in Proc |-> 0] /\ RetBar = [p \in Proc |-> 0]
  BY DEF Init, PosBar, RetBar
<1>5. GotBar = [p \in Proc |-> <<>>]
  BY DEF Init, GotBar, InCopy
<1> QED
  BY <1>1, <1>2, <1>3, <1>4, <1>5 DEF Init, Atomic!Init

\* The clamp of pcd_read and pcd_write gives the largest count that fits.
LEMMA RoomIsClamped ==
  ASSUME IInv, NEW p \in Proc, pc[p] = "lock"
  PROVE  Atomic!Room(p) = Clamped(p)
<1>0. InCall(p)
  BY DEF InCall
<1>1. arg[p].n \in 0..MaxCount /\ DevOf(p) \in Dev /\ Size[DevOf(p)] \in Nat
  <2>1. arg[p] \in Arg /\ DevOf(p) \in Dev
    BY <1>0 DEF IInv, CallInv
  <2> QED
    BY <2>1 DEF Arg
<1>2. pos[p] \in Nat /\ pos[p] <= Size[DevOf(p)]
  BY <1>0 DEF IInv, TypeOK, OffsetInv
<1>3. PosBar[p] = pos[p] /\ Atomic!DevOf(p) = DevOf(p)
  BY DEF PosBar, Atomic!DevOf, DevOf
<1> DEFINE c == Clamped(p)
           S == {m \in 0..arg[p].n : pos[p] + m <= Size[DevOf(p)]}
<1>4. c \in S /\ \A m \in S : c >= m
  BY <1>1, <1>2 DEF Clamped, Clamp
<1>5. \A x \in S : (\A m \in S : x >= m) => x = c
  BY <1>1, <1>2, <1>4
<1>6. Atomic!Room(p) = Atomic!Max(S)
  BY <1>3 DEF Atomic!Room
<1> HIDE DEF c, S
<1>7. Atomic!Max(S) = c
  BY <1>4, <1>5 DEF Atomic!Max
<1> QED
  BY <1>6, <1>7 DEF c

-----------------------------------------------------------------------------
(* the abstract state in terms of the concrete one *)

\* A free device is as it is, and not wedged.
LEMMA FreeDevice ==
  ASSUME NEW d \in Dev, lock[d] = NoProc
  PROVE  ~Wedged(d) /\ MemBar[d] = [k \in DOMAIN mem[d] |-> mem[d][k]]
BY DEF Wedged, MemBar

\* A device whose holder is not copying on it is as it is, and wedged.
LEMMA WedgedDevice ==
  ASSUME NEW d \in Dev, NEW p \in Proc, lock[d] = p, pc[p] = "copy" => DevOf(p) # d
  PROVE  Wedged(d) /\ MemBar[d] = [k \in DOMAIN mem[d] |-> mem[d][k]]
<1>1. p # NoProc
  BY NoneAssumption
<1>2. Pending(p, d) = {}
  BY DEF Pending, InCopy
<1> QED
  BY <1>1, <1>2 DEF Wedged, MemBar

\* A buffer is a function on its cells.
LEMMA MemIsFunction ==
  ASSUME IInv, NEW d \in Dev
  PROVE  mem[d] = [k \in 0..Size[d] - 1 |-> mem[d][k]] /\ DOMAIN mem[d] = 0..Size[d] - 1
BY DEF IInv, TypeOK

\* The other processes stay where they are, and what they read stays as it is.
OthersStay(p) ==
    \A q \in Proc \ {p} :
        /\ pc'[q] = pc[q] /\ arg'[q] = arg[q] /\ pos'[q] = pos[q] /\ count'[q] = count[q]
        /\ done'[q] = done[q] /\ got'[q] = got[q] /\ ret'[q] = ret[q]
        /\ pc[q] = "copy" => DevOf(q)' = DevOf(q) /\ mem'[DevOf(q)] = mem[DevOf(q)]

\* Then the abstract calls of the others stay as they are.
LEMMA OtherCalls ==
  ASSUME NEW p \in Proc, OthersStay(p)
  PROVE  /\ StBar' = [StBar EXCEPT ![p] = StBar'[p]]
         /\ PosBar' = [PosBar EXCEPT ![p] = PosBar'[p]]
         /\ GotBar' = [GotBar EXCEPT ![p] = GotBar'[p]]
         /\ RetBar' = [RetBar EXCEPT ![p] = RetBar'[p]]
<1>1. ASSUME NEW q \in Proc \ {p}
      PROVE  StBar'[q] = StBar[q] /\ PosBar'[q] = PosBar[q] /\ RetBar'[q] = RetBar[q]
  BY DEF OthersStay, StBar, PosBar, RetBar, WillFault
<1>2. ASSUME NEW q \in Proc \ {p}
      PROVE  GotBar'[q] = GotBar[q]
  <2>1. CASE pc[q] = "copy"
    <3>1. /\ pc'[q] = pc[q] /\ arg'[q] = arg[q] /\ pos'[q] = pos[q]
          /\ count'[q] = count[q] /\ got'[q] = got[q]
      BY DEF OthersStay
    <3>2. DevOf(q)' = DevOf(q) /\ mem'[DevOf(q)] = mem[DevOf(q)]
      BY <2>1 DEF OthersStay
    <3>3. mem'[DevOf(q)'] = mem[DevOf(q)]
      BY <3>2, Zenon
    <3>4. Reach(q)' = Reach(q)
      BY <3>1 DEF Reach, WillFault
    <3>5. InCopy(q, "read")' = InCopy(q, "read")
      BY <3>1 DEF InCopy
    <3>6. [i \in 1..Reach(q) |-> mem[DevOf(q)][pos[q] + i - 1]]'
            = [i \in 1..Reach(q) |-> mem[DevOf(q)][pos[q] + i - 1]]
      BY <3>1, <3>3, <3>4, Zenon
    <3> QED
      BY <3>1, <3>5, <3>6, Zenon DEF GotBar
  <2>2. CASE pc[q] # "copy"
    BY <2>2 DEF OthersStay, GotBar, InCopy
  <2> QED
    BY <2>1, <2>2
<1>3. StBar' = [StBar EXCEPT ![p] = StBar'[p]]
  BY <1>1 DEF StBar
<1>4. PosBar' = [PosBar EXCEPT ![p] = PosBar'[p]]
  BY <1>1 DEF PosBar
<1>5. RetBar' = [RetBar EXCEPT ![p] = RetBar'[p]]
  BY <1>1 DEF RetBar
<1>6. GotBar' = [GotBar EXCEPT ![p] = GotBar'[p]]
  BY <1>2 DEF GotBar
<1> QED
  BY <1>3, <1>4, <1>5, <1>6

\* So do the devices that p does not hold.
LEMMA OtherDevices ==
  ASSUME IInv, NEW p \in Proc, OthersStay(p),
         NEW d \in Dev, lock'[d] = lock[d], mem'[d] = mem[d],
         lock[d] = p => \/ pc[p] # "copy" /\ pc'[p] # "copy"
                        \/ pc[p] # "copy" /\ DevOf(p)' # d
                        \/ pc'[p] # "copy" /\ DevOf(p) # d
                        \/ DevOf(p) # d /\ DevOf(p)' # d
  PROVE  Wedged(d)' = Wedged(d) /\ MemBar'[d] = MemBar[d]
<1>1. CASE lock[d] = NoProc
  BY <1>1 DEF Wedged, MemBar
<1>2. CASE lock[d] = p
  <2>1. p # NoProc
    BY NoneAssumption
  <2>2. Pending(p, d) = {} /\ Pending(p, d)' = {}
    BY <1>2 DEF Pending, InCopy
  <2>3. Wedged(d)' /\ Wedged(d)
    BY <1>2, <2>1 DEF Wedged
  <2>4. MemBar'[d] = MemBar[d]
    BY <1>2, <2>1, <2>2 DEF MemBar
  <2> QED
    BY <2>3, <2>4
<1>3. ASSUME NEW q \in Proc \ {p}, lock[d] = q
      PROVE  Wedged(d)' = Wedged(d) /\ MemBar'[d] = MemBar[d]
  <2>1. /\ q # NoProc /\ lock'[d] = q
        /\ pc'[q] = pc[q] /\ arg'[q] = arg[q] /\ pos'[q] = pos[q] /\ count'[q] = count[q]
        /\ done'[q] = done[q] /\ (pc[q] = "copy" => DevOf(q)' = DevOf(q))
    BY <1>3, NoneAssumption DEF OthersStay
  <2>2. Pending(q, d)' = Pending(q, d) /\ Reach(q)' = Reach(q)
    BY <2>1 DEF Pending, InCopy, Reach, WillFault
  <2>3. Wedged(d)' = Wedged(d)
    BY <1>3, <2>1 DEF Wedged
  <2>4. MemBar'[d] = MemBar[d]
    BY <1>3, <2>1, <2>2 DEF MemBar
  <2> QED
    BY <2>3, <2>4
<1> QED
  BY <1>1, <1>2, <1>3 DEF IInv, TypeOK

-----------------------------------------------------------------------------
(* the steps that change no device *)

LEMMA OpenMap ==
  ASSUME IInv, NEW f \in File, NEW d \in Dev, NEW mode \in OpenModes, PcdOpen(f, d, mode)
  PROVE  Atomic!Open(f, d, mode)
<1> USE DEF PcdOpen, locals
<1>1. \A p \in Proc : pc[p] = "copy" => DevOf(p)' = DevOf(p)
  <2>1. \A p \in Proc : InCall(p) => arg[p].file # f /\ DevOf(p)' = DevOf(p)
    BY DEF IInv, CallInv, TypeOK, DevOf, Arg
  <2> QED
    BY <2>1 DEF InCall
<1>2. MemBar' = MemBar /\ [e \in Dev |-> Wedged(e)]' = [e \in Dev |-> Wedged(e)]
  <2> SUFFICES ASSUME NEW e \in Dev
               PROVE  Wedged(e)' = Wedged(e) /\ MemBar'[e] = MemBar[e]
    BY DEF MemBar
  <2>1. CASE lock[e] = NoProc
    BY <2>1 DEF Wedged, MemBar
  <2>2. ASSUME NEW p \in Proc, lock[e] = p
        PROVE  Wedged(e)' = Wedged(e) /\ MemBar'[e] = MemBar[e]
    <3>1. Pending(p, e)' = Pending(p, e) /\ Reach(p)' = Reach(p)
      BY <1>1 DEF Pending, InCopy, Reach, WillFault
    <3> QED
      BY <1>1, <2>2, <3>1 DEF Wedged, MemBar
  <2> QED
    BY <2>1, <2>2 DEF IInv, TypeOK
<1>3. StBar' = StBar /\ PosBar' = PosBar /\ RetBar' = RetBar
  BY DEF StBar, PosBar, RetBar, WillFault
<1>4. GotBar' = GotBar
  BY <1>1 DEF GotBar, InCopy, Reach, WillFault
<1> QED
  BY <1>2, <1>3, <1>4 DEF Atomic!Open, Atomic!call

LEMMA ReleaseMap ==
  ASSUME IInv, NEW f \in File, PcdRelease(f)
  PROVE  Atomic!Close(f)
<1> USE DEF PcdRelease, locals
<1>1. \A p \in Proc : pc[p] = "copy" => DevOf(p)' = DevOf(p)
  BY DEF IInv, CallInv, TypeOK, DevOf, Arg, InCall
<1>2. MemBar' = MemBar /\ [e \in Dev |-> Wedged(e)]' = [e \in Dev |-> Wedged(e)]
  <2> SUFFICES ASSUME NEW e \in Dev
               PROVE  Wedged(e)' = Wedged(e) /\ MemBar'[e] = MemBar[e]
    BY DEF MemBar
  <2>1. CASE lock[e] = NoProc
    BY <2>1 DEF Wedged, MemBar
  <2>2. ASSUME NEW p \in Proc, lock[e] = p
        PROVE  Wedged(e)' = Wedged(e) /\ MemBar'[e] = MemBar[e]
    <3>1. Pending(p, e)' = Pending(p, e) /\ Reach(p)' = Reach(p)
      BY <1>1 DEF Pending, InCopy, Reach, WillFault
    <3> QED
      BY <1>1, <2>2, <3>1 DEF Wedged, MemBar
  <2> QED
    BY <2>1, <2>2 DEF IInv, TypeOK
<1>3. StBar' = StBar /\ PosBar' = PosBar /\ RetBar' = RetBar
  BY DEF StBar, PosBar, RetBar, WillFault
<1>4. GotBar' = GotBar
  BY <1>1 DEF GotBar, InCopy, Reach, WillFault
<1>5. \A p \in Proc : StBar[p] # "idle" => arg[p].file # f
  BY DEF StBar, InCall
<1> QED
  BY <1>2, <1>3, <1>4, <1>5 DEF Atomic!Close, Atomic!call

LEMMA CallMap ==
  ASSUME IInv, NEW p \in Proc, NEW op \in Modes, NEW f \in File, NEW n \in 0..MaxCount,
         NEW limit \in 0..n, NEW b \in Byte, Call(p, op, f, n, limit, b)
  PROVE  Atomic!Call(p)
<1>1. /\ pc[p] = "idle" /\ fdev[f] # NoDev /\ op \in fmode[f]
      /\ pc' = [pc EXCEPT ![p] = "lock"]
      /\ arg' = [arg EXCEPT ![p] =
                   [op |-> op, file |-> f, n |-> n, limit |-> limit, byte |-> b]]
      /\ pos' = [pos EXCEPT ![p] = fpos[f]]
      /\ UNCHANGED <<mem, lock, fdev, fmode, fpos, count, done, got, ret>>
  BY DEF Call, InCall, files
<1>2. OthersStay(p)
  BY <1>1 DEF OthersStay, IInv, TypeOK, DevOf
<1>3. pc'[p] = "lock" /\ pos'[p] = fpos[f]
  BY <1>1 DEF IInv, TypeOK
<1>4. MemBar' = MemBar /\ [e \in Dev |-> Wedged(e)]' = [e \in Dev |-> Wedged(e)]
  <2>1. \A e \in Dev : Wedged(e)' = Wedged(e) /\ MemBar'[e] = MemBar[e]
    BY <1>1, <1>2, <1>3, OtherDevices
  <2> QED
    BY <2>1 DEF MemBar
<1>5. /\ StBar[p] = "idle" /\ StBar'[p] = "called"
      /\ PosBar'[p] = fpos[f] /\ GotBar'[p] = GotBar[p] /\ RetBar'[p] = RetBar[p]
  BY <1>1, <1>3 DEF StBar, PosBar, GotBar, RetBar, InCopy
<1>6. /\ StBar' = [StBar EXCEPT ![p] = "called"] /\ PosBar' = [PosBar EXCEPT ![p] = fpos[f]]
      /\ GotBar' = [GotBar EXCEPT ![p] = GotBar[p]]
      /\ RetBar' = [RetBar EXCEPT ![p] = RetBar[p]]
  BY <1>2, <1>5, OtherCalls
<1>7. GotBar' = GotBar /\ RetBar' = RetBar
  BY <1>6 DEF GotBar, RetBar
<1> DEFINE Made(o, g, m, x, l) ==
             /\ fdev[g] # NoDev
             /\ o \in fmode[g]
             /\ arg' = [arg EXCEPT ![p] = [op |-> o, file |-> g, n |-> m, limit |-> l, byte |-> x]]
             /\ PosBar' = [PosBar EXCEPT ![p] = fpos[g]]
<1>8. Made(op, f, n, b, limit) /\ op \in Atomic!Modes
  BY <1>1, <1>6 DEF Atomic!Modes, Modes
<1> HIDE DEF Made
<1>9. \E o \in Atomic!Modes, g \in File, m \in 0..MaxCount, x \in Byte : \E l \in 0..m :
        Made(o, g, m, x, l)
  BY <1>8
<1> QED
  BY <1>1, <1>4, <1>5, <1>6, <1>7, <1>9 DEF Atomic!Call, Made

LEMMA ReturnMap ==
  ASSUME IInv, NEW p \in Proc, Return(p)
  PROVE  Atomic!Return(p)
<1>1. /\ pc[p] = "ret"
      /\ fpos' = IF ret[p] < 0 THEN fpos ELSE [fpos EXCEPT ![arg[p].file] = pos[p]]
      /\ pc' = [pc EXCEPT ![p] = "idle"]
      /\ arg' = [arg EXCEPT ![p] = NoArg]
      /\ pos' = [pos EXCEPT ![p] = 0]
      /\ count' = [count EXCEPT ![p] = 0]
      /\ done' = [done EXCEPT ![p] = 0]
      /\ got' = [got EXCEPT ![p] = <<>>]
      /\ ret' = [ret EXCEPT ![p] = 0]
      /\ UNCHANGED <<mem, lock, fdev, fmode>>
  BY DEF Return
<1>2. OthersStay(p)
  BY <1>1 DEF OthersStay, IInv, TypeOK, DevOf
<1>3. pc'[p] = "idle" /\ pos'[p] = 0 /\ got'[p] = <<>> /\ ret'[p] = 0
  BY <1>1 DEF IInv, TypeOK
<1>4. MemBar' = MemBar /\ [e \in Dev |-> Wedged(e)]' = [e \in Dev |-> Wedged(e)]
  <2>1. \A e \in Dev : Wedged(e)' = Wedged(e) /\ MemBar'[e] = MemBar[e]
    BY <1>1, <1>2, <1>3, OtherDevices
  <2> QED
    BY <2>1 DEF MemBar
<1>5. /\ StBar[p] = "done" /\ StBar'[p] = "idle"
      /\ PosBar[p] = pos[p] /\ PosBar'[p] = 0 /\ GotBar'[p] = <<>>
      /\ RetBar[p] = ret[p] /\ RetBar'[p] = 0
  BY <1>1, <1>3 DEF StBar, PosBar, GotBar, RetBar, InCopy
<1>6. /\ StBar' = [StBar EXCEPT ![p] = "idle"] /\ PosBar' = [PosBar EXCEPT ![p] = 0]
      /\ GotBar' = [GotBar EXCEPT ![p] = <<>>] /\ RetBar' = [RetBar EXCEPT ![p] = 0]
  BY <1>2, <1>5, OtherCalls
<1> QED
  BY <1>1, <1>4, <1>5, <1>6 DEF Atomic!Return

-----------------------------------------------------------------------------
(* the steps that acquire the mutex *)

\* Acquiring the mutex disturbs neither another call nor another device.
LEMMA AcquireBars ==
  ASSUME IInv, NEW p \in Proc, NEW d \in Dev, DevOf(p) = d, pc[p] = "lock", MutexLock(p),
         NEW label \in {"copy", "ret"}, pc' = [pc EXCEPT ![p] = label],
         \A q \in Proc \ {p} : count'[q] = count[q] /\ ret'[q] = ret[q],
         UNCHANGED <<mem, files, arg, pos, done, got>>
  PROVE  /\ OthersStay(p) /\ pc'[p] = label /\ DevOf(p)' = d
         /\ lock[d] = NoProc /\ lock'[d] = p
         /\ \A e \in Dev \ {d} : Wedged(e)' = Wedged(e) /\ MemBar'[e] = MemBar[e]
<1>1. DevOf(p)' = d
  BY DEF DevOf, files
<1>2. /\ lock[d] = NoProc /\ lock'[d] = p
      /\ \A e \in Dev \ {d} : lock'[e] = lock[e]
  BY DEF MutexLock, IInv, TypeOK
<1>3. pc'[p] = label /\ \A q \in Proc \ {p} : pc'[q] = pc[q]
  BY DEF IInv, TypeOK
<1>4. OthersStay(p)
  BY <1>3 DEF OthersStay, DevOf, files
<1>5. \A e \in Dev \ {d} : Wedged(e)' = Wedged(e) /\ MemBar'[e] = MemBar[e]
  BY <1>1, <1>2, <1>4, OtherDevices
<1> QED
  BY <1>1, <1>2, <1>3, <1>4, <1>5

\* What is wedged changes at the device of a call that returns r.
LEMMA AtDevice ==
  ASSUME NEW d \in Dev, NEW r, Wedged(d)' <=> r < 0,
         \A e \in Dev \ {d} : Wedged(e)' = Wedged(e)
  PROVE  [e \in Dev |-> Wedged(e)]' = [[e \in Dev |-> Wedged(e)] EXCEPT ![d] = r < 0]
<1>1. Wedged(d)' \in BOOLEAN
  BY DEF Wedged
<1>2. Wedged(d)' = (r < 0)
  BY <1>1
<1> QED
  BY <1>2

\* The read of the device happens when the mutex is acquired.
LEMMA ReadEnterMap ==
  ASSUME IInv, NEW p \in Proc, NEW d \in Dev, DevOf(p) = d, ReadEnter(p)
  PROVE  Atomic!ReadEffect(p)
<1> DEFINE n == Atomic!Room(p)
           m == IF arg[p].limit < n THEN arg[p].limit ELSE n
           r == IF m < n THEN EFAULT ELSE n
<1>0. n = Clamped(p)
  BY RoomIsClamped DEF ReadEnter
<1> HIDE DEF n
<1>1. /\ pc[p] = "lock" /\ arg[p].op = "read" /\ MutexLock(p)
      /\ count' = [count EXCEPT ![p] = n]
      /\ pc' = [pc EXCEPT ![p] = "copy"]
      /\ UNCHANGED <<mem, files, arg, pos, done, got, ret>>
      /\ \A q \in Proc \ {p} : count'[q] = count[q]
  BY <1>0 DEF ReadEnter, IInv, TypeOK
<1>2. /\ OthersStay(p) /\ pc'[p] = "copy" /\ DevOf(p)' = d
      /\ lock[d] = NoProc /\ lock'[d] = p
      /\ \A e \in Dev \ {d} : Wedged(e)' = Wedged(e) /\ MemBar'[e] = MemBar[e]
  BY <1>1, AcquireBars
<1>3. /\ InCall(p) /\ n \in 0..arg[p].n /\ arg[p] \in Arg /\ arg[p].limit \in Nat
      /\ n \in Nat /\ m \in Nat /\ count'[p] = n
  <2>1. InCall(p)
    BY <1>1 DEF InCall
  <2>2. n \in 0..arg[p].n /\ n \in 0..MaxCount
    BY <1>0, <2>1, ClampBounds
  <2>3. arg[p] \in Arg
    BY <2>1 DEF IInv, CallInv
  <2>4. count'[p] = n
    BY <1>1, <2>2 DEF IInv, TypeOK
  <2> QED
    BY <2>1, <2>2, <2>3, <2>4 DEF Arg
<1>4. arg[p] # NoArg /\ Atomic!DevOf(p) = d
  BY <1>3 DEF Atomic!DevOf, DevOf
<1>5. /\ WillFault(p)' <=> (m < n)
      /\ Reach(p)' = m
      /\ (r < 0) <=> (m < n)
  BY <1>1, <1>2, <1>3 DEF WillFault, Reach, EFAULT
<1>6. /\ StBar[p] = "called" /\ StBar'[p] = "done" /\ PosBar[p] = pos[p]
      /\ PosBar'[p] = IF r < 0 THEN pos[p] ELSE pos[p] + r
      /\ RetBar'[p] = r
  BY <1>1, <1>2, <1>3, <1>5 DEF StBar, PosBar, RetBar
<1>7. MemBar[d] = mem[d] /\ MemBar'[d] = mem[d]
  <2>1. MemBar[d] = [k \in DOMAIN mem[d] |-> mem[d][k]]
    BY <1>2, FreeDevice
  <2>2. Pending(p, d)' = {}
    BY <1>1, <1>2 DEF Pending, InCopy
  <2>3. MemBar'[d] = [k \in DOMAIN mem[d] |-> mem[d][k]]
    BY <1>1, <1>2, <2>2 DEF MemBar
  <2> QED
    BY <1>2, <2>1, <2>3, MemIsFunction
<1>8. GotBar'[p] = [i \in 1..m |-> MemBar[Atomic!DevOf(p)][PosBar[p] + i - 1]]
  <2>1. InCopy(p, "read")'
    BY <1>1, <1>2 DEF InCopy
  <2>2. GotBar'[p] = [i \in 1..m |-> mem[d][pos[p] + i - 1]]
    BY <1>1, <1>2, <1>5, <2>1 DEF GotBar
  <2> QED
    BY <1>4, <1>6, <1>7, <2>2
<1>9. /\ StBar' = [StBar EXCEPT ![p] = "done"] /\ RetBar' = [RetBar EXCEPT ![p] = r]
      /\ PosBar' = [PosBar EXCEPT ![p] = IF r < 0 THEN PosBar[p] ELSE PosBar[p] + r]
      /\ GotBar' = [GotBar EXCEPT
                      ![p] = [i \in 1..m |-> MemBar[Atomic!DevOf(p)][PosBar[p] + i - 1]]]
  BY <1>2, <1>6, <1>8, OtherCalls
<1>10. MemBar' = MemBar
  BY <1>2, <1>7 DEF MemBar
<1>11. ~Wedged(d) /\ (Wedged(d)' <=> r < 0)
  BY <1>1, <1>2, <1>5 DEF Wedged, WillFault
<1> HIDE DEF m, r
<1>12. [e \in Dev |-> Wedged(e)]' = [[e \in Dev |-> Wedged(e)] EXCEPT ![d] = r < 0]
  BY <1>2, <1>11, AtDevice
<1>13. Atomic!Answer(p, r)
  BY <1>1, <1>4, <1>6, <1>9, <1>11, <1>12 DEF Atomic!Answer, files
<1> USE DEF n, m, r
<1> QED
  BY <1>1, <1>3, <1>4, <1>9, <1>10, <1>13 DEF Atomic!ReadEffect, EFAULT, Atomic!EFAULT

\* The write of the device happens when the mutex is acquired, or is refused.
LEMMA WriteEnterMap ==
  ASSUME IInv, NEW p \in Proc, NEW d \in Dev, DevOf(p) = d, WriteEnter(p) \/ WriteNoSpace(p)
  PROVE  Atomic!WriteEffect(p)
<1> DEFINE n == Atomic!Room(p)
           r == IF n = 0 THEN ENOMEM ELSE IF arg[p].limit < n THEN EFAULT ELSE n
           after(cells) == [k \in DOMAIN cells |->
                              IF k \in PosBar[p]..(PosBar[p] + n - 1)
                              THEN IF k < PosBar[p] + arg[p].limit THEN arg[p].byte ELSE Zero
                              ELSE cells[k]]
<1>0. n = Clamped(p)
  BY RoomIsClamped DEF WriteEnter, WriteNoSpace
<1> HIDE DEF n
<1>1. /\ pc[p] = "lock" /\ arg[p].op = "write" /\ MutexLock(p)
      /\ UNCHANGED <<mem, files, arg, pos, done, got>>
      /\ IF n = 0
         THEN /\ pc' = [pc EXCEPT ![p] = "ret"] /\ ret'[p] = ENOMEM
              /\ count' = count /\ \A q \in Proc \ {p} : ret'[q] = ret[q]
         ELSE /\ pc' = [pc EXCEPT ![p] = "copy"] /\ ret' = ret
              /\ count' = [count EXCEPT ![p] = n]
      /\ \A q \in Proc \ {p} : count'[q] = count[q] /\ ret'[q] = ret[q]
  BY <1>0 DEF WriteEnter, WriteNoSpace, IInv, TypeOK
<1>2. /\ OthersStay(p) /\ DevOf(p)' = d
      /\ pc'[p] = IF n = 0 THEN "ret" ELSE "copy"
      /\ lock[d] = NoProc /\ lock'[d] = p
      /\ \A e \in Dev \ {d} : Wedged(e)' = Wedged(e) /\ MemBar'[e] = MemBar[e]
  <2>1. CASE n = 0
    BY <1>1, <2>1, AcquireBars
  <2>2. CASE n # 0
    BY <1>1, <2>2, AcquireBars
  <2> QED
    BY <2>1, <2>2
<1>3. /\ InCall(p) /\ n \in 0..arg[p].n /\ arg[p] \in Arg /\ arg[p].limit \in Nat
      /\ n \in Nat /\ (n # 0 => count'[p] = n) /\ pos[p] \in Nat /\ done[p] = 0
  <2>1. InCall(p)
    BY <1>1 DEF InCall
  <2>2. n \in 0..arg[p].n /\ n \in 0..MaxCount
    BY <1>0, <2>1, ClampBounds
  <2>3. arg[p] \in Arg
    BY <2>1 DEF IInv, CallInv
  <2>4. n # 0 => count'[p] = n
    BY <1>1, <2>2 DEF IInv, TypeOK
  <2>5. pos[p] \in Nat /\ done[p] = 0
    BY <1>1 DEF IInv, TypeOK, GotInv
  <2> QED
    BY <2>1, <2>2, <2>3, <2>4, <2>5 DEF Arg
<1>4. arg[p] # NoArg /\ Atomic!DevOf(p) = d
  BY <1>3 DEF Atomic!DevOf, DevOf
<1>5. /\ n # 0 => (WillFault(p)' <=> arg[p].limit < n)
      /\ (r < 0) <=> (n = 0 \/ arg[p].limit < n)
      /\ n # 0 => Reach(p)' = IF arg[p].limit < n THEN arg[p].limit ELSE n
  BY <1>1, <1>2, <1>3 DEF WillFault, Reach, EFAULT, ENOMEM
<1>6. /\ StBar[p] = "called" /\ StBar'[p] = "done" /\ PosBar[p] = pos[p]
      /\ PosBar'[p] = IF r < 0 THEN pos[p] ELSE pos[p] + r
      /\ RetBar'[p] = r /\ GotBar'[p] = GotBar[p]
  <2>1. StBar[p] = "called" /\ StBar'[p] = "done" /\ PosBar[p] = pos[p]
    BY <1>1, <1>2 DEF StBar, PosBar
  <2>2. PosBar'[p] = IF r < 0 THEN pos[p] ELSE pos[p] + r
    BY <1>1, <1>2, <1>3, <1>5 DEF PosBar
  <2>3. RetBar'[p] = r
    BY <1>1, <1>2, <1>3, <1>5 DEF RetBar
  <2>4. GotBar'[p] = GotBar[p]
    BY <1>1, <1>2 DEF GotBar, InCopy
  <2> QED
    BY <2>1, <2>2, <2>3, <2>4
<1>7. MemBar[d] = mem[d]
  BY <1>2, FreeDevice, MemIsFunction
<1>8. MemBar'[d] = after(MemBar[d])
  <2>1. Pending(p, d)' = IF n = 0 THEN {} ELSE pos[p]..(pos[p] + n - 1)
    BY <1>1, <1>2, <1>3 DEF Pending, InCopy
  <2>2. MemBar'[d] = [k \in DOMAIN mem[d] |->
                        IF k \in Pending(p, d)'
                        THEN IF k < pos[p] + Reach(p)' THEN arg[p].byte ELSE Zero
                        ELSE mem[d][k]]
    BY <1>1, <1>2, NoneAssumption DEF MemBar
  <2>3. CASE n = 0
    <3>1. PosBar[p]..(PosBar[p] + n - 1) = {}
      BY <1>3, <1>6, <2>3
    <3> QED
      BY <1>7, <2>1, <2>2, <2>3, <3>1
  <2>4. CASE n # 0
    <3>1. \A k \in pos[p]..(pos[p] + n - 1) : k < pos[p] + Reach(p)' <=> k < pos[p] + arg[p].limit
      BY <1>3, <1>5, <2>4
    <3> QED
      BY <1>6, <1>7, <2>1, <2>2, <2>4, <3>1
  <2> QED
    BY <2>3, <2>4
<1> HIDE DEF r
<1>9. /\ StBar' = [StBar EXCEPT ![p] = "done"] /\ RetBar' = [RetBar EXCEPT ![p] = r]
      /\ PosBar' = [PosBar EXCEPT ![p] = IF r < 0 THEN PosBar[p] ELSE PosBar[p] + r]
      /\ GotBar' = GotBar
  <2>1. GotBar' = [GotBar EXCEPT ![p] = GotBar[p]]
    BY <1>2, <1>6, OtherCalls
  <2>2. GotBar' = GotBar
    BY <2>1 DEF GotBar
  <2> QED
    BY <1>2, <1>6, <2>2, OtherCalls
<1>10. MemBar' = [MemBar EXCEPT ![d] = after(MemBar[d])]
  <2> HIDE DEF after
  <2> QED
    BY <1>2, <1>8 DEF MemBar
<1>11. ~Wedged(d) /\ (Wedged(d)' <=> r < 0)
  BY <1>1, <1>2, <1>5 DEF Wedged, WillFault
<1>12. [e \in Dev |-> Wedged(e)]' = [[e \in Dev |-> Wedged(e)] EXCEPT ![d] = r < 0]
  BY <1>2, <1>11, AtDevice
<1>13. Atomic!Answer(p, r)
  BY <1>1, <1>4, <1>6, <1>9, <1>11, <1>12 DEF Atomic!Answer, files
<1> USE DEF n, r
<1> QED
  BY <1>1, <1>3, <1>4, <1>9, <1>10, <1>13
  DEF Atomic!WriteEffect, EFAULT, Atomic!EFAULT, ENOMEM, Atomic!ENOMEM

-----------------------------------------------------------------------------
(* the steps of a copy *)

\* A step of the copy of p on d that leaves the locals of the others alone.
CopyStep(p, d) ==
    /\ pc[p] = "copy" /\ DevOf(p) = d
    /\ UNCHANGED <<files, arg, count>>
    /\ \A q \in Proc \ {p} : /\ pc'[q] = pc[q] /\ pos'[q] = pos[q]
                             /\ done'[q] = done[q] /\ got'[q] = got[q] /\ ret'[q] = ret[q]
    /\ \A e \in Dev \ {d} : lock'[e] = lock[e] /\ mem'[e] = mem[e]

\* It is no abstract step, if it changes neither the abstract call of p nor d.
LEMMA CopyIsStutter ==
  ASSUME IInv, NEW p \in Proc, NEW d \in Dev, CopyStep(p, d),
         StBar'[p] = StBar[p], PosBar'[p] = PosBar[p], GotBar'[p] = GotBar[p],
         RetBar'[p] = RetBar[p], MemBar'[d] = MemBar[d], Wedged(d)' <=> Wedged(d)
  PROVE  UNCHANGED Atomic!vars
<1>1. DevOf(p)' = d /\ \A q \in Proc : DevOf(q)' = DevOf(q)
  BY DEF CopyStep, DevOf, files
<1>2. \A q \in Proc \ {p} : pc[q] = "copy" => DevOf(q) # d /\ DevOf(q) \in Dev
  BY DEF CopyStep, IInv, CopyInv, CallInv, InCall
<1>3. OthersStay(p)
  BY <1>1, <1>2 DEF OthersStay, CopyStep
<1>4. \A e \in Dev \ {d} : Wedged(e)' = Wedged(e) /\ MemBar'[e] = MemBar[e]
  <2>1. ASSUME NEW e \in Dev \ {d} PROVE Wedged(e)' = Wedged(e) /\ MemBar'[e] = MemBar[e]
    <3>1. lock'[e] = lock[e] /\ mem'[e] = mem[e] /\ DevOf(p) # e /\ DevOf(p)' # e
      BY <1>1 DEF CopyStep
    <3> QED
      BY <1>3, <3>1, OtherDevices
  <2> QED
    BY <2>1
<1>5. MemBar' = MemBar
  BY <1>4 DEF MemBar
<1>6. [e \in Dev |-> Wedged(e)]' = [e \in Dev |-> Wedged(e)]
  <2>1. Wedged(d)' \in BOOLEAN /\ Wedged(d) \in BOOLEAN
    BY DEF Wedged
  <2>2. Wedged(d)' = Wedged(d)
    BY <2>1
  <2> QED
    BY <1>4, <2>2
<1>7. StBar' = StBar /\ PosBar' = PosBar /\ GotBar' = GotBar /\ RetBar' = RetBar
  <2>1. /\ StBar' = [StBar EXCEPT ![p] = StBar[p]] /\ PosBar' = [PosBar EXCEPT ![p] = PosBar[p]]
        /\ GotBar' = [GotBar EXCEPT ![p] = GotBar[p]]
        /\ RetBar' = [RetBar EXCEPT ![p] = RetBar[p]]
    BY <1>3, OtherCalls
  <2>2. StBar' = StBar
    BY <2>1 DEF StBar
  <2>3. PosBar' = PosBar
    BY <2>1 DEF PosBar
  <2>4. GotBar' = GotBar
    BY <2>1 DEF GotBar
  <2>5. RetBar' = RetBar
    BY <2>1 DEF RetBar
  <2> QED
    BY <2>2, <2>3, <2>4, <2>5
<1> QED
  BY <1>5, <1>6, <1>7 DEF Atomic!vars, CopyStep, files

\* What holds of a copy of p on d before each of its steps.
LEMMA CopyFacts ==
  ASSUME RInv, NEW p \in Proc, pc[p] = "copy"
  PROVE  /\ InCall(p) /\ DevOf(p) \in Dev /\ lock[DevOf(p)] = p
         /\ pos[p] \in Nat /\ count[p] \in Nat /\ done[p] \in Nat /\ arg[p].limit \in Nat
         /\ done[p] <= count[p] /\ done[p] <= arg[p].limit
         /\ pos[p] + count[p] <= Size[DevOf(p)] /\ Size[DevOf(p)] \in Nat
<1>1. InCall(p) /\ arg[p] \in Arg /\ DevOf(p) \in Dev
  BY DEF RInv, IInv, CallInv, InCall
<1>2. lock[DevOf(p)] = p /\ done[p] <= count[p] /\ pos[p] + count[p] <= Size[DevOf(p)]
  BY DEF RInv, IInv, CopyInv
<1>3. pos[p] \in Nat /\ count[p] \in Nat /\ done[p] \in Nat
  BY DEF RInv, IInv, TypeOK
<1> QED
  BY <1>1, <1>2, <1>3 DEF RInv, LimitInv, Arg

\* The abstract read has delivered the byte already.
LEMMA ReadByteMap ==
  ASSUME RInv, NEW p \in Proc, ReadByte(p)
  PROVE  UNCHANGED Atomic!vars
<1>1. PICK d \in Dev : DevOf(p) = d
  BY CopyFacts DEF ReadByte, Copying
<1>2. /\ pc[p] = "copy" /\ arg[p].op = "read"
      /\ done' = [done EXCEPT ![p] = done[p] + 1]
      /\ \A q \in Proc \ {p} : got'[q] = got[q]
      /\ UNCHANGED <<mem, lock, files, pc, arg, pos, count, ret>>
  BY DEF ReadByte, Copying, RInv, IInv, TypeOK
<1>3. CopyStep(p, d) /\ DevOf(p)' = d
  BY <1>1, <1>2 DEF CopyStep, DevOf, files, RInv, IInv, TypeOK
<1>4. /\ StBar'[p] = StBar[p] /\ PosBar'[p] = PosBar[p]
      /\ RetBar'[p] = RetBar[p]
  BY <1>2 DEF StBar, PosBar, RetBar, WillFault
<1>5. GotBar'[p] = GotBar[p]
  BY <1>1, <1>2, <1>3 DEF GotBar, InCopy, Reach, WillFault
<1>6. lock[d] = p /\ p # NoProc
  BY <1>1, <1>2, CopyFacts
<1>7. MemBar'[d] = MemBar[d]
  <2>1. Pending(p, d) = {} /\ Pending(p, d)' = {}
    BY <1>2 DEF Pending, InCopy
  <2> QED
    BY <1>2, <1>6, <2>1 DEF MemBar
<1>8. Wedged(d)' <=> Wedged(d)
  BY <1>1, <1>2, <1>3, <1>6 DEF Wedged
<1> QED
  BY <1>3, <1>4, <1>5, <1>7, <1>8, CopyIsStutter DEF RInv

\* An interval without its first number.
LEMMA WithoutFirst ==
  ASSUME NEW a \in Int, NEW b \in Int, a <= b
  PROVE  a \in a..b /\ (a + 1)..b = (a..b) \ {a}
OBVIOUS

\* The abstract write has stored the byte already.
LEMMA WriteByteMap ==
  ASSUME RInv, NEW p \in Proc, WriteByte(p)
  PROVE  UNCHANGED Atomic!vars
<1>1. PICK d \in Dev : DevOf(p) = d
  BY CopyFacts DEF WriteByte, Copying
<1>2. /\ pc[p] = "copy" /\ arg[p].op = "write" /\ done[p] < count[p] /\ done[p] < arg[p].limit
      /\ mem' = [mem EXCEPT ![d][pos[p] + done[p]] = arg[p].byte]
      /\ done' = [done EXCEPT ![p] = done[p] + 1]
      /\ UNCHANGED <<lock, files, pc, arg, pos, count, got, ret>>
  BY <1>1 DEF WriteByte, Copying
<1>3. CopyStep(p, d) /\ DevOf(p)' = d /\ done'[p] = done[p] + 1
  BY <1>1, <1>2 DEF CopyStep, DevOf, files, RInv, IInv, TypeOK
<1>4. /\ lock[d] = p /\ p # NoProc
      /\ pos[p] \in Nat /\ count[p] \in Nat /\ done[p] \in Nat /\ arg[p].limit \in Nat
  BY <1>1, <1>2, CopyFacts
<1>5. /\ StBar'[p] = StBar[p] /\ PosBar'[p] = PosBar[p]
      /\ GotBar'[p] = GotBar[p] /\ RetBar'[p] = RetBar[p]
  BY <1>2 DEF StBar, PosBar, GotBar, RetBar, WillFault, InCopy
<1>6. MemBar'[d] = MemBar[d]
  <2> DEFINE here == pos[p] + done[p]
             final(k) == IF k < pos[p] + Reach(p) THEN arg[p].byte ELSE Zero
  <2>1. /\ Pending(p, d) = here..(pos[p] + count[p] - 1)
        /\ Pending(p, d)' = (here + 1)..(pos[p] + count[p] - 1)
        /\ Reach(p)' = Reach(p) /\ here \in Nat
    BY <1>1, <1>2, <1>3, <1>4 DEF Pending, InCopy, Reach, WillFault
  <2>2. here \in Pending(p, d) /\ Pending(p, d)' = Pending(p, d) \ {here}
    <3>1. here <= pos[p] + count[p] - 1 /\ here \in Int /\ pos[p] + count[p] - 1 \in Int
      BY <1>2, <1>4
    <3> HIDE DEF here
    <3> QED
      BY <2>1, <3>1, WithoutFirst
  <2>3. final(here) = arg[p].byte
    BY <1>2, <1>4 DEF Reach, WillFault
  <2>4. /\ DOMAIN mem'[d] = DOMAIN mem[d]
        /\ \A k \in DOMAIN mem[d] : mem'[d][k] = IF k = here THEN arg[p].byte ELSE mem[d][k]
    BY <1>2 DEF RInv, IInv, TypeOK
  <2> HIDE DEF here
  <2>5. MemBar[d] = [k \in DOMAIN mem[d] |-> IF k \in Pending(p, d) THEN final(k) ELSE mem[d][k]]
    BY <1>4 DEF MemBar
  <2>6. MemBar'[d] = [k \in DOMAIN mem'[d] |->
                        IF k \in Pending(p, d)' THEN final(k) ELSE mem'[d][k]]
    <3>1. lock'[d] = p /\ pos' = pos /\ arg' = arg
      BY <1>2, <1>4
    <3> QED
      BY <1>4, <2>1, <3>1 DEF MemBar
  <2> HIDE DEF final
  <2> QED
    BY <2>2, <2>3, <2>4, <2>5, <2>6
<1>7. Wedged(d)' <=> Wedged(d)
  BY <1>1, <1>2, <1>3, <1>4 DEF Wedged
<1> QED
  BY <1>3, <1>5, <1>6, <1>7, CopyIsStutter DEF RInv

\* What a read has copied is what the abstract read delivered.
LEMMA CopiedIsDelivered ==
  ASSUME RInv, NEW p \in Proc, pc[p] = "copy", arg[p].op = "read", done[p] = Reach(p)
  PROVE  GotBar[p] = got[p]
<1>1. GotBar[p] = [i \in 1..done[p] |-> mem[DevOf(p)][pos[p] + i - 1]]
  BY DEF GotBar, InCopy
<1>2. got[p] \in Seq(Byte) /\ Len(got[p]) = done[p] /\ done[p] \in Nat /\ pos[p] \in Nat
  BY DEF RInv, IInv, TypeOK, GotInv, InCall
<1>3. got[p] = [i \in 1..done[p] |-> got[p][i]]
  BY <1>2
<1>4. \A i \in 1..done[p] : mem[DevOf(p)][pos[p] + i - 1] = got[p][i]
  <2> SUFFICES ASSUME NEW i \in 1..done[p]
               PROVE  mem[DevOf(p)][pos[p] + i - 1] = got[p][i]
    OBVIOUS
  <2>1. i - 1 \in 0..done[p] - 1
    BY <1>2
  <2>2. mem[DevOf(p)][pos[p] + (i - 1)] = got[p][(i - 1) + 1]
    BY <2>1 DEF RInv, IInv, CopyIsolated
  <2> QED
    BY <1>2, <2>2
<1> QED
  BY <1>1, <1>3, <1>4

\* A read or write that returns with the mutex held had failed already.
LEMMA ReadFaultMap ==
  ASSUME RInv, NEW p \in Proc, ReadFault(p)
  PROVE  UNCHANGED Atomic!vars
<1>1. PICK d \in Dev : DevOf(p) = d
  BY CopyFacts DEF ReadFault, Fault
<1>2. /\ pc[p] = "copy" /\ arg[p].op = "read" /\ done[p] < count[p] /\ done[p] = arg[p].limit
      /\ pc' = [pc EXCEPT ![p] = "ret"] /\ ret' = [ret EXCEPT ![p] = EFAULT]
      /\ UNCHANGED <<mem, lock, files, arg, pos, count, done, got>>
  BY DEF ReadFault, Fault
<1>3. CopyStep(p, d) /\ pc'[p] = "ret" /\ ret'[p] = EFAULT
  BY <1>1, <1>2 DEF CopyStep, RInv, IInv, TypeOK
<1>4. lock[d] = p /\ p # NoProc
  BY <1>1, <1>2, CopyFacts
<1>5. WillFault(p) /\ Reach(p) = done[p]
  BY <1>2 DEF WillFault, Reach
<1>6. /\ StBar'[p] = StBar[p] /\ PosBar'[p] = PosBar[p] /\ RetBar'[p] = RetBar[p]
  BY <1>2, <1>3, <1>5 DEF StBar, PosBar, RetBar
<1>7. GotBar'[p] = GotBar[p]
  <2>1. GotBar'[p] = got[p]
    BY <1>2, <1>3 DEF GotBar, InCopy
  <2> QED
    BY <1>2, <1>5, <2>1, CopiedIsDelivered
<1>8. MemBar'[d] = MemBar[d]
  <2>1. Pending(p, d) = {} /\ Pending(p, d)' = {}
    BY <1>2, <1>3 DEF Pending, InCopy
  <2> QED
    BY <1>2, <1>4, <2>1 DEF MemBar
<1>9. Wedged(d)' <=> Wedged(d)
  BY <1>1, <1>2, <1>3, <1>4, <1>5 DEF Wedged, WillFault
<1> QED
  BY <1>3, <1>6, <1>7, <1>8, <1>9, CopyIsStutter DEF RInv

\* The abstract write has cleared the rest of its span already.
LEMMA WriteFaultMap ==
  ASSUME RInv, NEW p \in Proc, WriteFault(p)
  PROVE  UNCHANGED Atomic!vars
<1>1. PICK d \in Dev : DevOf(p) = d
  BY CopyFacts DEF WriteFault, Fault
<1> DEFINE rest == (pos[p] + done[p])..(pos[p] + count[p] - 1)
<1>2. /\ pc[p] = "copy" /\ arg[p].op = "write" /\ done[p] < count[p] /\ done[p] = arg[p].limit
      /\ pc' = [pc EXCEPT ![p] = "ret"] /\ ret' = [ret EXCEPT ![p] = EFAULT]
      /\ mem' = [mem EXCEPT ![d] = [k \in DOMAIN mem[d] |-> IF k \in rest THEN Zero ELSE mem[d][k]]]
      /\ UNCHANGED <<lock, files, arg, pos, count, done, got>>
  BY <1>1 DEF WriteFault, Fault
<1>3. CopyStep(p, d) /\ pc'[p] = "ret" /\ ret'[p] = EFAULT
  BY <1>1, <1>2 DEF CopyStep, RInv, IInv, TypeOK
<1>4. /\ lock[d] = p /\ p # NoProc
      /\ pos[p] \in Nat /\ count[p] \in Nat /\ done[p] \in Nat
  BY <1>1, <1>2, CopyFacts
<1>5. WillFault(p) /\ Reach(p) = done[p]
  BY <1>2 DEF WillFault, Reach
<1>6. /\ StBar'[p] = StBar[p] /\ PosBar'[p] = PosBar[p] /\ RetBar'[p] = RetBar[p]
      /\ GotBar'[p] = GotBar[p]
  BY <1>2, <1>3, <1>5 DEF StBar, PosBar, RetBar, GotBar, InCopy
<1>7. MemBar'[d] = MemBar[d]
  <2>1. Pending(p, d) = rest /\ Pending(p, d)' = {}
    BY <1>1, <1>2, <1>3 DEF Pending, InCopy
  <2>2. \A k \in rest : ~(k < pos[p] + Reach(p))
    BY <1>4, <1>5
  <2>3. mem'[d] = [k \in DOMAIN mem[d] |-> IF k \in rest THEN Zero ELSE mem[d][k]]
    BY <1>2 DEF RInv, IInv, TypeOK
  <2> HIDE DEF rest
  <2>4. MemBar[d] = [k \in DOMAIN mem[d] |-> IF k \in rest THEN Zero ELSE mem[d][k]]
    BY <1>4, <2>1, <2>2 DEF MemBar
  <2>5. MemBar'[d] = [k \in DOMAIN mem'[d] |-> mem'[d][k]]
    <3>1. lock'[d] = p
      BY <1>2, <1>4
    <3> QED
      BY <2>1, <3>1 DEF MemBar
  <2> QED
    BY <2>3, <2>4, <2>5
<1>8. Wedged(d)' <=> Wedged(d)
  BY <1>1, <1>2, <1>3, <1>4, <1>5 DEF Wedged, WillFault
<1> QED
  BY <1>3, <1>6, <1>7, <1>8, CopyIsStutter DEF RInv

\* A copy that is complete gives back a device on which nothing is pending.
LEMMA DoneMap ==
  ASSUME RInv, NEW p \in Proc, ReadDone(p) \/ WriteDone(p)
  PROVE  UNCHANGED Atomic!vars
<1>1. PICK d \in Dev : DevOf(p) = d
  BY CopyFacts DEF ReadDone, WriteDone, Finish
<1>2. /\ pc[p] = "copy" /\ done[p] = count[p]
      /\ pc' = [pc EXCEPT ![p] = "ret"] /\ ret' = [ret EXCEPT ![p] = count[p]]
      /\ pos' = [pos EXCEPT ![p] = pos[p] + count[p]]
      /\ lock' = [lock EXCEPT ![d] = NoProc]
      /\ UNCHANGED <<mem, files, arg, count, done, got>>
  BY <1>1 DEF ReadDone, WriteDone, Finish, MutexUnlock
<1>3. /\ CopyStep(p, d) /\ pc'[p] = "ret" /\ ret'[p] = count[p] /\ pos'[p] = pos[p] + count[p]
      /\ lock'[d] = NoProc
  BY <1>1, <1>2 DEF CopyStep, RInv, IInv, TypeOK
<1>4. /\ lock[d] = p /\ p # NoProc
      /\ pos[p] \in Nat /\ count[p] \in Nat /\ done[p] <= arg[p].limit /\ arg[p].limit \in Nat
  BY <1>1, <1>2, CopyFacts
<1>5. ~WillFault(p) /\ Reach(p) = done[p]
  BY <1>2, <1>4 DEF WillFault, Reach
<1>6. /\ StBar'[p] = StBar[p] /\ PosBar'[p] = PosBar[p] /\ RetBar'[p] = RetBar[p]
  BY <1>2, <1>3, <1>5 DEF StBar, PosBar, RetBar
<1>7. GotBar'[p] = GotBar[p]
  <2>1. GotBar'[p] = got[p]
    BY <1>2, <1>3 DEF GotBar, InCopy
  <2>2. CASE arg[p].op = "read"
    BY <1>2, <1>5, <2>1, <2>2, CopiedIsDelivered
  <2>3. CASE arg[p].op # "read"
    BY <2>1, <2>3 DEF GotBar, InCopy
  <2> QED
    BY <2>2, <2>3
<1>8. MemBar'[d] = MemBar[d]
  <2>1. Pending(p, d) = {}
    BY <1>2, <1>4 DEF Pending, InCopy
  <2>2. MemBar[d] = [k \in DOMAIN mem[d] |-> mem[d][k]]
    BY <1>4, <2>1 DEF MemBar
  <2>3. MemBar'[d] = [k \in DOMAIN mem[d] |-> mem[d][k]]
    BY <1>2, <1>3 DEF MemBar
  <2> QED
    BY <2>2, <2>3
<1>9. ~Wedged(d)' /\ ~Wedged(d)
  BY <1>1, <1>2, <1>3, <1>4, <1>5 DEF Wedged, WillFault
<1> QED
  BY <1>3, <1>6, <1>7, <1>8, <1>9, CopyIsStutter DEF RInv

-----------------------------------------------------------------------------
(* the refinement *)

LEMMA StepMap == RInv /\ [Next]_vars => [Atomic!Next]_(Atomic!vars)
<1> SUFFICES ASSUME RInv, [Next]_vars PROVE Atomic!Next \/ UNCHANGED Atomic!vars
  OBVIOUS
<1>0. IInv /\ \A p \in Proc : InCall(p) => DevOf(p) \in Dev
  BY DEF RInv, IInv, CallInv
<1>1. CASE UNCHANGED vars
  <2>1. UNCHANGED <<mem, lock, fdev, fmode, fpos, pc, arg, pos, count, done, got, ret>>
    BY <1>1 DEF vars
  <2>2. \A p \in Proc : DevOf(p)' = DevOf(p)
    BY <2>1 DEF DevOf
  <2>3. StBar' = StBar /\ PosBar' = PosBar /\ RetBar' = RetBar
    BY <2>1 DEF StBar, PosBar, RetBar, WillFault
  <2>4. GotBar' = GotBar
    BY <2>1, <2>2 DEF GotBar, InCopy, Reach, WillFault
  <2>5. MemBar' = MemBar
    BY <2>1 DEF MemBar, Pending, InCopy, DevOf, Reach, WillFault
  <2>6. [e \in Dev |-> Wedged(e)]' = [e \in Dev |-> Wedged(e)]
    BY <2>1 DEF Wedged, DevOf
  <2> QED
    BY <2>1, <2>3, <2>4, <2>5, <2>6 DEF Atomic!vars
<1>2. CASE \E f \in File, d \in Dev, mode \in OpenModes : PcdOpen(f, d, mode)
  <2>1. PICK f \in File, d \in Dev, mode \in OpenModes : PcdOpen(f, d, mode)
    BY <1>2
  <2>2. Atomic!Open(f, d, mode) /\ mode \in Atomic!OpenModes
    BY <1>0, <2>1, OpenMap DEF OpenModes, Atomic!OpenModes
  <2> QED
    BY <2>2 DEF Atomic!Next
<1>3. CASE \E f \in File : PcdRelease(f)
  BY <1>0, <1>3, ReleaseMap DEF Atomic!Next
<1>4. CASE \E p \in Proc, op \in Modes, f \in File, n \in 0..MaxCount :
             \E limit \in 0..n, b \in Payload(op) : Call(p, op, f, n, limit, b)
  <2>1. PICK p \in Proc, op \in Modes, f \in File, n \in 0..MaxCount :
          \E limit \in 0..n, b \in Payload(op) : Call(p, op, f, n, limit, b)
    BY <1>4
  <2>2. PICK limit \in 0..n, b \in Payload(op) : Call(p, op, f, n, limit, b)
    BY <2>1
  <2>3. b \in Byte
    BY DEF Payload
  <2>4. Atomic!Call(p)
    BY <1>0, <2>2, <2>3, CallMap
  <2> QED
    BY <2>4 DEF Atomic!Next
<1>5. ASSUME NEW p \in Proc, Enter(p) PROVE Atomic!Next
  <2>1. PICK d \in Dev : DevOf(p) = d
    BY <1>0, <1>5 DEF Enter, ReadEnter, WriteEnter, WriteNoSpace, InCall
  <2> QED
    BY <1>0, <1>5, <2>1, ReadEnterMap, WriteEnterMap DEF Enter, Atomic!Next
<1>6. ASSUME NEW p \in Proc, Step(p) PROVE Atomic!Next \/ UNCHANGED Atomic!vars
  BY <1>0, <1>6, ReadByteMap, WriteByteMap, ReadFaultMap, WriteFaultMap, DoneMap, ReturnMap
  DEF Step, Atomic!Next
<1> QED
  BY <1>1, <1>2, <1>3, <1>4, <1>5, <1>6 DEF Next

\* pcd_read and pcd_write are atomic on their device: every behaviour of the
\* driver, with any number of processes between the bytes of its copies, is one
\* in which each call takes effect in a single step between call and return.
THEOREM DriverIsAtomic == Spec => ImplementsAtomic
<1>1. Init => RInv
  BY InitInv, LimitInit DEF RInv
<1>2. RInv /\ [Next]_vars => RInv'
  BY StepInv, LimitStep DEF RInv
<1> QED
  BY <1>1, <1>2, InitMap, StepMap, PTL DEF Spec, ImplementsAtomic, Atomic!Spec
=============================================================================
