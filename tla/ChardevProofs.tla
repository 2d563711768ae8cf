---------------------------- MODULE ChardevProofs ----------------------------
(***************************************************************************)
(* The safety properties of Chardev for any set of processes, any length   *)
(* of the message and any number of opens.                                 *)
(***************************************************************************)
EXTENDS Chardev, FiniteSetTheorems, SequenceTheorems, TLAPS

\* Where the loader is, and what is registered there.
LoadInv ==
    /\ mod = "unloaded" => lpc = "none" /\ ~registered
    /\ mod = "coming" => lpc \in {"register", "create"}
    /\ mod = "live" => lpc = "none" /\ registered
    /\ mod = "going" => lpc \in {"destroy", "unregister"} /\ registered
    /\ lpc = "register" => ~registered
    /\ lpc = "create" => registered

\* Nobody runs a function of a module whose major number leads nowhere.
InsideInv == ~registered => Inside = {}

\* Owners have a message of their own to print; what they have printed is it,
\* and so is what they have read.
MessageInv ==
    \A p \in Proc :
        /\ pc[p] \in {"user", "lookup", "cmpxchg"} => done[p] = 0
        /\ pc[p] \in {"user", "lookup", "cmpxchg", "sprintf"} => got[p] = <<>>
        /\ p \in Owners => mine[p] \in Nat
        /\ pc[p] = "sprintf" => \A k \in 1..done[p] : msg[k] = mine[p]

\* The processes that have a reference on the module.
Counted == {p \in Proc : counted[p]}

\* A reference is had from try_module_get to module_put; one who got none, or
\* is asked to give back one it never had, does so while nobody has any.
CountInv ==
    /\ IsFiniteSet(Counted)
    /\ refcnt = Cardinality(Counted)
    /\ \A p \in Proc : counted[p] => pc[p] \in {"open", "reading", "put"}
    /\ \A p \in Proc : pc[p] \in {"open", "reading", "put"} /\ ~counted[p] => mod = "going"
    /\ mod = "going" => Counted = {}

IInv ==
    /\ TypeOK /\ LoadInv /\ InsideInv
    /\ ExclusiveOpen /\ MessageInv /\ MessageIsOwn /\ CountInv

USE LenAssumption, OpensAssumption

LEMMA InitInv == Init => IInv
<1> SUFFICES ASSUME Init PROVE IInv
  OBVIOUS
<1>1. TypeOK
  <2>1. <<>> \in Seq(Nat) /\ -1 \in Nat \cup {-1}
    BY EmptySeq
  <2>2. got \in [Proc -> Seq(Nat)] /\ mine \in [Proc -> Nat \cup {-1}]
    BY <2>1, Zenon DEF Init
  <2>3. msg \in [1..MsgLen -> Nat \cup {-1}] /\ done \in [Proc -> 0..MsgLen]
    BY <2>1 DEF Init
  <2> QED
    BY <2>2, <2>3 DEF Init, TypeOK
<1>2. LoadInv /\ InsideInv /\ ExclusiveOpen /\ MessageInv /\ MessageIsOwn
  BY DEF Init, LoadInv, InsideInv, Inside, ExclusiveOpen, MessageInv, MessageIsOwn, Owners
<1>3. CountInv
  <2>1. Counted = {} /\ refcnt = 0
    BY DEF Init, Counted
  <2> QED
    BY <2>1, FS_EmptySet DEF Init, CountInv
<1> QED
  BY <1>1, <1>2, <1>3 DEF IInv

-----------------------------------------------------------------------------
(* the loader *)

\* The calls of init and exit before the last leave the processes alone.
LEMMA LoaderInv ==
  ASSUME IInv,
         Insmod \/ RegisterChrdev \/ DeviceCreate \/ Rmmod \/ DeviceDestroy
  PROVE  IInv'
<1> USE DEF static, session
<1>0. /\ UNCHANGED <<refcnt, pc, mine, counted, done, got>>
      /\ mod = "unloaded" \/ UNCHANGED <<already_open, counter, msg>>
  BY DEF Insmod, RegisterChrdev, DeviceCreate, Rmmod, DeviceDestroy
<1>1. Inside' = Inside /\ Owners' = Owners /\ Counted' = Counted
  BY <1>0 DEF Inside, Owners, Counted
<1>2. mod = "unloaded" => Inside = {} /\ Owners = {}
  BY DEF IInv, LoadInv, InsideInv, Inside, Owners
<1>3. /\ mod' \in {"unloaded", "coming", "live", "going"}
      /\ lpc' \in {"none", "register", "create", "destroy", "unregister"}
      /\ registered' \in BOOLEAN /\ node' \in BOOLEAN
      /\ LoadInv'
      /\ ~registered' => ~registered \/ (mod = "coming" /\ lpc = "register")
      /\ mod # "unloaded" /\ mod' # "unloaded" => already_open' = already_open
      /\ mod = "unloaded" /\ mod' # "unloaded" => ~already_open'
      /\ mod' = "going" => mod = "going" \/ (mod = "live" /\ refcnt = 0)
      /\ mod = "going" => mod' = "going"
  <2>1. CASE Insmod
    <3>1. /\ lpc = "none" /\ ~registered /\ registered' = registered /\ node' = node
          /\ lpc' = "register" /\ mod = "unloaded" /\ mod' = "coming" /\ already_open' = FALSE
      BY <2>1 DEF Insmod, IInv, LoadInv
    <3> QED
      BY <3>1 DEF IInv, TypeOK, LoadInv
  <2>2. CASE RegisterChrdev
    BY <2>2 DEF RegisterChrdev, IInv, TypeOK, LoadInv
  <2>3. CASE DeviceCreate
    BY <2>3 DEF DeviceCreate, IInv, TypeOK, LoadInv
  <2>4. CASE Rmmod
    BY <2>4 DEF Rmmod, IInv, TypeOK, LoadInv
  <2>5. CASE DeviceDestroy
    <3>1. mod = "going" /\ registered
      BY <2>5 DEF DeviceDestroy, IInv, TypeOK, LoadInv
    <3>2. /\ lpc' = "unregister" /\ node' = FALSE
          /\ UNCHANGED <<mod, registered, already_open>>
      BY <2>5 DEF DeviceDestroy
    <3> QED
      BY <3>1, <3>2 DEF LoadInv
  <2> QED
    BY <2>1, <2>2, <2>3, <2>4, <2>5
<1>4. TypeOK'
  <2>1. CASE Insmod
    <3>1. -1 \in Nat \cup {-1} /\ msg' = [k \in 1..MsgLen |-> -1]
      BY <2>1 DEF Insmod
    <3>2. msg' \in [1..MsgLen -> Nat \cup {-1}] /\ already_open' \in BOOLEAN /\ counter' \in Nat
      BY <3>1, <2>1 DEF Insmod
    <3> QED
      BY <1>0, <1>3, <3>2 DEF IInv, TypeOK
  <2>2. CASE UNCHANGED <<already_open, counter, msg>>
    BY <1>0, <1>3, <2>2 DEF IInv, TypeOK
  <2> QED
    BY <2>1, <2>2 DEF RegisterChrdev, DeviceCreate, Rmmod, DeviceDestroy
<1>5. InsideInv'
  BY <1>1, <1>3 DEF IInv, LoadInv, InsideInv
<1>6. ExclusiveOpen'
  BY <1>0, <1>1, <1>2, <1>3 DEF IInv, ExclusiveOpen
<1>7. MessageInv'
  <2>1. \A q \in Proc : pc[q] = "sprintf" => mod # "unloaded"
    BY <1>2 DEF Owners
  <2> QED
    BY <1>0, <1>1, <2>1 DEF IInv, MessageInv
<1>8. MessageIsOwn'
  <2>1. \A q \in Proc : pc[q] \in {"open", "reading"} => mod # "unloaded"
    BY <1>2 DEF Owners
  <2> QED
    BY <1>0, <2>1 DEF IInv, MessageIsOwn
<1>9. CountInv'
  <2>1. refcnt = 0 => Counted = {}
    BY FS_EmptySet DEF IInv, CountInv
  <2> QED
    BY <1>0, <1>1, <1>3, <2>1 DEF IInv, CountInv
<1> QED
  BY <1>3, <1>4, <1>5, <1>6, <1>7, <1>8, <1>9 DEF IInv

\* When the module is freed nobody has a reference on it.
LEMMA UnregisterInv ==
  ASSUME IInv, UnregisterChrdev
  PROVE  IInv'
<1> USE DEF UnregisterChrdev, static
<1>0. mod = "going" /\ Counted = {}
  BY DEF IInv, TypeOK, LoadInv, CountInv
<1>1. \A p \in Proc : pc'[p] = IF p \in Inside THEN "stranded" ELSE pc[p]
  OBVIOUS
<1>2. Inside' = {} /\ Owners' = {} /\ Counted' = {}
  BY <1>1 DEF Inside, Owners, Counted
<1>3. TypeOK'
  BY DEF IInv, TypeOK
<1>4. LoadInv' /\ InsideInv' /\ ExclusiveOpen'
  BY <1>2 DEF LoadInv, InsideInv, ExclusiveOpen
<1>5. MessageInv' /\ MessageIsOwn'
  BY <1>1, <1>2 DEF IInv, MessageInv, MessageIsOwn, Inside, Owners
<1>6. CountInv'
  BY <1>1, <1>2, FS_EmptySet DEF CountInv, Inside, Owners, Counted
<1> QED
  BY <1>3, <1>4, <1>5, <1>6 DEF IInv

-----------------------------------------------------------------------------
(* the processes *)

\* A process in the module is there while it is registered, and so loaded.
LEMMA InsideIsLoaded ==
  ASSUME IInv, NEW p \in Inside
  PROVE  registered /\ mod # "unloaded"
BY DEF IInv, LoadInv, InsideInv

\* There is one owner, and it knows that the flag is set.
LEMMA SoleOwner ==
  ASSUME IInv, NEW p \in Owners
  PROVE  Owners = {p}
BY DEF IInv, ExclusiveOpen

\* Steps of a process that is not an owner before or after.
LEMMA OutsideInv ==
  ASSUME IInv, NEW p \in Proc,
         Lookup(p) \/ VfsOpen(p) \/ Busy(p) \/ Leave(p)
  PROVE  IInv'
<1> USE DEF Lookup, VfsOpen, Busy, Leave, kernel, static, session
<1>0. /\ UNCHANGED <<mod, lpc, registered, node, already_open, counter, msg, refcnt, counted>>
      /\ pc[p] \in {"user", "lookup", "cmpxchg", "leave"}
      /\ pc'[p] \in {"user", "lookup", "cmpxchg"}
      /\ pc'[p] = "cmpxchg" => registered
      /\ \A q \in Proc \ {p} : pc'[q] = pc[q] /\ mine'[q] = mine[q]
                               /\ done'[q] = done[q] /\ got'[q] = got[q]
      /\ done'[p] = 0 /\ got'[p] = <<>>
  BY DEF IInv, TypeOK, MessageInv
<1>1. Owners' = Owners /\ Counted' = Counted /\ p \notin Owners
  BY <1>0 DEF Owners, Counted
<1>2. TypeOK'
  <2>1. -1 \in Nat \cup {-1} /\ <<>> \in Seq(Nat) /\ 0 \in 0..MsgLen
    BY EmptySeq
  <2>2. /\ mine' \in [Proc -> Nat \cup {-1}] /\ done' \in [Proc -> 0..MsgLen]
        /\ got' \in [Proc -> Seq(Nat)]
    <3>1. CASE Leave(p)
      BY <3>1, <2>1, Zenon DEF IInv, TypeOK
    <3>2. CASE ~Leave(p)
      BY <3>2 DEF IInv, TypeOK
    <3> QED
      BY <3>1, <3>2
  <2>3. pc' \in [Proc -> {"user", "lookup", "cmpxchg", "sprintf", "open", "reading",
                          "put", "leave", "stranded"}]
    BY DEF IInv, TypeOK
  <2> QED
    BY <1>0, <2>2, <2>3 DEF IInv, TypeOK
<1>3. LoadInv' /\ InsideInv'
  BY <1>0 DEF IInv, LoadInv, InsideInv, Inside
<1>4. ExclusiveOpen'
  BY <1>0, <1>1 DEF IInv, ExclusiveOpen
<1>5. MessageInv' /\ MessageIsOwn'
  BY <1>0, <1>1 DEF IInv, MessageInv, MessageIsOwn, Owners
<1>6. CountInv'
  BY <1>0, <1>1 DEF IInv, CountInv
<1> QED
  BY <1>2, <1>3, <1>4, <1>5, <1>6 DEF IInv

LEMMA AtomicCmpxchgInv ==
  ASSUME IInv, NEW p \in Proc, AtomicCmpxchg(p)
  PROVE  IInv'
<1> USE DEF AtomicCmpxchg, kernel
<1>0. /\ pc[p] = "cmpxchg" /\ pc'[p] = "sprintf"
      /\ mine'[p] = counter /\ counter \in Nat
      /\ \A q \in Proc \ {p} : pc'[q] = pc[q] /\ mine'[q] = mine[q]
      /\ UNCHANGED <<mod, lpc, registered, node, msg, refcnt, counted, done, got>>
  BY DEF IInv, TypeOK
<1>1. registered /\ mod # "unloaded"
  BY <1>0, InsideIsLoaded DEF Inside
<1>2. Owners = {} /\ Owners' = {p} /\ Counted' = Counted
  BY <1>0, <1>1 DEF IInv, ExclusiveOpen, Owners, Counted
<1>3. TypeOK'
  BY DEF IInv, TypeOK
<1>4. LoadInv' /\ InsideInv'
  BY <1>0, <1>1 DEF IInv, LoadInv, InsideInv
<1>5. ExclusiveOpen'
  BY <1>2 DEF ExclusiveOpen
<1>6. MessageInv' /\ MessageIsOwn'
  BY <1>0, <1>2 DEF IInv, MessageInv, MessageIsOwn, Owners
<1>7. CountInv'
  BY <1>0, <1>2 DEF IInv, CountInv
<1> QED
  BY <1>3, <1>4, <1>5, <1>6, <1>7 DEF IInv

LEMMA SprintfInv ==
  ASSUME IInv, NEW p \in Proc, Sprintf(p)
  PROVE  IInv'
<1> USE DEF Sprintf, kernel
<1>0. Owners = {p} /\ mine[p] \in Nat /\ done[p] \in 0..MsgLen - 1
  BY SoleOwner DEF IInv, TypeOK, MessageInv, Owners
<1>1. /\ done'[p] = done[p] + 1 /\ \A q \in Proc \ {p} : done'[q] = done[q]
      /\ msg'[done[p] + 1] = mine[p]
      /\ \A k \in 1..MsgLen : k # done[p] + 1 => msg'[k] = msg[k]
  BY <1>0 DEF IInv, TypeOK
<1>2. Owners' = Owners /\ Counted' = Counted /\ Inside' = Inside
  BY DEF Owners, Counted, Inside
<1>3. TypeOK'
  BY <1>0 DEF IInv, TypeOK
<1>4. LoadInv' /\ InsideInv' /\ ExclusiveOpen' /\ CountInv'
  BY <1>2 DEF IInv, LoadInv, InsideInv, ExclusiveOpen, CountInv
<1>5. MessageInv'
  <2> SUFFICES ASSUME NEW q \in Proc
               PROVE  /\ pc[q] \in {"user", "lookup", "cmpxchg"} => done'[q] = 0
                      /\ pc[q] \in {"user", "lookup", "cmpxchg", "sprintf"} => got[q] = <<>>
                      /\ q \in Owners => mine[q] \in Nat
                      /\ pc[q] = "sprintf" => \A k \in 1..done'[q] : msg'[k] = mine[q]
    BY <1>2 DEF MessageInv
  <2>1. CASE q = p
    BY <2>1, <1>0, <1>1 DEF IInv, MessageInv
  <2>2. CASE q # p
    BY <2>2, <1>0, <1>1 DEF IInv, MessageInv, Owners
  <2> QED
    BY <2>1, <2>2
<1>6. MessageIsOwn'
  BY <1>0, <1>2 DEF MessageIsOwn, Owners
<1> QED
  BY <1>3, <1>4, <1>5, <1>6 DEF IInv

\* The message is complete; a reference is added unless the module is going.
LEMMA TryModuleGetInv ==
  ASSUME IInv, NEW p \in Proc, TryModuleGet(p)
  PROVE  IInv'
<1> USE DEF TryModuleGet, kernel, static
<1>0. /\ Owners = {p} /\ ~counted[p] /\ p \notin Counted
      /\ got[p] = <<>> /\ \A k \in 1..MsgLen : msg[k] = mine[p]
      /\ registered /\ mod # "unloaded"
  BY SoleOwner, InsideIsLoaded
     DEF IInv, TypeOK, MessageInv, CountInv, Owners, Inside, Counted
<1>1. /\ pc'[p] = "open" /\ done'[p] = 0 /\ counted'[p] = (mod # "going")
      /\ \A q \in Proc \ {p} : /\ pc'[q] = pc[q] /\ done'[q] = done[q]
                               /\ counted'[q] = counted[q]
  BY DEF IInv, TypeOK
<1>2. Owners' = {p} /\ Inside' = Inside
  BY <1>0, <1>1 DEF Owners, Inside
<1>3. TypeOK'
  BY DEF IInv, TypeOK
<1>4. LoadInv' /\ InsideInv' /\ ExclusiveOpen'
  BY <1>0, <1>2 DEF IInv, LoadInv, InsideInv, ExclusiveOpen
<1>5. MessageInv' /\ MessageIsOwn'
  BY <1>0, <1>1, <1>2 DEF IInv, MessageInv, MessageIsOwn, Owners
<1>6. CountInv'
  <2>1. CASE mod = "going"
    <3>1. Counted' = Counted
      BY <2>1, <1>0, <1>1 DEF Counted
    <3> QED
      BY <2>1, <3>1, <1>1 DEF IInv, CountInv
  <2>2. CASE mod # "going"
    <3>1. Counted' = Counted \cup {p}
      BY <2>2, <1>1 DEF Counted
    <3>2. IsFiniteSet(Counted') /\ Cardinality(Counted') = Cardinality(Counted) + 1
      BY <3>1, <1>0, FS_AddElement DEF IInv, CountInv
    <3> QED
      BY <2>2, <3>2, <1>1 DEF IInv, CountInv
  <2> QED
    BY <2>1, <2>2
<1> QED
  BY <1>3, <1>4, <1>5, <1>6 DEF IInv

LEMMA ReadInv ==
  ASSUME IInv, NEW p \in Proc, StartRead(p) \/ EndRead(p)
  PROVE  IInv'
<1> USE DEF StartRead, EndRead, kernel, static, session
<1>0. /\ pc[p] \in {"open", "reading"} /\ pc'[p] \in {"open", "reading"}
      /\ \A q \in Proc \ {p} : pc'[q] = pc[q]
      /\ UNCHANGED <<mod, lpc, registered, node, already_open, counter, msg, refcnt, mine,
                     counted, done, got>>
  BY DEF IInv, TypeOK
<1>1. Owners' = Owners /\ Inside' = Inside /\ Counted' = Counted
  BY <1>0 DEF Owners, Inside, Counted
<1>2. TypeOK'
  BY DEF IInv, TypeOK
<1>3. LoadInv' /\ InsideInv' /\ ExclusiveOpen'
  BY <1>0, <1>1 DEF IInv, LoadInv, InsideInv, ExclusiveOpen
<1>4. MessageInv' /\ MessageIsOwn'
  BY <1>0, <1>1 DEF IInv, MessageInv, MessageIsOwn
<1>5. CountInv'
  BY <1>0, <1>1 DEF IInv, CountInv
<1> QED
  BY <1>2, <1>3, <1>4, <1>5 DEF IInv

LEMMA PutUserInv ==
  ASSUME IInv, NEW p \in Proc, PutUser(p)
  PROVE  IInv'
<1> USE DEF PutUser, kernel, static
<1>0. /\ Owners = {p} /\ mine[p] \in Nat /\ done[p] \in 0..MsgLen - 1
      /\ msg[done[p] + 1] = mine[p] /\ Len(got[p]) = done[p] /\ got[p] \in Seq(Nat)
      /\ \A k \in 1..done[p] : got[p][k] = mine[p]
  <2>1. p \in Owners /\ done[p] \in 0..MsgLen - 1 /\ got[p] \in Seq(Nat)
    BY DEF IInv, TypeOK, Owners
  <2>2. Owners = {p} /\ mine[p] \in Nat
    BY <2>1, SoleOwner DEF IInv, MessageInv
  <2>3. pc[p] = "reading" /\ done[p] + 1 \in 1..MsgLen
    BY <2>1
  <2>4. msg[done[p] + 1] = mine[p] /\ Len(got[p]) = done[p]
    BY <2>3 DEF IInv, MessageIsOwn
  <2>5. \A k \in 1..done[p] : got[p][k] = mine[p]
    BY <2>3 DEF IInv, MessageIsOwn
  <2> QED
    BY <2>1, <2>2, <2>4, <2>5
<1>1. /\ done'[p] = done[p] + 1 /\ got'[p] = Append(got[p], mine[p])
      /\ \A q \in Proc \ {p} : done'[q] = done[q] /\ got'[q] = got[q]
  BY <1>0 DEF IInv, TypeOK
<1>2. /\ got'[p] \in Seq(Nat) /\ Len(got'[p]) = done'[p]
      /\ \A k \in 1..done'[p] : got'[p][k] = mine[p]
  BY <1>0, <1>1, AppendProperties
<1>3. Owners' = Owners /\ Inside' = Inside /\ Counted' = Counted
  BY DEF Owners, Inside, Counted
<1>4. TypeOK'
  <2>1. got' = [got EXCEPT ![p] = got'[p]] /\ got \in [Proc -> Seq(Nat)]
    BY <1>1 DEF IInv, TypeOK
  <2>2. got' \in [Proc -> Seq(Nat)]
    BY <1>2, <2>1, Zenon
  <2>3. done' \in [Proc -> 0..MsgLen]
    BY <1>0 DEF IInv, TypeOK
  <2> QED
    BY <2>2, <2>3 DEF IInv, TypeOK
<1>5. LoadInv' /\ InsideInv' /\ ExclusiveOpen' /\ CountInv'
  BY <1>3 DEF IInv, LoadInv, InsideInv, ExclusiveOpen, CountInv
<1>6. MessageInv'
  BY <1>1, <1>3 DEF IInv, MessageInv
<1>7. MessageIsOwn'
  BY <1>0, <1>2 DEF IInv, MessageIsOwn, Owners
<1> QED
  BY <1>4, <1>5, <1>6, <1>7 DEF IInv

LEMMA AtomicSetInv ==
  ASSUME IInv, NEW p \in Proc, AtomicSet(p)
  PROVE  IInv'
<1> USE DEF AtomicSet, kernel, session
<1>0. Owners = {p}
  BY SoleOwner DEF Owners
<1>1. pc'[p] = "put" /\ \A q \in Proc \ {p} : pc'[q] = pc[q]
  BY DEF IInv, TypeOK
<1>2. Owners' = {} /\ Inside' = Inside /\ Counted' = Counted
  BY <1>0, <1>1 DEF Owners, Inside, Counted
<1>3. TypeOK'
  BY DEF IInv, TypeOK
<1>4. LoadInv' /\ InsideInv' /\ ExclusiveOpen'
  BY <1>2 DEF IInv, LoadInv, InsideInv, ExclusiveOpen
<1>5. MessageInv' /\ MessageIsOwn'
  BY <1>1, <1>2 DEF IInv, MessageInv, MessageIsOwn, Owners
<1>6. CountInv'
  BY <1>1, <1>2 DEF IInv, CountInv
<1> QED
  BY <1>3, <1>4, <1>5, <1>6 DEF IInv

\* One who has a reference gives it back; one who has none finds the count zero.
LEMMA ModulePutInv ==
  ASSUME IInv, NEW p \in Proc, ModulePut(p)
  PROVE  IInv'
<1> USE DEF ModulePut, kernel, static
<1>1. /\ pc'[p] = "leave" /\ ~counted'[p]
      /\ \A q \in Proc \ {p} : pc'[q] = pc[q] /\ counted'[q] = counted[q]
  BY DEF IInv, TypeOK
<1>2. Owners' = Owners /\ Inside' = Inside /\ Counted' = Counted \ {p}
  BY <1>1 DEF Owners, Inside, Counted
<1>3. TypeOK'
  BY DEF IInv, TypeOK
<1>4. LoadInv' /\ InsideInv' /\ ExclusiveOpen'
  BY <1>2 DEF IInv, LoadInv, InsideInv, ExclusiveOpen
<1>5. MessageInv' /\ MessageIsOwn'
  BY <1>1, <1>2 DEF IInv, MessageInv, MessageIsOwn
<1>6. CountInv'
  <2>1. /\ IsFiniteSet(Counted') /\ Cardinality(Counted) \in Nat
        /\ Cardinality(Counted') = IF p \in Counted THEN Cardinality(Counted) - 1
                                   ELSE Cardinality(Counted)
    BY <1>2, FS_RemoveElement, FS_CardinalityType DEF IInv, CountInv
  <2>2. p \in Counted => Cardinality(Counted) > 0
    BY <2>1, FS_EmptySet DEF IInv, CountInv
  <2>3. p \notin Counted => Counted = {} /\ refcnt = 0
    BY FS_EmptySet DEF IInv, CountInv, Counted
  <2>4. refcnt' = Cardinality(Counted')
    BY <2>1, <2>2, <2>3 DEF IInv, CountInv
  <2> QED
    BY <1>1, <1>2, <2>1, <2>4 DEF IInv, CountInv
<1> QED
  BY <1>3, <1>4, <1>5, <1>6 DEF IInv

-----------------------------------------------------------------------------
(* the theorems *)

LEMMA StepInv == IInv /\ [Next]_vars => IInv'
<1> SUFFICES ASSUME IInv, [Next]_vars PROVE IInv'
  OBVIOUS
<1>1. CASE LoaderStep
  BY <1>1, LoaderInv, UnregisterInv DEF LoaderStep
<1>2. ASSUME NEW p \in Proc, ProcStep(p) PROVE IInv'
  BY <1>2, OutsideInv, AtomicCmpxchgInv, SprintfInv, TryModuleGetInv, ReadInv, PutUserInv,
     AtomicSetInv, ModulePutInv DEF ProcStep
<1>3. CASE UNCHANGED vars
  <2>1. /\ UNCHANGED <<mod, lpc, registered, node, already_open, counter, msg, refcnt, pc,
                       mine, counted, done, got>>
        /\ Owners' = Owners /\ Inside' = Inside /\ Counted' = Counted
    BY <1>3 DEF vars, Owners, Inside, Counted
  <2>2. TypeOK' /\ LoadInv' /\ InsideInv' /\ ExclusiveOpen'
    BY <2>1 DEF IInv, TypeOK, LoadInv, InsideInv, ExclusiveOpen
  <2>3. MessageInv' /\ MessageIsOwn' /\ CountInv'
    BY <2>1 DEF IInv, MessageInv, MessageIsOwn, CountInv
  <2> QED
    BY <2>2, <2>3 DEF IInv
<1> QED
  BY <1>1, <1>2, <1>3 DEF Next

\* The inductive invariant: where the loader is, who is inside the module, who
\* owns the device and its message, and who has a reference.
THEOREM Invariance == Spec => []IInv
BY InitInv, StepInv, PTL DEF Spec

\* Type correctness: in particular the usage count is never negative.
THEOREM TypeCorrect == Spec => []TypeOK
<1>1. IInv => TypeOK
  BY DEF IInv
<1> QED
  BY <1>1, Invariance, PTL

\* At most one process has the device, and the flag says whether one does,
\* through every race of opens, closes and rmmod (chardev.c:87-89, 102).
THEOREM OpenIsExclusive == Spec => []ExclusiveOpen
<1>1. IInv => ExclusiveOpen
  BY DEF IInv
<1> QED
  BY <1>1, Invariance, PTL

\* What a process reads is the message its own open printed (chardev.c:91, 130-135).
THEOREM MessagesAreOwn == Spec => []MessageIsOwn
<1>1. IInv => MessageIsOwn
  BY DEF IInv
<1> QED
  BY <1>1, Invariance, PTL

\* The usage count is the number of counted opens, although module_put is called
\* for those too that try_module_get refused (chardev.c:93, 106).
THEOREM CountIsAccurate == Spec => []UsageCountAccurate
<1>1. IInv => UsageCountAccurate
  BY DEF IInv, CountInv, Counted, UsageCountAccurate
<1> QED
  BY <1>1, Invariance, PTL

\* No step frees the module under a process whose open was counted
\* (chardev.c:93-106 against chardev_exit).
THEOREM CountedKeepsModule == Spec => CountedIsNotStranded
<1>1. IInv /\ [Next]_vars =>
        [\A p \in Proc : pc[p] # "stranded" /\ pc'[p] = "stranded" => ~counted[p]]_vars
  <2> SUFFICES ASSUME IInv, Next, NEW p \in Proc, pc[p] # "stranded", pc'[p] = "stranded"
               PROVE  ~counted[p]
    OBVIOUS
  <2>1. CASE UnregisterChrdev
    BY <2>1 DEF UnregisterChrdev, IInv, TypeOK, LoadInv, CountInv, Counted
  <2>2. CASE LoaderStep /\ ~UnregisterChrdev
    BY <2>2 DEF LoaderStep, Insmod, RegisterChrdev, DeviceCreate, Rmmod, DeviceDestroy
  <2>3. ASSUME NEW q \in Proc, ProcStep(q) PROVE FALSE
    BY <2>3 DEF ProcStep, Lookup, VfsOpen, AtomicCmpxchg, Busy, Sprintf, TryModuleGet,
                StartRead, PutUser, EndRead, AtomicSet, ModulePut, Leave, IInv, TypeOK
  <2> QED
    BY <2>1, <2>2, <2>3 DEF Next
<1> QED
  BY <1>1, Invariance, PTL DEF Spec, CountedIsNotStranded
=============================================================================
