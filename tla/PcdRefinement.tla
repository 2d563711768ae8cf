---------------------------- MODULE PcdRefinement ----------------------------
(***************************************************************************)
(* The driver of PcdOps implements PcdAtomic.  A call takes effect when it *)
(* acquires the mutex: from then on nobody else touches the device until   *)
(* the call releases it, so the abstract buffer already holds all a write  *)
(* is about to store, and the abstract read has already been delivered.    *)
(***************************************************************************)
EXTENDS PcdOps

\* The mutex of d is held and its holder will not release it: it is not in a
\* copy that can succeed any more.
Wedged(d) ==
    /\ lock[d] # NoProc
    /\ LET p == lock[d]
       IN  pc[p] = "copy" /\ DevOf(p) = d => arg[p].limit < count[p]

InCopy(p, op) == pc[p] = "copy" /\ arg[p].op = op

\* The copy of p will meet an unmapped byte.
WillFault(p) == arg[p].limit < count[p]

\* How many bytes the copy of p transfers in all.
Reach(p) == IF WillFault(p) THEN arg[p].limit ELSE count[p]

\* The cells the write of p has still to change, and to what.
Pending(p, d) ==
    IF InCopy(p, "write") /\ DevOf(p) = d
    THEN (pos[p] + done[p])..(pos[p] + count[p] - 1)
    ELSE {}

\* The writer, if there is one, is the holder of the mutex.
MemBar ==
    [d \in Dev |-> [k \in DOMAIN mem[d] |->
        LET p == lock[d]
        IN  IF p # NoProc /\ k \in Pending(p, d)
            THEN IF k < pos[p] + Reach(p) THEN arg[p].byte ELSE Zero
            ELSE mem[d][k]]]

StBar == [p \in Proc |->
    IF pc[p] = "idle" THEN "idle" ELSE IF pc[p] = "lock" THEN "called" ELSE "done"]

PosBar == [p \in Proc |->
    IF pc[p] = "copy" /\ ~WillFault(p) THEN pos[p] + count[p] ELSE pos[p]]

GotBar == [p \in Proc |->
    IF InCopy(p, "read")
    THEN [i \in 1..Reach(p) |-> mem[DevOf(p)][pos[p] + i - 1]]
    ELSE got[p]]

RetBar == [p \in Proc |->
    IF pc[p] = "copy" THEN IF WillFault(p) THEN EFAULT ELSE count[p]
    ELSE ret[p]]

Atomic == INSTANCE PcdAtomic WITH
    mem <- MemBar, wedged <- [d \in Dev |-> Wedged(d)], st <- StBar,
    pos <- PosBar, got <- GotBar, ret <- RetBar

\* Every behaviour of pcd_read and pcd_write is one in which each call takes
\* effect on its device in a single step between the call and its return.
ImplementsAtomic == Atomic!Spec
=============================================================================
