------------------------------- MODULE Virtio -------------------------------
(***************************************************************************)
(* The disk driver virtio_disk.c: descriptors, the available and the used   *)
(* ring, processes that sleep in virtio_disk_rw and the interrupt. Every    *)
(* process transfers a buffer of its own (it holds the buffer's lock, see  *)
(* module Bio), here named after the process.                              *)
(*                                                                         *)
(* vdisk_lock is held from one step to the next where the disk can look    *)
(* in between. The disk is external: it fetches chains from the available  *)
(* ring, completes them in any order, and after that raises an interrupt.  *)
(* An entry that has been consumed is cleared here: in the code it keeps   *)
(* its old value, which nobody may read.                                   *)
(***************************************************************************)
EXTENDS Integers, Sequences, FiniteSets, FiniteSetsExt, Functions, Parts

CONSTANTS
  VdProcs,    \* processes
  VdWriters,  \* those that write; the others read
  NUM,        \* descriptors: 0 .. NUM - 1
  VdWrap      \* 2^16: the indices of the rings are uint16

ASSUME VdAssumption == NUM >= 3 /\ VdWrap % NUM = 0 /\ NUM <= VdWrap

VARIABLES
  vd,         \* struct disk: free, desc, ops, info, avail, used, used_idx
  vlock,      \* holder of vdisk_lock
  vp,         \* each process: pc, idx, and disk of its buffer
  vdev,        \* the device: seen (how far in avail), todo, finished, irq
  served,     \* transfers made for the present call of each process
  vdPanic

vdVars == <<vd, vlock, vp, vdev, served, vdPanic>>

VdNone == "nobody"
VdIntr == "intr"
Descs == 0 .. NUM - 1
NoDesc == [next |-> NUM, buf |-> VdNone]      \* a descriptor without a next
NoInfo == [b |-> VdNone, done |-> FALSE]
NoOp == [write |-> FALSE, sector |-> VdNone]

\* virtio_disk_init: zeroed rings, all descriptors free.
virtio_disk_init ==
  vd = [free |-> [i \in Descs |-> TRUE], desc |-> [i \in Descs |-> NoDesc],
        ops |-> [i \in Descs |-> NoOp],
        info |-> [i \in Descs |-> NoInfo],
        avail |-> [i \in Descs |-> NUM], avail_idx |-> 0,
        used |-> [i \in Descs |-> NUM], used_at |-> 0, used_idx |-> 0]

VdInit ==
  /\ virtio_disk_init
  /\ vlock = VdNone
  /\ vp = [p \in VdProcs |-> [pc |-> "out", idx |-> <<>>, disk |-> FALSE]]
  /\ vdev = [seen |-> 0, todo |-> {}, raise |-> FALSE, irq |-> FALSE]
  /\ served = [p \in VdProcs |-> <<>>]
  /\ vdPanic = FALSE

VdPc(p, pc) == ~vdPanic /\ vp[p].pc = pc
FreeDescs == {i \in Descs : vd.free[i]}
\* alloc_desc, three times: the lowest free ones.
alloc_desc(S) == Min(S)
Lowest3(S) ==
  LET a == alloc_desc(S)
      b == alloc_desc(S \ {a})
  IN  <<a, b, alloc_desc(S \ {a, b})>>

\* wakeup(&disk.free[0]).
VdWake(f) == [p \in VdProcs |-> IF f[p].pc = "nodesc" THEN [f[p] EXCEPT !.pc = "lock"] ELSE f[p]]

-----------------------------------------------------------------------------
(* virtio_disk_rw(b, write).                                               *)

VdCall(p) ==
  /\ VdPc(p, "out")
  /\ vp' = [vp EXCEPT ![p].pc = "lock"]
  /\ UNCHANGED <<vd, vlock, vdev, served, vdPanic>>

\* Variant: tries again at once and keeps the lock.
VdNoDesc_spin(p) ==
  /\ VdPc(p, "lock") /\ vlock \in {VdNone, p} /\ Cardinality(FreeDescs) < 3
  /\ vlock' = p
  /\ UNCHANGED <<vd, vp, vdev, served, vdPanic>>

\* alloc3_desc fails: what it took is freed again, and that wakes the others
\* who wait for descriptors. Then sleep.
VdNoDesc(p) ==
  /\ VdPc(p, "lock") /\ vlock = VdNone /\ Cardinality(FreeDescs) < 3
  /\ vp' = [(IF FreeDescs # {} THEN VdWake(vp) ELSE vp) EXCEPT ![p].pc = "nodesc"]
  /\ UNCHANGED <<vd, vlock, vdev, served, vdPanic>>

\* The three descriptors, the command and info[idx[0]].
Formatted(p, q) ==
  [vd EXCEPT !.free = [i \in Descs |-> @[i] /\ i \notin Range(q)],
             !.ops[q[1]] = [write |-> p \in VdWriters, sector |-> p],
             !.desc[q[1]] = [next |-> q[2], buf |-> VdNone],
             !.desc[q[2]] = [next |-> q[3], buf |-> p],
             !.desc[q[3]] = [next |-> NUM, buf |-> VdNone],
             !.info[q[1]] = [b |-> p, done |-> FALSE]]

\* Variant: the entry of the ring is written after the index.
Listed_late(d, h) == [d EXCEPT !.avail_idx = (@ + 1) % VdWrap]

\* avail->ring[avail->idx % NUM] = idx[0].
Listed(d, h) == [d EXCEPT !.avail[d.avail_idx % NUM] = h]

VdFormat(p) ==
  /\ VdPc(p, "lock") /\ vlock = VdNone /\ Cardinality(FreeDescs) >= 3
  /\ \E q \in {Lowest3(FreeDescs)} :
       /\ vd' = Listed(Formatted(p, q), q[1])
       /\ vp' = [vp EXCEPT ![p].pc = "publish", ![p].idx = q, ![p].disk = TRUE]
  /\ vlock' = p
  /\ UNCHANGED <<vdev, served, vdPanic>>

\* avail->idx += 1, and the loop that waits for the interrupt.
VdPublish(p) ==
  /\ VdPc(p, "publish")
  /\ vd' = [vd EXCEPT !.avail_idx = (@ + 1) % VdWrap]
  /\ vp' = [vp EXCEPT ![p].pc = "asleep"]
  /\ vlock' = VdNone
  /\ UNCHANGED <<vdev, served, vdPanic>>

\* Variant: the last descriptor of the chain stays.
Chain_short(h) == {h, vd.desc[h].next}

\* free_chain(h): the descriptors reached by next.
Chain(h) == {h} \cup {vd.desc[h].next}
              \cup (IF vd.desc[h].next = NUM THEN {} ELSE {vd.desc[vd.desc[h].next].next})

\* virtio_disk_rw after the loop.
VdReturn(p) ==
  /\ VdPc(p, "woken") /\ vlock = VdNone /\ ~vp[p].disk
  /\ \E h \in {vp[p].idx[1]} :
    /\ vdPanic' = (\E i \in Chain(h) : i \notin Descs \/ vd.free[i])
    /\ vd' = [vd EXCEPT !.info[h] = NoInfo, !.ops[h] = NoOp,
                        !.free = [i \in Descs |-> @[i] \/ i \in Chain(h)],
                        !.desc = [i \in Descs |-> IF i \in Chain(h) THEN NoDesc ELSE @[i]]]
    /\ vp' = [VdWake(vp) EXCEPT ![p].pc = "out", ![p].idx = <<>>]
    /\ served' = [served EXCEPT ![p] = <<>>]
    /\ UNCHANGED <<vlock, vdev>>

-----------------------------------------------------------------------------
(* virtio_disk_intr().                                                     *)

VdIntrStart ==
  /\ ~vdPanic /\ vdev.irq /\ vlock = VdNone
  /\ vlock' = VdIntr
  /\ vdev' = [vdev EXCEPT !.irq = FALSE]
  /\ UNCHANGED <<vd, vp, served, vdPanic>>

\* Variant: the buffer of the oldest request is the one that is done.
Completed_fifo(id) == CHOOSE p \in VdProcs : vp[p].disk

\* The buffer whose request is done.
Completed(id) == vd.info[id].b

\* One entry of the used ring.
VdIntrEntry ==
  /\ ~vdPanic /\ vlock = VdIntr /\ vd.used_idx # vd.used_at
  /\ \E id \in {vd.used[vd.used_idx % NUM]} :
    /\ vdPanic' = (id = NUM \/ ~vd.info[id].done \/ vd.info[id].b = VdNone)
    /\ vp' = [p \in VdProcs |-> IF p # Completed(id) THEN vp[p]
                ELSE [vp[p] EXCEPT !.disk = FALSE, !.pc = IF @ = "asleep" THEN "woken" ELSE @]]
    /\ vd' = [vd EXCEPT !.used_idx = (@ + 1) % VdWrap, !.used[vd.used_idx % NUM] = NUM]
    /\ UNCHANGED <<vlock, vdev, served>>

IntrDone == vd.used_idx = vd.used_at

VdIntrEnd ==
  /\ ~vdPanic /\ vlock = VdIntr /\ IntrDone
  /\ vlock' = VdNone
  /\ UNCHANGED <<vd, vp, vdev, served, vdPanic>>

-----------------------------------------------------------------------------
(* The device.                                                             *)

DevFetch ==
  /\ ~vdPanic /\ vdev.seen # vd.avail_idx
  /\ vdev' = [vdev EXCEPT !.seen = (@ + 1) % VdWrap,
                        !.todo = @ \cup {vd.avail[vdev.seen % NUM]}]
  /\ vd' = [vd EXCEPT !.avail[vdev.seen % NUM] = NUM]
  /\ UNCHANGED <<vlock, vp, served, vdPanic>>

\* The transfer that the chain of h describes, its status, and the used ring.
DevTransfer(h) ==
  /\ ~vdPanic /\ h \in vdev.todo
  /\ served' = [p \in VdProcs |-> IF vd.desc[h].next # NUM /\ vd.desc[vd.desc[h].next].buf = p
                                    THEN Append(served[p], vd.ops[h]) ELSE served[p]]
  /\ vd' = [vd EXCEPT !.info[h].done = TRUE, !.used[vd.used_at % NUM] = h,
                      !.used_at = (@ + 1) % VdWrap]
  /\ vdev' = [vdev EXCEPT !.todo = @ \ {h}, !.raise = TRUE]
  /\ UNCHANGED <<vlock, vp, vdPanic>>

DevRaise ==
  /\ ~vdPanic /\ vdev.raise
  /\ vdev' = [vdev EXCEPT !.raise = FALSE, !.irq = TRUE]
  /\ UNCHANGED <<vd, vlock, vp, served, vdPanic>>

VdStep(p) == VdNoDesc(p) \/ VdFormat(p) \/ VdPublish(p) \/ VdReturn(p)
VdHandler == VdIntrStart \/ VdIntrEntry \/ VdIntrEnd
Device == DevFetch \/ DevRaise \/ \E h \in Descs : DevTransfer(h)

DevFor(p) == \E h \in Descs : vd.info[h].b = p /\ DevTransfer(h)

VdNext == (\E p \in VdProcs : VdCall(p) \/ VdStep(p)) \/ VdHandler \/ Device

VdSpec == VdInit /\ [][VdNext]_vdVars

\* Processes and handler get the lock if it is free again and again; the disk
\* completes every request.
VdFair ==
  /\ \A p \in VdProcs : SF_vdVars(VdStep(p))
  /\ SF_vdVars(VdHandler)
  /\ WF_vdVars(DevFetch) /\ WF_vdVars(DevRaise)
  /\ \A p \in VdProcs : WF_vdVars(DevFor(p))

-----------------------------------------------------------------------------
(* Properties.                                                             *)

VdBusy(p) == Range(vp[p].idx)
VdLists(p) == vp[p].pc \in {"publish", "asleep", "woken"}

\* Types; a descriptor is free exactly if no request in progress has it, and no
\* two requests share one.
VdTypeOK ==
  In("virtio") =>
    /\ \A i \in Descs : vd.free[i] <=> \A p \in VdProcs : i \notin VdBusy(p)
    /\ \A p, q \in VdProcs : p # q => VdBusy(p) \cap VdBusy(q) = {}
    /\ \A p \in VdProcs : Len(vp[p].idx) = IF VdLists(p) THEN 3 ELSE 0
    /\ vlock \in VdProcs \cup {VdNone, VdIntr}

\* What the disk was given and has not completed is a chain of three
\* descriptors of a process that waits: it never sees one that was freed or is
\* not formatted yet, and never writes to a buffer that was given back.
Unseen == {vd.avail[(vdev.seen + k) % NUM] :
             k \in 0 .. ((vd.avail_idx - vdev.seen) % VdWrap) - 1}
ChainsIntact ==
  In("virtio") /\ ~vdPanic => \A h \in vdev.todo \cup Unseen :
      \E p \in VdProcs : /\ vp[p].idx # <<>> /\ vp[p].idx[1] = h
                         /\ vp[p].pc = "asleep" /\ vp[p].disk
                         /\ Chain(h) = VdBusy(p)

\* virtio_disk_rw returns when its own transfer, of its own kind, has been made,
\* once, in whatever order the disk completes the requests.
ServedOnReturn ==
  In("virtio") =>
    \A p \in VdProcs : vp[p].pc = "woken" /\ ~vp[p].disk =>
      served[p] = <<[write |-> p \in VdWriters, sector |-> p]>>

\* No panic: completed requests have a status and a buffer, and no descriptor
\* is freed twice.
NoVdPanic ==
  In("virtio") =>
    ~vdPanic

\* A request that was given to the disk returns: no interrupt is lost between
\* the acknowledgement and the scan of the used ring, whatever completes in
\* between.
RwReturns == \A p \in VdProcs : vp[p].pc = "asleep" ~> vp[p].pc = "out"

\* What bio.c takes for granted of the driver, whatever the order in which the
\* disk completes requests.
DiskSound == VdTypeOK /\ ChainsIntact /\ ServedOnReturn /\ NoVdPanic
=============================================================================
