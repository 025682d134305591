--------------------------- MODULE ComputeDriver ---------------------------
(***************************************************************************)
(* The Linux PCI driver kernel/uad2_compute.c: probe, remove, open,        *)
(* release and ioctl, and the start, stop and reset sequences they run     *)
(* under the device mutex.                                                 *)
(*                                                                         *)
(* An actor is a client (one open file and the thread that uses it) or     *)
(* Core, the PCI core, which serialises probe and remove.  Every probe     *)
(* allocates a new uad2_compute_device, named by its generation; a client  *)
(* that still has a file of an old generation open keeps that structure    *)
(* alive while a new one is probed.  Every register access of the long     *)
(* sequences is a step, so the card and the other actors run in between.   *)
(***************************************************************************)
EXTENDS UadCard

CONSTANTS
  Clients,  \* threads of user space, each with at most one open file
  Core,     \* the PCI core
  Nobody    \* the owner of a free mutex

Actors == Clients \cup {Core}

ASSUME ActorAssumption ==
  /\ IsFiniteSet(Clients)
  /\ Core \notin Clients
  /\ Nobody \notin Actors

VARIABLES
  \* the PCI function and the driver's globals
  master,   \* the bus-master bit of the PCI command register
  bound,    \* generation in the PCI driver data, 0 for none
  misc,     \* generation whose device node is registered, 0 for none
  nextGen,  \* uad2_next_index
  \* struct uad2_compute_device, by generation
  started, removing,
  ref,      \* kref; the structure is freed when it reaches 0
  owner,    \* holder of the mutex
  held,     \* PCI resources acquired for it
  pages,    \* coherent pages allocated to it
  \* the actors
  file,     \* generation a client has open, 0 for none
  pc, dv, op, dsp, ring, toWrite, toClear, wasReady, ret

devVars == <<started, removing, ref, owner, held, pages>>
busVars == <<master, bound, misc, nextGen>>
argVars == <<dv, op, dsp>>
loopVars == <<ring, toWrite, toClear, wasReady>>
vars == <<cardVars, busVars, devVars, file, pc, argVars, loopVars, ret>>

Resources == {"enabled", "region", "bar"}
Commands == {"info", "status", "start", "stop", "reset", "unknown"}
Errors == {"EBUSY", "EIO", "EPIPE", "EINVAL", "EPERM", "EFAULT", "ENODEV",
           "ENOTTY"}

StartPCs == {"setMaster", "quiesce", "resetGlobal", "globalOnly", "ringIndex",
             "ringDesc", "enable", "verify"}
TeardownPCs == {"tdInt", "tdReset", "tdGlobal", "tdClear", "tdCold",
                "tdMaster", "tdCheck"}
ResetPCs == {"pulse", "unpulse", "reenable", "resetCheck"}
ProbePCs == {"pEnable", "pRegion", "pMap", "pCold", "pAlloc", "pRegister"}
UnwindPCs == {"uFree", "uUnmap", "uRegion", "uDisable", "uPut"}
PCs == {"idle", "open", "lock", "switch", "unlock", "rDeregister", "rLock",
        "rUnlock"} \cup StartPCs \cup TeardownPCs \cup ResetPCs
         \cup ProbePCs \cup UnwindPCs

----------------------------------------------------------------------------
Init ==
  /\ CardInit
  /\ master = FALSE
  /\ bound = 0 /\ misc = 0 /\ nextGen = 0
  /\ started = [g \in Gens |-> FALSE]
  /\ removing = [g \in Gens |-> FALSE]
  /\ ref = [g \in Gens |-> 0]
  /\ owner = [g \in Gens |-> Nobody]
  /\ held = [g \in Gens |-> {}]
  /\ pages = [g \in Gens |-> {}]
  /\ file = [c \in Clients |-> 0]
  /\ pc = [a \in Actors |-> "idle"]
  /\ dv = [a \in Actors |-> 0]
  /\ op = [a \in Actors |-> "none"]
  /\ dsp = [a \in Actors |-> 0]
  /\ ring = [a \in Actors |-> 0]
  /\ toWrite = [a \in Actors |-> {}]
  /\ toClear = [a \in Actors |-> {}]
  /\ wasReady = [a \in Actors |-> FALSE]
  /\ ret = [a \in Actors |-> "ok"]

----------------------------------------------------------------------------
(* Helpers.                                                                *)

At(a, l) == pc[a] = l
Goto(a, l) == pc' = [pc EXCEPT ![a] = l]

\* The mutex is released with this result.
Finish(a, r) == Goto(a, "unlock") /\ ret' = [ret EXCEPT ![a] = r]

\* The next element of a loop over dsp, ring, page and half, in program order.
FirstRing(x, S) == \A y \in S : 2 * x[1] + x[2] <= 2 * y[1] + y[2]
FirstSlot(s, S) == \A t \in S : 2 * s[3] + s[4] <= 2 * t[3] + t[4]

RingSlots(d, r) == {s \in DescSlots : s[1] = d /\ s[2] = r}

\* kref_put: the structure is gone when the count reaches 0.
KrefPut(g) == ref' = [ref EXCEPT ![g] = @ - 1]

----------------------------------------------------------------------------
(* Files.  misc_open holds misc_mtx while uad2_open runs, which            *)
(* misc_deregister also takes: see RemoveDeregister.                       *)

OpenCall(c) ==
  /\ At(c, "idle") /\ file[c] = 0 /\ misc # 0
  /\ \A b \in Clients : ~ At(b, "open")
  /\ Goto(c, "open")
  /\ dv' = [dv EXCEPT ![c] = misc]
  /\ UNCHANGED <<cardVars, busVars, devVars, file, op, dsp, loopVars, ret>>

\* Mutant: the file takes no reference of its own.
Open_NoGet(c) ==
  /\ At(c, "open") /\ owner[dv[c]] = Nobody
  /\ file' = [file EXCEPT ![c] = IF removing[dv[c]] THEN 0 ELSE dv[c]]
  /\ Goto(c, "idle")
  /\ dv' = [dv EXCEPT ![c] = 0]
  /\ UNCHANGED <<cardVars, busVars, devVars, op, dsp, loopVars, ret>>

\* uad2_open, entirely under the mutex; kref_get_unless_zero.
Open(c) ==
  LET g == dv[c]
      refused == removing[g] \/ ref[g] = 0
  IN  /\ At(c, "open") /\ owner[g] = Nobody
      /\ file' = [file EXCEPT ![c] = IF refused THEN 0 ELSE g]
      /\ ref' = [ref EXCEPT ![g] = IF refused THEN @ ELSE @ + 1]
      /\ Goto(c, "idle")
      /\ dv' = [dv EXCEPT ![c] = 0]
      /\ UNCHANGED <<cardVars, busVars, started, removing, owner, held, pages,
                     op, dsp, loopVars, ret>>

\* uad2_release: the transport is left as it is.
Release(c) ==
  /\ At(c, "idle") /\ file[c] # 0
  /\ KrefPut(file[c])
  /\ file' = [file EXCEPT ![c] = 0]
  /\ UNCHANGED <<cardVars, busVars, started, removing, owner, held, pages, pc,
                 argVars, loopVars, ret>>

----------------------------------------------------------------------------
(* uad2_ioctl.                                                             *)

\* The dsp_index argument may be out of range; NDsp stands for such values.  A
\* command of another magic returns -ENOTTY before the lock and changes nothing.
IoctlCall(c) ==
  /\ At(c, "idle") /\ file[c] # 0
  /\ Goto(c, "lock")
  /\ dv' = [dv EXCEPT ![c] = file[c]]
  /\ \E o \in Commands, d \in 0 .. NDsp :
       /\ (o \notin {"status", "reset"}) => d = 0
       /\ op' = [op EXCEPT ![c] = o]
       /\ dsp' = [dsp EXCEPT ![c] = d]
  /\ UNCHANGED <<cardVars, busVars, devVars, file, loopVars, ret>>

\* Mutant: the removing flag is not looked at.
Lock_NoRemovingCheck(c) ==
  /\ At(c, "lock") /\ owner[dv[c]] = Nobody
  /\ owner' = [owner EXCEPT ![dv[c]] = c]
  /\ Goto(c, "switch")
  /\ UNCHANGED <<cardVars, busVars, started, removing, ref, held, pages, file,
                 argVars, loopVars, ret>>

Lock(c) ==
  /\ At(c, "lock") /\ owner[dv[c]] = Nobody
  /\ owner' = [owner EXCEPT ![dv[c]] = c]
  /\ IF removing[dv[c]] THEN Finish(c, "ENODEV")
                        ELSE Goto(c, "switch") /\ UNCHANGED ret
  /\ UNCHANGED <<cardVars, busVars, started, removing, ref, held, pages, file,
                 argVars, loopVars>>

\* Commands that change nothing: GET_INFO, GET_DSP_STATUS and the default case.
Query(c) ==
  /\ At(c, "switch") /\ op[c] \in {"info", "status", "unknown"}
  /\ \E copied, sizeOk \in BOOLEAN :
       Finish(c, CASE op[c] = "unknown" -> "ENOTTY"
                   [] op[c] # "unknown" /\ ~ copied -> "EFAULT"
                   [] /\ op[c] = "status" /\ copied
                      /\ ~ sizeOk \/ dsp[c] \notin DSPS -> "EINVAL"
                   [] OTHER -> "ok")
  /\ UNCHANGED <<cardVars, busVars, devVars, file, argVars, loopVars>>

\* Mutant: -EPERM is returned without unlocking the device.
NotCapable_ReturnsLocked(c) ==
  /\ At(c, "switch") /\ op[c] \in {"start", "stop", "reset"}
  /\ Goto(c, "idle")
  /\ UNCHANGED <<cardVars, busVars, devVars, file, argVars, loopVars, ret>>

\* capable(CAP_SYS_RAWIO) fails.
NotCapable(c) ==
  /\ At(c, "switch") /\ op[c] \in {"start", "stop", "reset"}
  /\ Finish(c, "EPERM")
  /\ UNCHANGED <<cardVars, busVars, devVars, file, argVars, loopVars>>

Unlock(c) ==
  /\ c \in Clients /\ At(c, "unlock")
  /\ owner' = [owner EXCEPT ![dv[c]] = Nobody]
  /\ Goto(c, "idle")
  /\ dv' = [dv EXCEPT ![c] = 0]
  /\ op' = [op EXCEPT ![c] = "none"]
  /\ dsp' = [dsp EXCEPT ![c] = 0]
  /\ ret' = [ret EXCEPT ![c] = "ok"]
  /\ UNCHANGED <<cardVars, busVars, started, removing, ref, held, pages, file,
                 loopVars>>

----------------------------------------------------------------------------
(* uad2_start_locked.                                                      *)

\* The early returns; the memset of the pages has no effect here.
StartEnter(c) ==
  /\ At(c, "switch") /\ op[c] = "start"
  /\ IF started[dv[c]] THEN Finish(c, "ok")
     ELSE IF ~ ColdPrecondition THEN Finish(c, "EBUSY")
     ELSE Goto(c, "setMaster") /\ UNCHANGED ret
  /\ UNCHANGED <<cardVars, busVars, devVars, file, argVars, loopVars>>

SetMaster(c) ==
  /\ At(c, "setMaster")
  /\ master' = TRUE
  /\ Goto(c, "quiesce")
  /\ UNCHANGED <<cardVars, bound, misc, nextGen, devVars, file, argVars,
                 loopVars, ret>>

Quiesce(c) ==
  /\ At(c, "quiesce")
  /\ DisableInterrupts
  /\ Goto(c, "resetGlobal")
  /\ UNCHANGED <<busVars, devVars, file, argVars, loopVars, ret>>

ResetGlobal(c) ==
  /\ At(c, "resetGlobal")
  /\ WriteDma(RESET_GLOBAL)
  /\ Goto(c, "globalOnly")
  /\ UNCHANGED <<busVars, devVars, file, argVars, loopVars, ret>>

GlobalOnly(c) ==
  /\ At(c, "globalOnly")
  /\ WriteDma(GLOBAL_ONLY)
  /\ Goto(c, "ringIndex")
  /\ dsp' = [dsp EXCEPT ![c] = 0]
  /\ ring' = [ring EXCEPT ![c] = 0]
  /\ toWrite' = [toWrite EXCEPT ![c] = DescSlots]
  /\ UNCHANGED <<busVars, devVars, file, dv, op, toClear, wasReady, ret>>

\* Mutant: the host index is one ahead of the hardware index.
RingIndex_Ahead(c) ==
  /\ At(c, "ringIndex")
  /\ WriteIndexes(<<dsp[c], ring[c]>>,
                  IF ReadIndex(<<dsp[c], ring[c]>>) + 1 >= Entries THEN 0
                  ELSE ReadIndex(<<dsp[c], ring[c]>>) + 1)
  /\ Goto(c, "ringDesc")
  /\ UNCHANGED <<busVars, devVars, file, argVars, loopVars, ret>>

\* uad2_initialize_ring: the bounded hardware index goes to +0x24 and +0x20.
RingIndex(c) ==
  LET x == <<dsp[c], ring[c]>>
      index == IF ReadIndex(x) >= Entries THEN 0 ELSE ReadIndex(x)
  IN  /\ At(c, "ringIndex")
      /\ WriteIndexes(x, index)
      /\ Goto(c, "ringDesc")
      /\ UNCHANGED <<busVars, devVars, file, argVars, loopVars, ret>>

\* uad2_initialize_ring: one half of one page address.
RingDesc(c) ==
  /\ At(c, "ringDesc")
  /\ \E s \in toWrite[c] \cap RingSlots(dsp[c], ring[c]) :
       /\ FirstSlot(s, toWrite[c] \cap RingSlots(dsp[c], ring[c]))
       /\ WriteDesc(s, dv[c])
       /\ toWrite' = [toWrite EXCEPT ![c] = @ \ {s}]
  /\ UNCHANGED <<busVars, devVars, file, pc, argVars, ring, toClear, wasReady,
                 ret>>

\* Mutant: the DSP is enabled after its command ring alone.
RingDone_OneRing(c) ==
  /\ At(c, "ringDesc")
  /\ toWrite[c] \cap RingSlots(dsp[c], ring[c]) = {}
  /\ Goto(c, "enable")
  /\ UNCHANGED <<cardVars, busVars, devVars, file, argVars, loopVars, ret>>

\* The loop over the rings of one DSP goes on to the next ring, or to the
\* enable shadow.
RingDone(c) ==
  /\ At(c, "ringDesc")
  /\ toWrite[c] \cap RingSlots(dsp[c], ring[c]) = {}
  /\ ring' = [ring EXCEPT ![c] = 1 - @]
  /\ Goto(c, IF ring[c] = 0 THEN "ringIndex" ELSE "enable")
  /\ UNCHANGED <<cardVars, busVars, devVars, file, argVars, toWrite, toClear,
                 wasReady, ret>>

Enable(c) ==
  /\ At(c, "enable")
  /\ WriteDma(EnableUpTo(dsp[c]))
  /\ IF dsp[c] = NDsp - 1
     THEN Goto(c, "verify") /\ dsp' = [dsp EXCEPT ![c] = 0]
     ELSE Goto(c, "ringIndex") /\ dsp' = [dsp EXCEPT ![c] = @ + 1]
  /\ UNCHANGED <<busVars, devVars, file, dv, op, loopVars, ret>>

\* The readback check: success, or the first step of the rollback.
Verify(c) ==
  LET good == ReadDma = ALL_DSPS /\ RingsPublished(dv[c]) /\ AllDspsReady
  IN  /\ At(c, "verify")
      /\ IF good
         THEN started' = [started EXCEPT ![dv[c]] = TRUE] /\ Finish(c, "ok")
         ELSE Goto(c, "tdInt") /\ UNCHANGED <<started, ret>>
      /\ UNCHANGED <<cardVars, busVars, removing, ref, owner, held, pages, file,
                     argVars, loopVars>>

----------------------------------------------------------------------------
(* uad2_stop_locked, and the same register sequence as the rollback of     *)
(* uad2_start_locked.  Core runs it from uad2_remove.                      *)

StopEnter(c) ==
  /\ At(c, "switch") /\ op[c] = "stop"
  /\ IF started[dv[c]] THEN Goto(c, "tdInt") /\ UNCHANGED ret
                       ELSE Finish(c, "ok")
  /\ UNCHANGED <<cardVars, busVars, devVars, file, argVars, loopVars>>

TdInt(a) ==
  /\ At(a, "tdInt")
  /\ DisableInterrupts
  /\ Goto(a, "tdReset")
  /\ UNCHANGED <<busVars, devVars, file, argVars, loopVars, ret>>

TdReset(a) ==
  /\ At(a, "tdReset")
  /\ WriteDma(RESET_GLOBAL)
  /\ Goto(a, "tdGlobal")
  /\ UNCHANGED <<busVars, devVars, file, argVars, loopVars, ret>>

TdGlobal(a) ==
  /\ At(a, "tdGlobal")
  /\ WriteDma(GLOBAL_ONLY)
  /\ Goto(a, "tdClear")
  /\ toClear' = [toClear EXCEPT ![a] = RingIds]
  /\ UNCHANGED <<busVars, devVars, file, argVars, ring, toWrite, wasReady, ret>>

\* uad2_clear_all_rings, one ring window at a time.
TdClear(a) ==
  /\ At(a, "tdClear")
  /\ \E x \in toClear[a] :
       /\ FirstRing(x, toClear[a])
       /\ ClearRing(x)
       /\ toClear' = [toClear EXCEPT ![a] = @ \ {x}]
       /\ Goto(a, IF toClear[a] = {x} THEN "tdCold" ELSE "tdClear")
  /\ UNCHANGED <<busVars, devVars, file, argVars, ring, toWrite, wasReady, ret>>

TdCold(a) ==
  /\ At(a, "tdCold")
  /\ WriteDma(COLD_RESET)
  /\ Goto(a, "tdMaster")
  /\ UNCHANGED <<busVars, devVars, file, argVars, loopVars, ret>>

\* Mutant: bus mastering is left on.
TdMaster_KeepMaster(a) ==
  /\ At(a, "tdMaster")
  /\ IF op[a] = "start"
     THEN Finish(a, "EIO") /\ UNCHANGED started
     ELSE /\ Goto(a, "tdCheck")
          /\ started' = [started EXCEPT ![dv[a]] = FALSE]
          /\ UNCHANGED ret
  /\ UNCHANGED <<cardVars, busVars, removing, ref, owner, held, pages, file,
                 argVars, loopVars>>

\* Mutant: the rollback forgets that the start failed.
TdMaster_RollbackOk(a) ==
  /\ At(a, "tdMaster")
  /\ master' = FALSE
  /\ IF op[a] = "start"
     THEN Finish(a, "ok") /\ UNCHANGED started
     ELSE /\ Goto(a, "tdCheck")
          /\ started' = [started EXCEPT ![dv[a]] = FALSE]
          /\ UNCHANGED ret
  /\ UNCHANGED <<cardVars, bound, misc, nextGen, removing, ref, owner, held,
                 pages, file, argVars, loopVars>>

\* The rollback returns -EIO here; a stop goes on to clear started.
TdMaster(a) ==
  /\ At(a, "tdMaster")
  /\ master' = FALSE
  /\ IF op[a] = "start"
     THEN Finish(a, "EIO") /\ UNCHANGED started
     ELSE /\ Goto(a, "tdCheck")
          /\ started' = [started EXCEPT ![dv[a]] = FALSE]
          /\ UNCHANGED ret
  /\ UNCHANGED <<cardVars, bound, misc, nextGen, removing, ref, owner, held,
                 pages, file, argVars, loopVars>>

\* recovered = cold precondition; uad2_remove only logs the result.
TdCheck(a) ==
  /\ At(a, "tdCheck")
  /\ IF op[a] = "stop"
     THEN Finish(a, IF ColdPrecondition THEN "ok" ELSE "EIO")
     ELSE Goto(a, "uFree") /\ UNCHANGED ret
  /\ UNCHANGED <<cardVars, busVars, devVars, file, argVars, loopVars>>

----------------------------------------------------------------------------
(* uad2_reset_dsp_locked.  The DMA word before is ALL_DSPS, so disabled is *)
(* that word without the enable bit of the DSP.                            *)

\* Mutant: every enable bit is dropped around the pulse.
Disabled_All(d) == GLOBAL_ONLY

Disabled(d) == [ALL_DSPS EXCEPT !.enable = DSPS \ {d}]

\* Mutant: the DSP index is not checked.
ResetEnter_AnyDsp(c) ==
  /\ At(c, "switch") /\ op[c] = "reset"
  /\ started[dv[c]] /\ ReadDma = ALL_DSPS
  /\ Goto(c, "pulse")
  /\ UNCHANGED <<cardVars, busVars, devVars, file, argVars, loopVars, ret>>

\* The copy from the user and the early returns, in their order.
ResetEnter(c) ==
  /\ At(c, "switch") /\ op[c] = "reset"
  /\ \E copied, sizeOk, flagsClear \in BOOLEAN :
       IF ~ copied THEN Finish(c, "EFAULT")
       ELSE IF ~ sizeOk THEN Finish(c, "EINVAL")
       ELSE IF ~ started[dv[c]] THEN Finish(c, "EPIPE")
       ELSE IF dsp[c] \notin DSPS \/ ~ flagsClear THEN Finish(c, "EINVAL")
       ELSE IF ReadDma # ALL_DSPS THEN Finish(c, "EBUSY")
       ELSE Goto(c, "pulse") /\ UNCHANGED ret
  /\ UNCHANGED <<cardVars, busVars, devVars, file, argVars, loopVars>>

Pulse(c) ==
  /\ At(c, "pulse")
  /\ WriteDma([Disabled(dsp[c]) EXCEPT !.reset = {dsp[c]}])
  /\ Goto(c, "unpulse")
  /\ UNCHANGED <<busVars, devVars, file, argVars, loopVars, ret>>

\* The pulse ends; msleep(10) follows.
Unpulse(c) ==
  /\ At(c, "unpulse")
  /\ WriteDma(Disabled(dsp[c]))
  /\ Goto(c, "reenable")
  /\ UNCHANGED <<busVars, devVars, file, argVars, loopVars, ret>>

\* The word is restored whether or not the DSP came back.
Reenable(c) ==
  /\ At(c, "reenable")
  /\ wasReady' = [wasReady EXCEPT ![c] = ReadReady(dsp[c])]
  /\ WriteDma(ALL_DSPS)
  /\ Goto(c, "resetCheck")
  /\ UNCHANGED <<busVars, devVars, file, argVars, ring, toWrite, toClear, ret>>

\* The result is copied to the user only when it is 0.
ResetCheck(c) ==
  LET good == /\ wasReady[c]
              /\ ReadDma = ALL_DSPS
              /\ ReadReady(dsp[c])
  IN  /\ At(c, "resetCheck")
      /\ \E copied \in BOOLEAN :
           Finish(c, CASE ~ good -> "EIO"
                       [] good /\ ~ copied -> "EFAULT"
                       [] OTHER -> "ok")
      /\ wasReady' = [wasReady EXCEPT ![c] = FALSE]
      /\ UNCHANGED <<cardVars, busVars, devVars, file, argVars, ring, toWrite,
                     toClear>>

----------------------------------------------------------------------------
(* uad2_probe: every acquisition may fail and unwinds to its label.        *)

ProbeCall ==
  /\ At(Core, "idle") /\ bound = 0 /\ nextGen < MaxGen
  /\ nextGen' = nextGen + 1
  /\ bound' = nextGen + 1
  /\ ref' = [ref EXCEPT ![nextGen + 1] = 1]
  /\ dv' = [dv EXCEPT ![Core] = nextGen + 1]
  /\ op' = [op EXCEPT ![Core] = "probe"]
  /\ Goto(Core, "pEnable")
  /\ UNCHANGED <<cardVars, master, misc, started, removing, owner, held, pages,
                 file, dsp, loopVars, ret>>

\* One acquisition: the resource is obtained, or the unwind label is taken.
Acquire(from, res, next, unwind) ==
  /\ At(Core, from)
  /\ \/ /\ held' = [held EXCEPT ![dv[Core]] = @ \cup {res}]
        /\ Goto(Core, next)
     \/ Goto(Core, unwind) /\ UNCHANGED held
  /\ UNCHANGED <<cardVars, busVars, started, removing, ref, owner, pages, file,
                 argVars, loopVars, ret>>

ProbeEnable == Acquire("pEnable", "enabled", "pRegion", "uPut")
ProbeRegion == Acquire("pRegion", "region", "pMap", "uDisable")
\* Mutant: a failed mapping unwinds to the wrong label.
ProbeMap_WrongLabel == Acquire("pMap", "bar", "pCold", "uDisable")

\* dma_set_mask_and_coherent fails to the same label.
ProbeMap    == Acquire("pMap", "bar", "pCold", "uRegion")

ProbeCold ==
  /\ At(Core, "pCold")
  /\ Goto(Core, IF ColdPrecondition THEN "pAlloc" ELSE "uUnmap")
  /\ UNCHANGED <<cardVars, busVars, devVars, file, argVars, loopVars, ret>>

\* uad2_allocate_pages: one page, or -ENOMEM with the earlier ones still held.
ProbeAlloc ==
  LET missing == PageSlots \ pages[dv[Core]]
  IN  /\ At(Core, "pAlloc")
      /\ \/ \E p \in missing :
              /\ \A q \in missing : /\ 2 * p[1] + p[2] <= 2 * q[1] + q[2]
                                    /\ (p[1] = q[1] /\ p[2] = q[2]) => p[3] <= q[3]
              /\ pages' = [pages EXCEPT ![dv[Core]] = @ \cup {p}]
              /\ Goto(Core, IF missing = {p} THEN "pRegister" ELSE "pAlloc")
         \/ Goto(Core, "uFree") /\ UNCHANGED pages
      /\ UNCHANGED <<cardVars, busVars, started, removing, ref, owner, held,
                     file, argVars, loopVars, ret>>

\* kasprintf and misc_register; from here on the node can be opened.
ProbeRegister ==
  /\ At(Core, "pRegister")
  /\ \/ /\ misc' = dv[Core]
        /\ Goto(Core, "idle")
        /\ op' = [op EXCEPT ![Core] = "none"]
     \/ Goto(Core, "uFree") /\ UNCHANGED <<misc, op>>
  /\ UNCHANGED <<cardVars, master, bound, nextGen, devVars, file, dv, dsp,
                 loopVars, ret>>

----------------------------------------------------------------------------
(* uad2_remove, and the unwind labels of uad2_probe, which release the     *)
(* same resources in the same order.                                       *)

RemoveCall ==
  /\ At(Core, "idle") /\ bound # 0
  /\ Goto(Core, "rDeregister")
  /\ op' = [op EXCEPT ![Core] = "remove"]
  /\ UNCHANGED <<cardVars, busVars, devVars, file, dv, dsp, loopVars, ret>>

\* misc_deregister waits for misc_mtx, which an open in progress holds.
RemoveDeregister ==
  /\ At(Core, "rDeregister")
  /\ \A c \in Clients : ~ At(c, "open")
  /\ misc' = 0
  /\ Goto(Core, "rLock")
  /\ UNCHANGED <<cardVars, master, bound, nextGen, devVars, file, argVars,
                 loopVars, ret>>

\* Mutant: the mutex is not taken.
RemoveLock_NoLock ==
  /\ At(Core, "rLock")
  /\ removing' = [removing EXCEPT ![dv[Core]] = TRUE]
  /\ Goto(Core, IF started[dv[Core]] THEN "tdInt" ELSE "uFree")
  /\ UNCHANGED <<cardVars, busVars, started, ref, owner, held, pages, file,
                 argVars, loopVars, ret>>

\* Mutant: a running transport is not stopped.
RemoveLock_NoStop ==
  /\ At(Core, "rLock") /\ owner[dv[Core]] = Nobody
  /\ owner' = [owner EXCEPT ![dv[Core]] = Core]
  /\ removing' = [removing EXCEPT ![dv[Core]] = TRUE]
  /\ Goto(Core, "uFree")
  /\ UNCHANGED <<cardVars, busVars, started, ref, held, pages, file, argVars,
                 loopVars, ret>>

RemoveLock ==
  LET g == dv[Core]
  IN  /\ At(Core, "rLock") /\ owner[g] = Nobody
      /\ owner' = [owner EXCEPT ![g] = Core]
      /\ removing' = [removing EXCEPT ![g] = TRUE]
      /\ Goto(Core, IF started[g] THEN "tdInt" ELSE "uFree")
      /\ UNCHANGED <<cardVars, busVars, started, ref, held, pages, file,
                     argVars, loopVars, ret>>

\* uad2_free_pages, one page at a time.
FreePages ==
  LET g == dv[Core]
  IN  /\ At(Core, "uFree")
      /\ \/ \E p \in pages[g] :
              /\ \A q \in pages[g] : /\ 2 * p[1] + p[2] <= 2 * q[1] + q[2]
                                     /\ (p[1] = q[1] /\ p[2] = q[2]) => p[3] <= q[3]
              /\ pages' = [pages EXCEPT ![g] = @ \ {p}]
              /\ UNCHANGED pc
         \/ pages[g] = {} /\ Goto(Core, "uUnmap") /\ UNCHANGED pages
      /\ UNCHANGED <<cardVars, busVars, started, removing, ref, owner, held,
                     file, argVars, loopVars, ret>>

ReleaseResource(from, res, next) ==
  /\ At(Core, from)
  /\ held' = [held EXCEPT ![dv[Core]] = @ \ {res}]
  /\ Goto(Core, next)
  /\ UNCHANGED <<cardVars, bound, misc, nextGen, started, removing, ref, owner,
                 pages, file, argVars, loopVars, ret>>

UnmapBar      == ReleaseResource("uUnmap", "bar", "uRegion") /\ UNCHANGED master
ReleaseRegion == ReleaseResource("uRegion", "region", "uDisable") /\ UNCHANGED master
\* pci_disable_device also clears the bus-master bit.
DisableDevice ==
  /\ ReleaseResource("uDisable", "enabled",
                     IF op[Core] = "remove" THEN "rUnlock" ELSE "uPut")
  /\ master' = FALSE

RemoveUnlock ==
  /\ At(Core, "rUnlock")
  /\ bound' = 0
  /\ owner' = [owner EXCEPT ![dv[Core]] = Nobody]
  /\ Goto(Core, "uPut")
  /\ UNCHANGED <<cardVars, master, misc, nextGen, started, removing, ref, held,
                 pages, file, argVars, loopVars, ret>>

PutDevice ==
  /\ At(Core, "uPut")
  /\ bound' = 0
  /\ KrefPut(dv[Core])
  /\ Goto(Core, "idle")
  /\ dv' = [dv EXCEPT ![Core] = 0]
  /\ op' = [op EXCEPT ![Core] = "none"]
  /\ UNCHANGED <<cardVars, master, misc, nextGen, started, removing, owner,
                 held, pages, file, dsp, loopVars, ret>>

----------------------------------------------------------------------------
StartStep(c) ==
  \/ StartEnter(c) \/ SetMaster(c) \/ Quiesce(c) \/ ResetGlobal(c)
  \/ GlobalOnly(c) \/ RingIndex(c) \/ RingDesc(c) \/ RingDone(c) \/ Enable(c)
  \/ Verify(c)
TeardownStep(a) ==
  \/ TdInt(a) \/ TdReset(a) \/ TdGlobal(a) \/ TdClear(a) \/ TdCold(a)
  \/ TdMaster(a) \/ TdCheck(a)
ResetStep(c) ==
  ResetEnter(c) \/ Pulse(c) \/ Unpulse(c) \/ Reenable(c) \/ ResetCheck(c)

\* A system call in progress goes on.
ClientStep(c) ==
  \/ Open(c) \/ Lock(c) \/ Query(c) \/ NotCapable(c) \/ Unlock(c)
  \/ StartStep(c) \/ StopEnter(c) \/ TeardownStep(c) \/ ResetStep(c)
ClientCall(c) == OpenCall(c) \/ Release(c) \/ IoctlCall(c)

\* A probe or a remove in progress goes on.
CoreStep ==
  \/ ProbeEnable \/ ProbeRegion \/ ProbeMap \/ ProbeCold \/ ProbeAlloc
  \/ ProbeRegister \/ RemoveDeregister \/ RemoveLock \/ TeardownStep(Core)
  \/ FreePages \/ UnmapBar \/ ReleaseRegion \/ DisableDevice \/ RemoveUnlock
  \/ PutDevice
CoreCall == ProbeCall \/ RemoveCall

hostVars == <<busVars, devVars, file, pc, argVars, loopVars, ret>>
Card == CardStep /\ UNCHANGED hostVars

Next ==
  \/ \E c \in Clients : ClientCall(c) \/ ClientStep(c)
  \/ CoreCall \/ CoreStep
  \/ Card

Spec == Init /\ [][Next]_vars

\* A system call, a probe or a remove that has begun goes on: none of them waits
\* for user space.  The mutexes hand over in FIFO order, so one that is free
\* again and again is eventually obtained.
Fairness ==
  /\ \A c \in Clients : /\ WF_vars(ClientStep(c))
                        /\ SF_vars(Lock(c)) /\ SF_vars(Open(c))
  /\ WF_vars(CoreStep)
  /\ SF_vars(RemoveLock) /\ SF_vars(RemoveDeregister)

FairSpec == Spec /\ Fairness

----------------------------------------------------------------------------
(* Properties.                                                             *)

\* The types of the driver's own state.
HostTypeOK ==
  /\ master \in BOOLEAN
  /\ bound \in 0 .. MaxGen /\ misc \in 0 .. MaxGen /\ nextGen \in 0 .. MaxGen
  /\ started \in [Gens -> BOOLEAN]
  /\ removing \in [Gens -> BOOLEAN]
  /\ ref \in [Gens -> Int]
  /\ owner \in [Gens -> Actors \cup {Nobody}]
  /\ held \in [Gens -> SUBSET Resources]
  /\ pages \in [Gens -> SUBSET PageSlots]
  /\ file \in [Clients -> 0 .. MaxGen]
  /\ pc \in [Actors -> PCs]
  /\ dv \in [Actors -> 0 .. MaxGen]
  /\ op \in [Actors -> Commands \cup {"none", "probe", "remove"}]
  /\ dsp \in [Actors -> 0 .. NDsp]
  /\ ring \in [Actors -> RINGS]
  /\ toWrite \in [Actors -> SUBSET DescSlots]
  /\ toClear \in [Actors -> SUBSET RingIds]
  /\ wasReady \in [Actors -> BOOLEAN]
  /\ ret \in [Actors -> Errors \cup {"ok"}]

\* Every variable holds a value of its kind.
TypeOK == CardTypeOK /\ HostTypeOK

\* A DMA engine that can run has complete descriptors, both halves of every
\* address, and each names a coherent page that is still allocated: the order
\* of uad2_start_locked, uad2_stop_locked and uad2_free_pages keeps the card
\* from reaching memory that is not the driver's.
DmaSafe ==
  \A d \in DSPS : EngineLive(d) =>
    \E g \in Gens : \A s \in DescSlots :
      s[1] = d => desc[s] = g /\ PageOf(s) \in pages[g]

\* No descriptor word of an answering card names a page that was freed, even
\* with the engines off: "Device removal stops DMA and clears the ring
\* descriptors before freeing coherent memory" (docs/driver-api.md).
NoDanglingDescriptor ==
  linked => \A s \in DescSlots :
              desc[s] # 0 => PageOf(s) \in pages[desc[s]]

\* An enabled ring is empty: host and hardware indexes agree after
\* uad2_initialize_ring and after every reset pulse, so a running engine finds
\* no entry the host did not queue.
EnabledRingsEmpty ==
  \A x \in RingIds : EngineLive(x[1]) =>
    idx[x].write = idx[x].read /\ idx[x].bell = idx[x].read

RegisterPCs == StartPCs \cup (TeardownPCs \ {"tdMaster"}) \cup ResetPCs
                 \cup {"switch", "pCold"}

\* At most one actor is inside a register sequence, whatever mix of clients,
\* old and new generations and probe or remove is running.
OneRegisterUser ==
  \A a, b \in Actors : pc[a] \in RegisterPCs /\ pc[b] \in RegisterPCs => a = b

\* A register is accessed only through a BAR mapping that exists, and by the
\* device that owns the PCI function: a client of a removed device never gets
\* past the removing check of uad2_ioctl.
MmioWhileMapped ==
  \A a \in Actors : pc[a] \in RegisterPCs =>
    dv[a] = bound /\ "bar" \in held[dv[a]]

\* The structure outlives every file, every open or ioctl in progress and every
\* probe or remove that uses it (kref of uad2_open, uad2_release, uad2_remove).
NoUseAfterFree ==
  /\ \A c \in Clients : /\ file[c] # 0 => ref[file[c]] > 0
                        /\ pc[c] # "idle" => ref[dv[c]] > 0
  /\ pc[Core] # "idle" => ref[dv[Core]] > 0
  /\ misc # 0 => ref[misc] > 0

AtRest == bound # 0 /\ pc[Core] \in {"idle", "rDeregister", "rLock"}
            /\ owner[bound] = Nobody

\* Whenever the mutex is free, started tells the truth about the card: either
\* all engines run on complete rings, or (never started, stopped, or rolled back
\* from a start that failed at any point) no engine is enabled, no descriptor is
\* published and bus mastering is off.
StartedIsTruth ==
  AtRest /\ linked =>
    IF started[bound]
    THEN dmaCtl = ALL_DSPS /\ master /\ RingsPublished(bound)
    ELSE dmaCtl.enable = {} /\ ~ master /\ \A s \in DescSlots : desc[s] = 0

\* What a successful ioctl reports holds when it returns: start left the engines
\* running, stop left the card quiet, reset left every engine enabled again.
ResultIsTruth ==
  \A c \in Clients : pc[c] = "unlock" /\ ret[c] = "ok" /\ linked =>
    /\ op[c] \in {"start", "reset"} => started[dv[c]] /\ dmaCtl = ALL_DSPS
    /\ op[c] = "stop" => ~ started[dv[c]] /\ dmaCtl.enable = {} /\ ~ master

\* A generation that uad2_remove has finished with stays dead for the clients
\* that still have it open: not started, no page, no BAR.
RemovedStaysDead ==
  \A g \in Gens : removing[g] /\ owner[g] # Core =>
    ~ started[g] /\ pages[g] = {} /\ held[g] = {}

\* When the function is unbound, after a remove or after a probe that failed at
\* any acquisition, everything acquired was given back and the card is quiet.
UnboundClean ==
  bound = 0 /\ pc[Core] = "idle" =>
    /\ misc = 0 /\ ~ master
    /\ \A g \in Gens : pages[g] = {} /\ held[g] = {} /\ owner[g] # Core
    /\ linked => dmaCtl.enable = {} /\ \A s \in DescSlots : desc[s] = 0

\* A reset sequence changes the enable bit of its own DSP only, keeps the global
\* bit and touches no descriptor: "reset isolation" of experiment 019.
ResetIsolation ==
  [][\A c \in Clients : pc[c] \in ResetPCs /\ pc'[c] # pc[c] =>
       /\ \A d \in DSPS \ {dsp[c]} :
            /\ d \in dmaCtl'.enable <=> d \in dmaCtl.enable
            /\ d \in dmaCtl'.reset <=> d \in dmaCtl.reset
       /\ dmaCtl'.global = dmaCtl.global
       /\ desc' = desc]_vars

\* The driver implements the abstract transport: started is its state, the
\* enable, reset and global bits of an answering card are its engines.
Abstract == INSTANCE Transport WITH
  state   <- IF bound = 0 THEN "absent"
             ELSE IF started[bound] THEN "running" ELSE "stopped",
  engines <- {d \in DSPS : EngineLive(d)},
  lost    <- ~ linked
ImplementsTransport == Abstract!Spec

\* Every system call on the device returns, whatever the card does, and a probe
\* or a remove that has begun comes to an end even against clients that keep
\* calling into the device.
CallsReturn == \A a \in Actors : (pc[a] # "idle") ~> (pc[a] = "idle")
=============================================================================
