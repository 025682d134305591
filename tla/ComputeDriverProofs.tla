------------------------ MODULE ComputeDriverProofs ------------------------
(***************************************************************************)
(* TLAPS proofs about ComputeDriver, for any number of DSPs, ring pages,   *)
(* ring entries, generations and clients, in three parts.                  *)
(*   1  Type correctness, exclusive use of the registers, and the safety   *)
(*      of the card's DMA.                                                 *)
(*   2  The lifetimes the driver manages: the PCI resources of a binding,  *)
(*      bus mastering, and the reference count of struct                   *)
(*      uad2_compute_device.  They add to the inductive invariant what     *)
(*      held, master, ref and owner hold at each control point.            *)
(*   3  What the driver does to the DMA engines: the value of the DMA      *)
(*      control register at each control point, the ring indexes, the      *)
(*      truth of started and of the results of the ioctls, and from these  *)
(*      that the driver implements the abstract Transport.                 *)
(***************************************************************************)
EXTENDS ComputeDriver, UadCardProofs, FiniteSetTheorems

----------------------------------------------------------------------------
(* The inductive invariant.                                                *)

InitLoop == {"ringIndex", "ringDesc", "enable"}
\* Control points of a client that is past the removing check.
ActivePCs == {"switch"} \cup StartPCs \cup TeardownPCs \cup ResetPCs
ClientPCs == {"idle", "open", "lock", "unlock"} \cup ActivePCs
CorePCs == {"idle", "rDeregister", "rLock", "rUnlock"} \cup TeardownPCs
             \cup ProbePCs \cup UnwindPCs

\* The loops of a register sequence stay within the DSPs of the card, and the
\* shared sequences are run by the callers that know how to leave them.
LoopOK ==
  /\ \A c \in Clients :
       /\ pc[c] \in ClientPCs
       /\ pc[c] \in StartPCs => op[c] = "start"
       /\ pc[c] \in TeardownPCs => op[c] \in {"start", "stop"}
       /\ pc[c] = "tdCheck" => op[c] = "stop"
       /\ pc[c] \in ResetPCs => op[c] = "reset"
  /\ pc[Core] \in CorePCs
  /\ pc[Core] \in TeardownPCs \cup {"rDeregister", "rLock", "rUnlock"}
       => op[Core] = "remove"
  /\ \A a \in Actors : pc[a] \in InitLoop \cup ResetPCs => dsp[a] \in DSPS

\* Core between locking the device in uad2_remove and unlocking it.
CoreHolds ==
  \/ pc[Core] \in TeardownPCs \cup {"rUnlock"}
  \/ op[Core] = "remove" /\ pc[Core] \in {"uFree", "uUnmap", "uRegion", "uDisable"}

\* Who has the mutex.
LockInv ==
  /\ \A c \in Clients : pc[c] \in ActivePCs \cup {"unlock"} => owner[dv[c]] = c
  /\ CoreHolds => owner[dv[Core]] = Core /\ removing[dv[Core]]

\* Which generation an actor works on.
GenInv ==
  /\ bound <= nextGen /\ misc <= nextGen
  /\ \A c \in Clients : /\ file[c] <= nextGen /\ dv[c] <= nextGen
                        /\ pc[c] # "idle" => dv[c] # 0
  /\ \A c \in Clients : pc[c] \in ActivePCs => dv[c] = bound /\ ~ removing[dv[c]]
  /\ \A c \in Clients : /\ file[c] # 0 /\ ~ removing[file[c]] => file[c] = bound
                        /\ dv[c] # 0 /\ ~ removing[dv[c]] => dv[c] = bound
  /\ misc # 0 => misc = bound /\ pc[Core] \in {"idle", "rDeregister"}
  /\ \A g \in Gens : removing[g] => g <= nextGen

CoreInv ==
  /\ bound # 0 \/ pc[Core] = "uPut" => dv[Core] # 0
  /\ bound # 0 => dv[Core] = bound
  /\ bound = 0 => pc[Core] \in {"idle", "uPut"}
  /\ pc[Core] \in ProbePCs => op[Core] = "probe"
  /\ pc[Core] \in UnwindPCs => op[Core] \in {"probe", "remove"}
  /\ pc[Core] = "uPut" /\ op[Core] = "remove" => bound = 0
  /\ op[Core] = "probe" /\ pc[Core] # "idle" =>
       /\ bound # 0
       /\ \A c \in Clients : file[c] # bound /\ dv[c] # bound

\* The pages are complete as long as a client can use them.
PagesInv ==
  bound # 0 /\ pc[Core] \in {"idle", "pRegister", "rDeregister", "rLock"} \cup TeardownPCs
    => pages[bound] = PageSlots

\* What started says about the control points.
StartedInv ==
  /\ \A g \in Gens : started[g] => g = bound
  /\ pc[Core] \in ProbePCs \cup UnwindPCs \cup {"rUnlock", "tdCheck"}
        => ~ started[dv[Core]]
  /\ \A c \in Clients : /\ pc[c] \in StartPCs => ~ started[dv[c]]
                        /\ pc[c] \in ResetPCs => started[dv[c]]
                        /\ pc[c] = "tdCheck" => ~ started[dv[c]]
                        /\ pc[c] \in TeardownPCs /\ op[c] = "start" => ~ started[dv[c]]

\* Control points where descriptors may be published.
DirtyPCs == InitLoop \cup {"verify", "tdInt", "tdReset", "tdGlobal", "tdClear"}

Cleared == \A s \in DescSlots : desc[s] = 0

\* What the card holds.
CardInv ==
  linked =>
    /\ \A s \in DescSlots : desc[s] # 0 => desc[s] = bound /\ pages[bound] = PageSlots
    /\ \A s \in DescSlots : s[1] \in dmaCtl.enable => desc[s] # 0
    /\ (\A a \in Actors : pc[a] \notin DirtyPCs) /\ (bound # 0 => ~ started[bound])
         => Cleared
    /\ bound # 0 /\ started[bound]
         /\ (\A a \in Actors : pc[a] \notin {"tdClear", "tdCold", "tdMaster"})
         => \A s \in DescSlots : desc[s] = bound

\* Control points that say how far a register sequence has come.
ProgressPCs == InitLoop \cup {"tdGlobal", "tdClear", "tdCold", "tdMaster"}

\* How far the register sequence of one actor has come.
Progress(a) ==
  /\ pc[a] \in InitLoop =>
       /\ \A s \in DescSlots \ toWrite[a] : desc[s] = bound
       /\ \A s \in toWrite[a] : s[1] >= dsp[a]
  /\ pc[a] \in {"ringIndex", "ringDesc"} /\ ring[a] = 1 =>
       \A s \in toWrite[a] : s[1] = dsp[a] => s[2] = 1
  /\ pc[a] = "enable" => ring[a] = 0 /\ \A s \in toWrite[a] : s[1] > dsp[a]
  /\ pc[a] \in {"tdGlobal", "tdClear", "tdCold", "tdMaster"} => dmaCtl.enable = {}
  /\ pc[a] = "tdClear" =>
       \A s \in DescSlots : <<s[1], s[2]>> \notin toClear[a] => desc[s] = 0
  /\ pc[a] \in {"tdCold", "tdMaster"} => Cleared

ProgressInv == linked => \A a \in Actors : Progress(a)

IInv ==
  /\ TypeOK /\ LoopOK /\ LockInv /\ GenInv /\ CoreInv /\ PagesInv /\ StartedInv
  /\ CardInv /\ ProgressInv

----------------------------------------------------------------------------
(* The control points, expanded once for the provers.                      *)

\* A set of control points is a set of strings; nothing else is used of it.
LEMMA ControlPoints ==
  /\ ClientPCs \subseteq PCs /\ CorePCs \subseteq PCs
  /\ ActivePCs \subseteq ClientPCs /\ InitLoop \subseteq StartPCs
BY DEF ClientPCs, CorePCs, ActivePCs, InitLoop, PCs, StartPCs, TeardownPCs,
       ResetPCs, ProbePCs, UnwindPCs

\* The words the driver writes to the DMA control register are DMA words.
LEMMA DmaWords ==
  /\ COLD_RESET \in DmaWord /\ RESET_GLOBAL \in DmaWord
  /\ GLOBAL_ONLY \in DmaWord /\ ALL_DSPS \in DmaWord
  /\ \A d \in DSPS : /\ EnableUpTo(d) \in DmaWord
                     /\ Disabled(d) \in DmaWord
                     /\ [Disabled(d) EXCEPT !.reset = {d}] \in DmaWord
BY CardWords DEF Disabled

LEMMA Zeros == 0 \in 0 .. MaxGen /\ 0 \in 0 .. NDsp /\ 0 \in RINGS /\ 0 \in DSPS
BY CardAssumption DEF RINGS, DSPS

\* An index written by uad2_initialize_ring is below Entries, or is 0.
LEMMA BoundedIndex ==
  ASSUME CardTypeOK, NEW x \in RingIds
  PROVE  (IF ReadIndex(x) >= Entries THEN 0 ELSE ReadIndex(x)) \in 0 .. Entries
BY CardAssumption DEF CardTypeOK, ReadIndex, IdxWord

----------------------------------------------------------------------------
(* Types.                                                                  *)

\* A reference count stays an integer when one reference is taken or dropped.
LEMMA CountTypes ==
  ASSUME NEW f \in [Gens -> Int], NEW g
  PROVE  /\ [f EXCEPT ![g] = @ - 1] \in [Gens -> Int]
         /\ [f EXCEPT ![g] = @ + 1] \in [Gens -> Int]
         /\ [f EXCEPT ![g] = 1] \in [Gens -> Int]
<1>1. CASE g \in Gens
  <2>1. f[g] \in Int
    BY <1>1
  <2> QED BY <1>1, <2>1
<1>2. CASE g \notin Gens
  <2>1. \A v : [f EXCEPT ![g] = v] = f
    BY <1>2
  <2> QED BY <2>1
<1> QED BY <1>1, <1>2

\* The type invariant and the range of the loop variables are inductive.
LEMMA TypeStep ==
  ASSUME TypeOK, LoopOK, [Next]_vars
  PROVE  TypeOK' /\ LoopOK'
<1> USE CardAssumption, ActorAssumption DEF TypeOK, HostTypeOK, LoopOK, At, Goto, Finish,
        busVars, devVars, argVars, loopVars, Actors
<1>1. ASSUME NEW c \in Clients, OpenCall(c) PROVE TypeOK' /\ LoopOK'
  <2>1. CardTypeOK'
    BY <1>1, WriteTypes DEF OpenCall
  <2>2. HostTypeOK'
    BY <1>1, Zeros DEF OpenCall, PCs, Errors
  <2>3. LoopOK'
    BY <1>1 DEF OpenCall, ClientPCs, ActivePCs, InitLoop, StartPCs, TeardownPCs, ResetPCs, DSPS
  <2> QED BY <2>1, <2>2, <2>3
<1>2. ASSUME NEW c \in Clients, Open(c) PROVE TypeOK' /\ LoopOK'
  <2>1. CardTypeOK'
    BY <1>2, WriteTypes DEF Open
  <2>a. ref' \in [Gens -> Int] /\ file' \in [Clients -> 0 .. MaxGen]
    BY <1>2, Zeros, CountTypes DEF Open
  <2>2. HostTypeOK'
    BY <1>2, <2>a, Zeros DEF Open, PCs, Errors
  <2>3. LoopOK'
    BY <1>2 DEF Open, ClientPCs, ActivePCs, InitLoop, StartPCs, TeardownPCs, ResetPCs, DSPS
  <2> QED BY <2>1, <2>2, <2>3
<1>3. ASSUME NEW c \in Clients, Release(c) PROVE TypeOK' /\ LoopOK'
  <2>1. CardTypeOK'
    BY <1>3, WriteTypes DEF Release, KrefPut
  <2>a. ref' \in [Gens -> Int]
    BY <1>3, Zeros, CountTypes DEF Release, KrefPut
  <2>2. HostTypeOK'
    BY <1>3, <2>a, Zeros DEF Release, PCs, Errors
  <2>3. LoopOK'
    BY <1>3 DEF Release, KrefPut, ClientPCs, ActivePCs, InitLoop, StartPCs, TeardownPCs, ResetPCs, DSPS
  <2> QED BY <2>1, <2>2, <2>3
<1>4. ASSUME NEW c \in Clients, IoctlCall(c) PROVE TypeOK' /\ LoopOK'
  <2>1. CardTypeOK'
    BY <1>4, WriteTypes DEF IoctlCall, Commands
  <2>2. HostTypeOK'
    BY <1>4, Zeros DEF IoctlCall, Commands, PCs, Errors
  <2>3. LoopOK'
    BY <1>4 DEF IoctlCall, Commands, ClientPCs, ActivePCs, InitLoop, StartPCs, TeardownPCs, ResetPCs, DSPS
  <2> QED BY <2>1, <2>2, <2>3
<1>5. ASSUME NEW c \in Clients, Lock(c) PROVE TypeOK' /\ LoopOK'
  <2>1. CardTypeOK'
    BY <1>5, WriteTypes DEF Lock
  <2>2. HostTypeOK'
    <3>1. owner' \in [Gens -> Actors \cup {Nobody}]
      BY <1>5 DEF Lock
    <3>2. pc' \in [Actors -> PCs]
      BY <1>5 DEF Lock, PCs
    <3>3. ret' \in [Actors -> Errors \cup {"ok"}]
      BY <1>5 DEF Lock, Errors
    <3> QED BY <1>5, <3>1, <3>2, <3>3 DEF Lock
  <2>3. LoopOK'
    BY <1>5 DEF Lock, ClientPCs, ActivePCs, InitLoop, StartPCs, TeardownPCs, ResetPCs, DSPS
  <2> QED BY <2>1, <2>2, <2>3
<1>6. ASSUME NEW c \in Clients, Query(c) PROVE TypeOK' /\ LoopOK'
  <2>1. CardTypeOK'
    BY <1>6, WriteTypes DEF Query
  <2>2. HostTypeOK'
    BY <1>6, Zeros DEF Query, PCs, Errors
  <2>3. LoopOK'
    BY <1>6 DEF Query, ClientPCs, ActivePCs, InitLoop, StartPCs, TeardownPCs, ResetPCs, DSPS
  <2> QED BY <2>1, <2>2, <2>3
<1>7. ASSUME NEW c \in Clients, NotCapable(c) PROVE TypeOK' /\ LoopOK'
  <2>1. CardTypeOK'
    BY <1>7, WriteTypes DEF NotCapable
  <2>2. HostTypeOK'
    BY <1>7, Zeros DEF NotCapable, PCs, Errors
  <2>3. LoopOK'
    BY <1>7 DEF NotCapable, ClientPCs, ActivePCs, InitLoop, StartPCs, TeardownPCs, ResetPCs, DSPS
  <2> QED BY <2>1, <2>2, <2>3
<1>8. ASSUME NEW c \in Clients, Unlock(c) PROVE TypeOK' /\ LoopOK'
  <2>1. CardTypeOK'
    BY <1>8, WriteTypes DEF Unlock
  <2>2. HostTypeOK'
    BY <1>8, Zeros DEF Unlock, PCs, Errors
  <2>3. LoopOK'
    BY <1>8 DEF Unlock, ClientPCs, ActivePCs, InitLoop, StartPCs, TeardownPCs, ResetPCs, DSPS
  <2> QED BY <2>1, <2>2, <2>3
<1>9. ASSUME NEW c \in Clients, StartEnter(c) PROVE TypeOK' /\ LoopOK'
  <2>1. CardTypeOK'
    BY <1>9, WriteTypes DEF StartEnter
  <2>2. HostTypeOK'
    BY <1>9, Zeros DEF StartEnter, PCs, StartPCs, Errors
  <2>3. LoopOK'
    BY <1>9 DEF StartEnter, ClientPCs, ActivePCs, InitLoop, StartPCs, TeardownPCs, ResetPCs, DSPS
  <2> QED BY <2>1, <2>2, <2>3
<1>10. ASSUME NEW c \in Clients, SetMaster(c) PROVE TypeOK' /\ LoopOK'
  <2>1. CardTypeOK'
    BY <1>10, WriteTypes DEF SetMaster
  <2>2. HostTypeOK'
    BY <1>10, Zeros DEF SetMaster, PCs, StartPCs, Errors
  <2>3. LoopOK'
    BY <1>10 DEF SetMaster, ClientPCs, ActivePCs, InitLoop, StartPCs, TeardownPCs, ResetPCs, DSPS
  <2> QED BY <2>1, <2>2, <2>3
<1>11. ASSUME NEW c \in Clients, Quiesce(c) PROVE TypeOK' /\ LoopOK'
  <2>1. CardTypeOK'
    BY <1>11, WriteTypes DEF Quiesce
  <2>2. HostTypeOK'
    BY <1>11, Zeros DEF Quiesce, PCs, StartPCs, Errors
  <2>3. LoopOK'
    BY <1>11 DEF Quiesce, ClientPCs, ActivePCs, InitLoop, StartPCs, TeardownPCs, ResetPCs, DSPS
  <2> QED BY <2>1, <2>2, <2>3
<1>12. ASSUME NEW c \in Clients, ResetGlobal(c) PROVE TypeOK' /\ LoopOK'
  <2>0. RESET_GLOBAL \in DmaWord
    BY <1>12, DmaWords
  <2>1. CardTypeOK'
    BY <1>12, <2>0, WriteTypes DEF ResetGlobal
  <2>2. HostTypeOK'
    BY <1>12, Zeros DEF ResetGlobal, PCs, StartPCs, Errors
  <2>3. LoopOK'
    BY <1>12 DEF ResetGlobal, ClientPCs, ActivePCs, InitLoop, StartPCs, TeardownPCs, ResetPCs, DSPS
  <2> QED BY <2>1, <2>2, <2>3
<1>13. ASSUME NEW c \in Clients, GlobalOnly(c) PROVE TypeOK' /\ LoopOK'
  <2>0. GLOBAL_ONLY \in DmaWord
    BY <1>13, DmaWords
  <2>1. CardTypeOK'
    BY <1>13, <2>0, WriteTypes DEF GlobalOnly
  <2>2. HostTypeOK'
    BY <1>13, Zeros DEF GlobalOnly, PCs, StartPCs, Errors
  <2>3. LoopOK'
    BY <1>13 DEF GlobalOnly, ClientPCs, ActivePCs, InitLoop, StartPCs, TeardownPCs, ResetPCs, DSPS
  <2> QED BY <2>1, <2>2, <2>3
<1>14. ASSUME NEW c \in Clients, RingIndex(c) PROVE TypeOK' /\ LoopOK'
  <2>0. <<dsp[c], ring[c]>> \in RingIds
    BY <1>14 DEF RingIndex, RingIds, InitLoop
  <2>1. CardTypeOK'
    BY <1>14, <2>0, WriteTypes, BoundedIndex DEF RingIndex
  <2>2. HostTypeOK'
    BY <1>14, Zeros DEF RingIndex, PCs, StartPCs, Errors
  <2>3. LoopOK'
    BY <1>14 DEF RingIndex, ClientPCs, ActivePCs, InitLoop, StartPCs, TeardownPCs, ResetPCs, DSPS
  <2> QED BY <2>1, <2>2, <2>3
<1>15. ASSUME NEW c \in Clients, RingDesc(c) PROVE TypeOK' /\ LoopOK'
  <2>1. CardTypeOK'
    BY <1>15, WriteTypes DEF RingDesc, RingSlots
  <2>2. HostTypeOK'
    BY <1>15, Zeros DEF RingDesc, PCs, StartPCs, Errors
  <2>3. LoopOK'
    BY <1>15 DEF RingDesc, ClientPCs, ActivePCs, InitLoop, StartPCs, TeardownPCs, ResetPCs, DSPS
  <2> QED BY <2>1, <2>2, <2>3
<1>16. ASSUME NEW c \in Clients, RingDone(c) PROVE TypeOK' /\ LoopOK'
  <2>1. CardTypeOK'
    BY <1>16, WriteTypes DEF RingDone, RINGS
  <2>2. HostTypeOK'
    BY <1>16, Zeros DEF RingDone, RINGS, PCs, StartPCs, Errors
  <2>3. LoopOK'
    BY <1>16 DEF RingDone, RINGS, ClientPCs, ActivePCs, InitLoop, StartPCs, TeardownPCs, ResetPCs, DSPS
  <2> QED BY <2>1, <2>2, <2>3
<1>17. ASSUME NEW c \in Clients, Enable(c) PROVE TypeOK' /\ LoopOK'
  <2>0. EnableUpTo(dsp[c]) \in DmaWord
    BY <1>17, DmaWords DEF InitLoop, Enable
  <2>1. CardTypeOK'
    BY <1>17, <2>0, WriteTypes DEF Enable
  <2>a. dsp' \in [Actors -> 0 .. NDsp]
    BY <1>17, Zeros DEF Enable, InitLoop, DSPS
  <2>2. HostTypeOK'
    BY <1>17, <2>a, Zeros DEF Enable, PCs, StartPCs, Errors
  <2>3. LoopOK'
    BY <1>17 DEF Enable, ClientPCs, ActivePCs, InitLoop, StartPCs, TeardownPCs, ResetPCs, DSPS
  <2> QED BY <2>1, <2>2, <2>3
<1>18. ASSUME NEW c \in Clients, Verify(c) PROVE TypeOK' /\ LoopOK'
  <2>1. CardTypeOK'
    BY <1>18, WriteTypes DEF Verify
  <2>2. HostTypeOK'
    <3>1. started' \in [Gens -> BOOLEAN]
      BY <1>18 DEF Verify
    <3>2. pc' \in [Actors -> PCs]
      BY <1>18 DEF Verify, PCs, StartPCs, TeardownPCs
    <3>3. ret' \in [Actors -> Errors \cup {"ok"}]
      BY <1>18 DEF Verify, Errors
    <3> QED BY <1>18, <3>1, <3>2, <3>3, Zeros DEF Verify
  <2>3. LoopOK'
    BY <1>18 DEF Verify, ClientPCs, ActivePCs, InitLoop, StartPCs, TeardownPCs, ResetPCs, DSPS
  <2> QED BY <2>1, <2>2, <2>3
<1>19. ASSUME NEW c \in Clients, StopEnter(c) PROVE TypeOK' /\ LoopOK'
  <2>1. CardTypeOK'
    BY <1>19, WriteTypes DEF StopEnter
  <2>2. HostTypeOK'
    BY <1>19, Zeros DEF StopEnter, PCs, TeardownPCs, Errors
  <2>3. LoopOK'
    BY <1>19 DEF StopEnter, ClientPCs, ActivePCs, InitLoop, StartPCs, TeardownPCs, ResetPCs, DSPS
  <2> QED BY <2>1, <2>2, <2>3
<1>20. ASSUME NEW c \in Clients, ResetEnter(c) PROVE TypeOK' /\ LoopOK'
  <2>1. CardTypeOK'
    BY <1>20, WriteTypes DEF ResetEnter
  <2>2. HostTypeOK'
    BY <1>20, Zeros DEF ResetEnter, PCs, ResetPCs, Errors
  <2>3. LoopOK'
    BY <1>20 DEF ResetEnter, ClientPCs, ActivePCs, InitLoop, StartPCs, TeardownPCs, ResetPCs, DSPS
  <2> QED BY <2>1, <2>2, <2>3
<1>21. ASSUME NEW c \in Clients, Pulse(c) PROVE TypeOK' /\ LoopOK'
  <2>0. [Disabled(dsp[c]) EXCEPT !.reset = {dsp[c]}] \in DmaWord
    BY <1>21, DmaWords DEF ResetPCs, Pulse
  <2>1. CardTypeOK'
    BY <1>21, <2>0, WriteTypes DEF Pulse
  <2>2. HostTypeOK'
    BY <1>21, Zeros DEF Pulse, PCs, ResetPCs, Errors
  <2>3. LoopOK'
    BY <1>21 DEF Pulse, ClientPCs, ActivePCs, InitLoop, StartPCs, TeardownPCs, ResetPCs, DSPS
  <2> QED BY <2>1, <2>2, <2>3
<1>22. ASSUME NEW c \in Clients, Unpulse(c) PROVE TypeOK' /\ LoopOK'
  <2>0. Disabled(dsp[c]) \in DmaWord
    BY <1>22, DmaWords DEF ResetPCs, Unpulse
  <2>1. CardTypeOK'
    BY <1>22, <2>0, WriteTypes DEF Unpulse
  <2>2. HostTypeOK'
    BY <1>22, Zeros DEF Unpulse, PCs, ResetPCs, Errors
  <2>3. LoopOK'
    BY <1>22 DEF Unpulse, ClientPCs, ActivePCs, InitLoop, StartPCs, TeardownPCs, ResetPCs, DSPS
  <2> QED BY <2>1, <2>2, <2>3
<1>23. ASSUME NEW c \in Clients, Reenable(c) PROVE TypeOK' /\ LoopOK'
  <2>0. ALL_DSPS \in DmaWord
    BY <1>23, DmaWords
  <2>1. CardTypeOK'
    BY <1>23, <2>0, WriteTypes DEF Reenable
  <2>a. wasReady' \in [Actors -> BOOLEAN]
    BY <1>23, Zeros DEF Reenable, ReadReady
  <2>2. HostTypeOK'
    BY <1>23, <2>a, Zeros DEF Reenable, PCs, ResetPCs, Errors
  <2>3. LoopOK'
    BY <1>23 DEF Reenable, ClientPCs, ActivePCs, InitLoop, StartPCs, TeardownPCs, ResetPCs, DSPS
  <2> QED BY <2>1, <2>2, <2>3
<1>24. ASSUME NEW c \in Clients, ResetCheck(c) PROVE TypeOK' /\ LoopOK'
  <2>1. CardTypeOK'
    BY <1>24, WriteTypes DEF ResetCheck
  <2>2. HostTypeOK'
    BY <1>24, Zeros DEF ResetCheck, PCs, ResetPCs, Errors
  <2>3. LoopOK'
    BY <1>24 DEF ResetCheck, ClientPCs, ActivePCs, InitLoop, StartPCs, TeardownPCs, ResetPCs, DSPS
  <2> QED BY <2>1, <2>2, <2>3
<1>25. ASSUME NEW a \in Actors, TdInt(a) PROVE TypeOK' /\ LoopOK'
  <2>1. CardTypeOK'
    BY <1>25, WriteTypes DEF TdInt
  <2>2. HostTypeOK'
    BY <1>25, Zeros DEF TdInt, PCs, TeardownPCs, UnwindPCs, Errors
  <2>3. LoopOK'
    BY <1>25 DEF TdInt, ClientPCs, ActivePCs, CorePCs, UnwindPCs, InitLoop, StartPCs, TeardownPCs, ResetPCs, DSPS
  <2> QED BY <2>1, <2>2, <2>3
<1>26. ASSUME NEW a \in Actors, TdReset(a) PROVE TypeOK' /\ LoopOK'
  <2>0. RESET_GLOBAL \in DmaWord
    BY <1>26, DmaWords
  <2>1. CardTypeOK'
    BY <1>26, <2>0, WriteTypes DEF TdReset
  <2>2. HostTypeOK'
    BY <1>26, Zeros DEF TdReset, PCs, TeardownPCs, UnwindPCs, Errors
  <2>3. LoopOK'
    BY <1>26 DEF TdReset, ClientPCs, ActivePCs, CorePCs, UnwindPCs, InitLoop, StartPCs, TeardownPCs, ResetPCs, DSPS
  <2> QED BY <2>1, <2>2, <2>3
<1>27. ASSUME NEW a \in Actors, TdGlobal(a) PROVE TypeOK' /\ LoopOK'
  <2>0. GLOBAL_ONLY \in DmaWord
    BY <1>27, DmaWords
  <2>1. CardTypeOK'
    BY <1>27, <2>0, WriteTypes DEF TdGlobal
  <2>2. HostTypeOK'
    BY <1>27, Zeros DEF TdGlobal, PCs, TeardownPCs, UnwindPCs, Errors
  <2>3. LoopOK'
    BY <1>27 DEF TdGlobal, ClientPCs, ActivePCs, CorePCs, UnwindPCs, InitLoop, StartPCs, TeardownPCs, ResetPCs, DSPS
  <2> QED BY <2>1, <2>2, <2>3
<1>28. ASSUME NEW a \in Actors, TdClear(a) PROVE TypeOK' /\ LoopOK'
  <2>1. CardTypeOK'
    BY <1>28, WriteTypes DEF TdClear
  <2>2. HostTypeOK'
    BY <1>28, Zeros DEF TdClear, PCs, TeardownPCs, UnwindPCs, Errors
  <2>3. LoopOK'
    BY <1>28 DEF TdClear, ClientPCs, ActivePCs, CorePCs, UnwindPCs, InitLoop, StartPCs, TeardownPCs, ResetPCs, DSPS
  <2> QED BY <2>1, <2>2, <2>3
<1>29. ASSUME NEW a \in Actors, TdCold(a) PROVE TypeOK' /\ LoopOK'
  <2>0. COLD_RESET \in DmaWord
    BY <1>29, DmaWords
  <2>1. CardTypeOK'
    BY <1>29, <2>0, WriteTypes DEF TdCold
  <2>2. HostTypeOK'
    BY <1>29, Zeros DEF TdCold, PCs, TeardownPCs, UnwindPCs, Errors
  <2>3. LoopOK'
    BY <1>29 DEF TdCold, ClientPCs, ActivePCs, CorePCs, UnwindPCs, InitLoop, StartPCs, TeardownPCs, ResetPCs, DSPS
  <2> QED BY <2>1, <2>2, <2>3
<1>30. ASSUME NEW a \in Actors, TdMaster(a) PROVE TypeOK' /\ LoopOK'
  <2>1. CardTypeOK'
    BY <1>30, WriteTypes DEF TdMaster
  <2>2. HostTypeOK'
    <3>1. started' \in [Gens -> BOOLEAN] /\ master' = FALSE
      BY <1>30 DEF TdMaster
    <3>2. pc' \in [Actors -> PCs]
      BY <1>30 DEF TdMaster, PCs, TeardownPCs
    <3>3. ret' \in [Actors -> Errors \cup {"ok"}]
      BY <1>30 DEF TdMaster, Errors
    <3> QED BY <1>30, <3>1, <3>2, <3>3 DEF TdMaster
  <2>3. LoopOK'
    BY <1>30 DEF TdMaster, ClientPCs, ActivePCs, CorePCs, UnwindPCs, InitLoop, StartPCs, TeardownPCs, ResetPCs, DSPS
  <2> QED BY <2>1, <2>2, <2>3
<1>31. ASSUME NEW a \in Actors, TdCheck(a) PROVE TypeOK' /\ LoopOK'
  <2>1. CardTypeOK'
    BY <1>31, WriteTypes DEF TdCheck
  <2>2. HostTypeOK'
    BY <1>31, Zeros DEF TdCheck, PCs, TeardownPCs, UnwindPCs, Errors
  <2>3. LoopOK'
    BY <1>31 DEF TdCheck, ClientPCs, ActivePCs, CorePCs, UnwindPCs, InitLoop, StartPCs, TeardownPCs, ResetPCs, DSPS
  <2> QED BY <2>1, <2>2, <2>3
<1>32. ASSUME ProbeCall PROVE TypeOK' /\ LoopOK'
  <2>1. CardTypeOK'
    BY <1>32, WriteTypes DEF ProbeCall
  <2>a. nextGen' \in 0 .. MaxGen /\ ref' \in [Gens -> Int]
    BY <1>32, Zeros, CountTypes DEF ProbeCall
  <2>2. HostTypeOK'
    BY <1>32, <2>a, Zeros DEF ProbeCall, PCs, ProbePCs, Errors
  <2>3. LoopOK'
    BY <1>32 DEF ProbeCall, CorePCs, ProbePCs, InitLoop, StartPCs, TeardownPCs, ResetPCs, DSPS
  <2> QED BY <2>1, <2>2, <2>3
<1>33. ASSUME ProbeEnable PROVE TypeOK' /\ LoopOK'
  <2>1. CardTypeOK'
    BY <1>33, WriteTypes DEF ProbeEnable, Acquire, Resources
  <2>2. HostTypeOK'
    BY <1>33, Zeros DEF ProbeEnable, Acquire, Resources, PCs, ProbePCs, UnwindPCs, Errors
  <2>3. LoopOK'
    BY <1>33 DEF ProbeEnable, Acquire, Resources, CorePCs, ProbePCs, UnwindPCs, InitLoop, StartPCs, TeardownPCs, ResetPCs, DSPS
  <2> QED BY <2>1, <2>2, <2>3
<1>34. ASSUME ProbeRegion PROVE TypeOK' /\ LoopOK'
  <2>1. CardTypeOK'
    BY <1>34, WriteTypes DEF ProbeRegion, Acquire, Resources
  <2>2. HostTypeOK'
    BY <1>34, Zeros DEF ProbeRegion, Acquire, Resources, PCs, ProbePCs, UnwindPCs, Errors
  <2>3. LoopOK'
    BY <1>34 DEF ProbeRegion, Acquire, Resources, CorePCs, ProbePCs, UnwindPCs, InitLoop, StartPCs, TeardownPCs, ResetPCs, DSPS
  <2> QED BY <2>1, <2>2, <2>3
<1>35. ASSUME ProbeMap PROVE TypeOK' /\ LoopOK'
  <2>1. CardTypeOK'
    BY <1>35, WriteTypes DEF ProbeMap, Acquire, Resources
  <2>2. HostTypeOK'
    BY <1>35, Zeros DEF ProbeMap, Acquire, Resources, PCs, ProbePCs, UnwindPCs, Errors
  <2>3. LoopOK'
    BY <1>35 DEF ProbeMap, Acquire, Resources, CorePCs, ProbePCs, UnwindPCs, InitLoop, StartPCs, TeardownPCs, ResetPCs, DSPS
  <2> QED BY <2>1, <2>2, <2>3
<1>36. ASSUME ProbeCold PROVE TypeOK' /\ LoopOK'
  <2>1. CardTypeOK'
    BY <1>36, WriteTypes DEF ProbeCold
  <2>2. HostTypeOK'
    BY <1>36, Zeros DEF ProbeCold, PCs, ProbePCs, UnwindPCs, Errors
  <2>3. LoopOK'
    BY <1>36 DEF ProbeCold, CorePCs, ProbePCs, UnwindPCs, InitLoop, StartPCs, TeardownPCs, ResetPCs, DSPS
  <2> QED BY <2>1, <2>2, <2>3
<1>37. ASSUME ProbeAlloc PROVE TypeOK' /\ LoopOK'
  <2>1. CardTypeOK'
    BY <1>37, WriteTypes DEF ProbeAlloc
  <2>2. HostTypeOK'
    BY <1>37, Zeros DEF ProbeAlloc, PCs, ProbePCs, UnwindPCs, Errors
  <2>3. LoopOK'
    BY <1>37 DEF ProbeAlloc, CorePCs, ProbePCs, UnwindPCs, InitLoop, StartPCs, TeardownPCs, ResetPCs, DSPS
  <2> QED BY <2>1, <2>2, <2>3
<1>38. ASSUME ProbeRegister PROVE TypeOK' /\ LoopOK'
  <2>1. CardTypeOK'
    BY <1>38, WriteTypes DEF ProbeRegister
  <2>2. HostTypeOK'
    BY <1>38, Zeros DEF ProbeRegister, PCs, ProbePCs, UnwindPCs, Errors
  <2>3. LoopOK'
    BY <1>38 DEF ProbeRegister, CorePCs, ProbePCs, UnwindPCs, InitLoop, StartPCs, TeardownPCs, ResetPCs, DSPS
  <2> QED BY <2>1, <2>2, <2>3
<1>39. ASSUME RemoveCall PROVE TypeOK' /\ LoopOK'
  <2>1. CardTypeOK'
    BY <1>39, WriteTypes DEF RemoveCall
  <2>2. HostTypeOK'
    BY <1>39, Zeros DEF RemoveCall, PCs, Errors
  <2>3. LoopOK'
    BY <1>39 DEF RemoveCall, CorePCs, InitLoop, StartPCs, TeardownPCs, ResetPCs, DSPS
  <2> QED BY <2>1, <2>2, <2>3
<1>40. ASSUME RemoveDeregister PROVE TypeOK' /\ LoopOK'
  <2>1. CardTypeOK'
    BY <1>40, WriteTypes DEF RemoveDeregister
  <2>2. HostTypeOK'
    BY <1>40, Zeros DEF RemoveDeregister, PCs, Errors
  <2>3. LoopOK'
    BY <1>40 DEF RemoveDeregister, CorePCs, InitLoop, StartPCs, TeardownPCs, ResetPCs, DSPS
  <2> QED BY <2>1, <2>2, <2>3
<1>41. ASSUME RemoveLock PROVE TypeOK' /\ LoopOK'
  <2>1. CardTypeOK'
    BY <1>41, WriteTypes DEF RemoveLock
  <2>2. HostTypeOK'
    BY <1>41, Zeros DEF RemoveLock, PCs, TeardownPCs, UnwindPCs, Errors
  <2>3. LoopOK'
    BY <1>41 DEF RemoveLock, CorePCs, UnwindPCs, InitLoop, StartPCs, TeardownPCs, ResetPCs, DSPS
  <2> QED BY <2>1, <2>2, <2>3
<1>42. ASSUME FreePages PROVE TypeOK' /\ LoopOK'
  <2>1. CardTypeOK'
    BY <1>42, WriteTypes DEF FreePages
  <2>2. HostTypeOK'
    BY <1>42, Zeros DEF FreePages, PCs, UnwindPCs, Errors
  <2>3. LoopOK'
    BY <1>42 DEF FreePages, CorePCs, UnwindPCs, InitLoop, StartPCs, TeardownPCs, ResetPCs, DSPS
  <2> QED BY <2>1, <2>2, <2>3
<1>43. ASSUME UnmapBar PROVE TypeOK' /\ LoopOK'
  <2>1. CardTypeOK'
    BY <1>43, WriteTypes DEF UnmapBar, ReleaseResource
  <2>2. HostTypeOK'
    BY <1>43, Zeros DEF UnmapBar, ReleaseResource, PCs, UnwindPCs, Errors
  <2>3. LoopOK'
    BY <1>43 DEF UnmapBar, ReleaseResource, CorePCs, UnwindPCs, InitLoop, StartPCs, TeardownPCs, ResetPCs, DSPS
  <2> QED BY <2>1, <2>2, <2>3
<1>44. ASSUME ReleaseRegion PROVE TypeOK' /\ LoopOK'
  <2>1. CardTypeOK'
    BY <1>44, WriteTypes DEF ReleaseRegion, ReleaseResource
  <2>2. HostTypeOK'
    BY <1>44, Zeros DEF ReleaseRegion, ReleaseResource, PCs, UnwindPCs, Errors
  <2>3. LoopOK'
    BY <1>44 DEF ReleaseRegion, ReleaseResource, CorePCs, UnwindPCs, InitLoop, StartPCs, TeardownPCs, ResetPCs, DSPS
  <2> QED BY <2>1, <2>2, <2>3
<1>45. ASSUME DisableDevice PROVE TypeOK' /\ LoopOK'
  <2>1. CardTypeOK'
    BY <1>45, WriteTypes DEF DisableDevice, ReleaseResource
  <2>2. HostTypeOK'
    BY <1>45, Zeros DEF DisableDevice, ReleaseResource, PCs, UnwindPCs, Errors
  <2>3. LoopOK'
    BY <1>45 DEF DisableDevice, ReleaseResource, CorePCs, UnwindPCs, InitLoop, StartPCs, TeardownPCs, ResetPCs, DSPS
  <2> QED BY <2>1, <2>2, <2>3
<1>46. ASSUME RemoveUnlock PROVE TypeOK' /\ LoopOK'
  <2>1. CardTypeOK'
    BY <1>46, WriteTypes DEF RemoveUnlock
  <2>2. HostTypeOK'
    BY <1>46, Zeros DEF RemoveUnlock, PCs, UnwindPCs, Errors
  <2>3. LoopOK'
    BY <1>46 DEF RemoveUnlock, CorePCs, UnwindPCs, InitLoop, StartPCs, TeardownPCs, ResetPCs, DSPS
  <2> QED BY <2>1, <2>2, <2>3
<1>47. ASSUME PutDevice PROVE TypeOK' /\ LoopOK'
  <2>1. CardTypeOK'
    BY <1>47, WriteTypes DEF PutDevice, KrefPut
  <2>a. ref' \in [Gens -> Int]
    BY <1>47, Zeros, CountTypes DEF PutDevice, KrefPut
  <2>2. HostTypeOK'
    BY <1>47, <2>a, Zeros DEF PutDevice, PCs, UnwindPCs, Errors
  <2>3. LoopOK'
    BY <1>47 DEF PutDevice, KrefPut, CorePCs, UnwindPCs, InitLoop, StartPCs, TeardownPCs, ResetPCs, DSPS
  <2> QED BY <2>1, <2>2, <2>3
<1>90. ASSUME Card PROVE TypeOK' /\ LoopOK'
  BY <1>90, WriteTypes DEF Card, hostVars
<1>91. ASSUME UNCHANGED vars PROVE TypeOK' /\ LoopOK'
  BY <1>91, WriteTypes DEF vars
<1> HIDE DEF TypeOK, LoopOK, HostTypeOK, At, Goto, Finish, busVars, devVars, argVars, loopVars, Actors
<1> QED
  BY <1>1, <1>2, <1>3, <1>4, <1>5, <1>6, <1>7, <1>8, <1>9, <1>10, <1>11, <1>12, <1>13, <1>14, <1>15, <1>16, <1>17, <1>18, <1>19, <1>20, <1>21, <1>22, <1>23, <1>24, <1>25, <1>26, <1>27, <1>28, <1>29, <1>30, <1>31, <1>32, <1>33, <1>34, <1>35, <1>36, <1>37, <1>38, <1>39, <1>40, <1>41, <1>42, <1>43, <1>44, <1>45, <1>46, <1>47,
     <1>90, <1>91 DEF Next, ClientCall, ClientStep, StartStep, TeardownStep, ResetStep,
     CoreCall, CoreStep, Actors

----------------------------------------------------------------------------
(* Mutual exclusion and the generations.                                   *)

\* A client past the removing check has the mutex of the bound generation to
\* itself, and Core is outside its own sequences.
LEMMA ActiveClient ==
  ASSUME TypeOK, LoopOK, LockInv, GenInv, CoreInv,
         NEW c \in Clients, pc[c] \in ActivePCs
  PROVE  /\ dv[c] = bound /\ bound \in Gens /\ owner[bound] = c
         /\ \A b \in Clients : pc[b] \in ActivePCs => b = c
         /\ pc[Core] \in {"idle", "rDeregister", "rLock"}
<1>1. dv[c] = bound /\ bound \in Gens /\ owner[bound] = c
  BY DEF GenInv, LockInv, TypeOK, HostTypeOK, Gens, ActivePCs, StartPCs, TeardownPCs, ResetPCs
<1>2. \A b \in Clients : pc[b] \in ActivePCs => b = c
  BY <1>1 DEF GenInv, LockInv
<1>3. ~ CoreHolds
  BY <1>1, ActorAssumption DEF LockInv, CoreInv, Gens
<1>4. ~ (op[Core] = "probe" /\ pc[Core] # "idle")
  BY <1>1 DEF CoreInv
<1>5. pc[Core] \notin TeardownPCs \cup ProbePCs \cup UnwindPCs \cup {"rUnlock"}
  BY <1>1, <1>3, <1>4 DEF CoreHolds, CoreInv, Gens, ProbePCs, UnwindPCs, TeardownPCs
<1> QED BY <1>1, <1>2, <1>5 DEF LoopOK, CorePCs

\* A client inside its locked section moves on within it, or to its unlock, and
\* touches nothing that mutex and generations depend on.
LEMMA ClientMoves ==
  ASSUME TypeOK, LockInv, GenInv, CoreInv,
         NEW c \in Clients, pc[c] \in ActivePCs,
         NEW l \in ActivePCs \cup {"unlock"}, pc' = [pc EXCEPT ![c] = l],
         UNCHANGED <<bound, misc, nextGen, owner, removing, file, dv, op>>
  PROVE  LockInv' /\ GenInv' /\ CoreInv'
<1>1. /\ pc'[c] = l /\ pc'[Core] = pc[Core]
      /\ \A b \in Clients \ {c} : pc'[b] = pc[b]
  BY ActorAssumption DEF TypeOK, HostTypeOK, Actors
<1>2. CoreHolds' = CoreHolds
  BY <1>1 DEF CoreHolds
<1>3. LockInv'
  BY <1>1, <1>2 DEF LockInv
<1>4. pc[c] # "idle"
  BY DEF ActivePCs, StartPCs, TeardownPCs, ResetPCs
<1>5. ASSUME NEW b \in Clients
      PROVE  /\ pc'[b] # "idle" => dv[b] # 0
             /\ pc'[b] \in ActivePCs => dv[b] = bound /\ ~ removing[dv[b]]
  <2>1. CASE b = c
    BY <2>1, <1>4 DEF GenInv
  <2>2. CASE b # c
    BY <2>2, <1>1 DEF GenInv
  <2> QED BY <2>1, <2>2
<1>6. GenInv'
  BY <1>1, <1>5 DEF GenInv
<1>7. CoreInv'
  BY <1>1, <1>2 DEF CoreInv
<1> QED BY <1>3, <1>6, <1>7

\* Mutex, generations and the place of Core are inductive.
LEMMA OwnershipStep ==
  ASSUME TypeOK, LoopOK, LockInv, GenInv, CoreInv, [Next]_vars
  PROVE  LockInv' /\ GenInv' /\ CoreInv'
<1> USE CardAssumption, ActorAssumption DEF TypeOK, HostTypeOK, LoopOK, At, Goto, Finish,
        busVars, devVars, argVars, loopVars, Actors, Gens
<1>1. ASSUME NEW c \in Clients, OpenCall(c) PROVE LockInv' /\ GenInv' /\ CoreInv'
  <2>1. LockInv'
    BY <1>1 DEF OpenCall, LockInv, GenInv, CoreInv, CoreHolds, ActivePCs, StartPCs, TeardownPCs, ResetPCs, ProbePCs, UnwindPCs, ClientPCs, CorePCs
  <2>2. GenInv'
    BY <1>1 DEF OpenCall, LockInv, GenInv, CoreInv, CoreHolds, ActivePCs, StartPCs, TeardownPCs, ResetPCs, ProbePCs, UnwindPCs, ClientPCs, CorePCs
  <2>3. CoreInv'
    BY <1>1 DEF OpenCall, LockInv, GenInv, CoreInv, CoreHolds, ActivePCs, StartPCs, TeardownPCs, ResetPCs, ProbePCs, UnwindPCs, ClientPCs, CorePCs
  <2> QED BY <2>1, <2>2, <2>3
<1>2. ASSUME NEW c \in Clients, Open(c) PROVE LockInv' /\ GenInv' /\ CoreInv'
  <2>1. LockInv'
    BY <1>2 DEF Open, LockInv, GenInv, CoreInv, CoreHolds, ActivePCs, StartPCs, TeardownPCs, ResetPCs, ProbePCs, UnwindPCs, ClientPCs, CorePCs
  <2>2. GenInv'
    <3>1. /\ pc'[c] = "idle" /\ dv'[c] = 0 /\ file'[c] \in {file[c], dv[c], 0}
          /\ \A b \in Clients \ {c} : pc'[b] = pc[b] /\ dv'[b] = dv[b] /\ file'[b] = file[b]
          /\ UNCHANGED <<bound, misc, nextGen, removing>> /\ pc'[Core] = pc[Core]
      BY <1>2 DEF Open
    <3>2. "idle" \notin ActivePCs
      BY DEF ActivePCs, StartPCs, TeardownPCs, ResetPCs
    <3>3. ASSUME NEW b \in Clients
          PROVE  /\ file'[b] <= nextGen' /\ dv'[b] <= nextGen'
                 /\ pc'[b] # "idle" => dv'[b] # 0
                 /\ pc'[b] \in ActivePCs => dv'[b] = bound' /\ ~ removing'[dv'[b]]
                 /\ file'[b] # 0 /\ ~ removing'[file'[b]] => file'[b] = bound'
                 /\ dv'[b] # 0 /\ ~ removing'[dv'[b]] => dv'[b] = bound'
      <4>1. CASE b = c
        BY <4>1, <3>1, <3>2 DEF GenInv
      <4>2. CASE b # c
        BY SMTT(40), <4>2, <3>1 DEF GenInv
      <4> QED BY <4>1, <4>2
    <3> QED BY <3>1, <3>3 DEF GenInv
  <2>3. CoreInv'
    BY <1>2 DEF Open, LockInv, GenInv, CoreInv, CoreHolds, ActivePCs, StartPCs, TeardownPCs, ResetPCs, ProbePCs, UnwindPCs, ClientPCs, CorePCs
  <2> QED BY <2>1, <2>2, <2>3
<1>3. ASSUME NEW c \in Clients, Release(c) PROVE LockInv' /\ GenInv' /\ CoreInv'
  <2>1. LockInv'
    BY <1>3 DEF Release, KrefPut, LockInv, GenInv, CoreInv, CoreHolds, ActivePCs, StartPCs, TeardownPCs, ResetPCs, ProbePCs, UnwindPCs, ClientPCs, CorePCs
  <2>2. GenInv'
    BY SMTT(40), <1>3 DEF Release, KrefPut, LockInv, GenInv, CoreInv, CoreHolds, ActivePCs, StartPCs, TeardownPCs, ResetPCs, ProbePCs, UnwindPCs, ClientPCs, CorePCs
  <2>3. CoreInv'
    BY <1>3 DEF Release, KrefPut, LockInv, GenInv, CoreInv, CoreHolds, ActivePCs, StartPCs, TeardownPCs, ResetPCs, ProbePCs, UnwindPCs, ClientPCs, CorePCs
  <2> QED BY <2>1, <2>2, <2>3
<1>4. ASSUME NEW c \in Clients, IoctlCall(c) PROVE LockInv' /\ GenInv' /\ CoreInv'
  <2>1. LockInv'
    BY <1>4 DEF IoctlCall, Commands, LockInv, GenInv, CoreInv, CoreHolds, ActivePCs, StartPCs, TeardownPCs, ResetPCs, ProbePCs, UnwindPCs, ClientPCs, CorePCs
  <2>2. GenInv'
    BY SMTT(40), <1>4 DEF IoctlCall, Commands, LockInv, GenInv, CoreInv, CoreHolds, ActivePCs, StartPCs, TeardownPCs, ResetPCs, ProbePCs, UnwindPCs, ClientPCs, CorePCs
  <2>3. CoreInv'
    BY <1>4 DEF IoctlCall, Commands, LockInv, GenInv, CoreInv, CoreHolds, ActivePCs, StartPCs, TeardownPCs, ResetPCs, ProbePCs, UnwindPCs, ClientPCs, CorePCs
  <2> QED BY <2>1, <2>2, <2>3
<1>5. ASSUME NEW c \in Clients, Lock(c) PROVE LockInv' /\ GenInv' /\ CoreInv'
  <2>1. LockInv'
    <3>1. /\ dv[c] \in Gens /\ owner[dv[c]] = Nobody /\ owner' = [owner EXCEPT ![dv[c]] = c]
          /\ UNCHANGED <<dv, op, removing>> /\ pc'[Core] = pc[Core]
          /\ \A b \in Clients \ {c} : pc'[b] = pc[b]
      BY <1>5 DEF Lock, GenInv
    <3>2. \A b \in Clients : dv[b] \in Gens \/ pc[b] = "idle"
      BY DEF GenInv
    <3>3. "idle" \notin ActivePCs \cup {"unlock"}
      BY DEF ActivePCs, StartPCs, TeardownPCs, ResetPCs
    <3>4. ASSUME NEW b \in Clients, pc'[b] \in ActivePCs \cup {"unlock"}
          PROVE  owner'[dv'[b]] = b
      <4>1. CASE b = c
        BY <3>1, <4>1
      <4>2. CASE b # c
        <5>1. pc[b] \in ActivePCs \cup {"unlock"} /\ dv'[b] = dv[b]
          BY <3>1, <3>4, <4>2
        <5>2. owner[dv[b]] = b /\ dv[b] \in Gens
          BY <3>2, <3>3, <5>1 DEF LockInv
        <5>3. dv[b] # dv[c]
          BY <3>1, <5>2
        <5> QED BY <3>1, <5>1, <5>2, <5>3
      <4> QED BY <4>1, <4>2
    <3>5. CoreHolds' => owner'[dv'[Core]] = Core /\ removing'[dv'[Core]]
      BY <3>1 DEF LockInv, CoreHolds
    <3> QED BY <3>4, <3>5 DEF LockInv
  <2>2. GenInv'
    BY SMTT(40), <1>5 DEF Lock, LockInv, GenInv, CoreInv, CoreHolds, ActivePCs, StartPCs, TeardownPCs, ResetPCs, ProbePCs, UnwindPCs, ClientPCs, CorePCs
  <2>3. CoreInv'
    BY <1>5 DEF Lock, LockInv, GenInv, CoreInv, CoreHolds, ActivePCs, StartPCs, TeardownPCs, ResetPCs, ProbePCs, UnwindPCs, ClientPCs, CorePCs
  <2> QED BY <2>1, <2>2, <2>3
<1>6. ASSUME NEW c \in Clients, Query(c) PROVE LockInv' /\ GenInv' /\ CoreInv'
  <2>1. PICK l \in ActivePCs \cup {"unlock"} : pc[c] \in ActivePCs /\ pc' = [pc EXCEPT ![c] = l]
    BY <1>6 DEF Query, ActivePCs, StartPCs, TeardownPCs, ResetPCs
  <2>2. UNCHANGED <<bound, misc, nextGen, owner, removing, file, dv, op>>
    BY <1>6 DEF Query
  <2> QED BY <2>1, <2>2, ClientMoves
<1>7. ASSUME NEW c \in Clients, NotCapable(c) PROVE LockInv' /\ GenInv' /\ CoreInv'
  <2>1. PICK l \in ActivePCs \cup {"unlock"} : pc[c] \in ActivePCs /\ pc' = [pc EXCEPT ![c] = l]
    BY <1>7 DEF NotCapable, ActivePCs, StartPCs, TeardownPCs, ResetPCs
  <2>2. UNCHANGED <<bound, misc, nextGen, owner, removing, file, dv, op>>
    BY <1>7 DEF NotCapable
  <2> QED BY <2>1, <2>2, ClientMoves
<1>8. ASSUME NEW c \in Clients, Unlock(c) PROVE LockInv' /\ GenInv' /\ CoreInv'
  <2>1. LockInv'
    BY <1>8 DEF Unlock, LockInv, GenInv, CoreInv, CoreHolds, ActivePCs, StartPCs, TeardownPCs, ResetPCs, ProbePCs, UnwindPCs, ClientPCs, CorePCs
  <2>2. GenInv'
    <3>1. /\ pc'[c] = "idle" /\ dv'[c] = 0 /\ file'[c] \in {file[c], dv[c], 0}
          /\ \A b \in Clients \ {c} : pc'[b] = pc[b] /\ dv'[b] = dv[b] /\ file'[b] = file[b]
          /\ UNCHANGED <<bound, misc, nextGen, removing>> /\ pc'[Core] = pc[Core]
      BY <1>8 DEF Unlock
    <3>2. "idle" \notin ActivePCs
      BY DEF ActivePCs, StartPCs, TeardownPCs, ResetPCs
    <3>3. ASSUME NEW b \in Clients
          PROVE  /\ file'[b] <= nextGen' /\ dv'[b] <= nextGen'
                 /\ pc'[b] # "idle" => dv'[b] # 0
                 /\ pc'[b] \in ActivePCs => dv'[b] = bound' /\ ~ removing'[dv'[b]]
                 /\ file'[b] # 0 /\ ~ removing'[file'[b]] => file'[b] = bound'
                 /\ dv'[b] # 0 /\ ~ removing'[dv'[b]] => dv'[b] = bound'
      <4>1. CASE b = c
        BY <4>1, <3>1, <3>2 DEF GenInv
      <4>2. CASE b # c
        BY SMTT(40), <4>2, <3>1 DEF GenInv
      <4> QED BY <4>1, <4>2
    <3> QED BY <3>1, <3>3 DEF GenInv
  <2>3. CoreInv'
    BY <1>8 DEF Unlock, LockInv, GenInv, CoreInv, CoreHolds, ActivePCs, StartPCs, TeardownPCs, ResetPCs, ProbePCs, UnwindPCs, ClientPCs, CorePCs
  <2> QED BY <2>1, <2>2, <2>3
<1>9. ASSUME NEW c \in Clients, StartEnter(c) PROVE LockInv' /\ GenInv' /\ CoreInv'
  <2>1. PICK l \in ActivePCs \cup {"unlock"} : pc[c] \in ActivePCs /\ pc' = [pc EXCEPT ![c] = l]
    BY <1>9 DEF StartEnter, ActivePCs, StartPCs, TeardownPCs, ResetPCs
  <2>2. UNCHANGED <<bound, misc, nextGen, owner, removing, file, dv, op>>
    BY <1>9 DEF StartEnter
  <2> QED BY <2>1, <2>2, ClientMoves
<1>10. ASSUME NEW c \in Clients, SetMaster(c) PROVE LockInv' /\ GenInv' /\ CoreInv'
  <2>1. PICK l \in ActivePCs \cup {"unlock"} : pc[c] \in ActivePCs /\ pc' = [pc EXCEPT ![c] = l]
    BY <1>10 DEF SetMaster, ActivePCs, StartPCs, TeardownPCs, ResetPCs
  <2>2. UNCHANGED <<bound, misc, nextGen, owner, removing, file, dv, op>>
    BY <1>10 DEF SetMaster
  <2> QED BY <2>1, <2>2, ClientMoves
<1>11. ASSUME NEW c \in Clients, Quiesce(c) PROVE LockInv' /\ GenInv' /\ CoreInv'
  <2>1. PICK l \in ActivePCs \cup {"unlock"} : pc[c] \in ActivePCs /\ pc' = [pc EXCEPT ![c] = l]
    BY <1>11 DEF Quiesce, ActivePCs, StartPCs, TeardownPCs, ResetPCs
  <2>2. UNCHANGED <<bound, misc, nextGen, owner, removing, file, dv, op>>
    BY <1>11 DEF Quiesce
  <2> QED BY <2>1, <2>2, ClientMoves
<1>12. ASSUME NEW c \in Clients, ResetGlobal(c) PROVE LockInv' /\ GenInv' /\ CoreInv'
  <2>1. PICK l \in ActivePCs \cup {"unlock"} : pc[c] \in ActivePCs /\ pc' = [pc EXCEPT ![c] = l]
    BY <1>12 DEF ResetGlobal, ActivePCs, StartPCs, TeardownPCs, ResetPCs
  <2>2. UNCHANGED <<bound, misc, nextGen, owner, removing, file, dv, op>>
    BY <1>12 DEF ResetGlobal
  <2> QED BY <2>1, <2>2, ClientMoves
<1>13. ASSUME NEW c \in Clients, GlobalOnly(c) PROVE LockInv' /\ GenInv' /\ CoreInv'
  <2>1. PICK l \in ActivePCs \cup {"unlock"} : pc[c] \in ActivePCs /\ pc' = [pc EXCEPT ![c] = l]
    BY <1>13 DEF GlobalOnly, ActivePCs, StartPCs, TeardownPCs, ResetPCs
  <2>2. UNCHANGED <<bound, misc, nextGen, owner, removing, file, dv, op>>
    BY <1>13 DEF GlobalOnly
  <2> QED BY <2>1, <2>2, ClientMoves
<1>14. ASSUME NEW c \in Clients, RingIndex(c) PROVE LockInv' /\ GenInv' /\ CoreInv'
  <2>1. PICK l \in ActivePCs \cup {"unlock"} : pc[c] \in ActivePCs /\ pc' = [pc EXCEPT ![c] = l]
    BY <1>14 DEF RingIndex, ActivePCs, StartPCs, TeardownPCs, ResetPCs
  <2>2. UNCHANGED <<bound, misc, nextGen, owner, removing, file, dv, op>>
    BY <1>14 DEF RingIndex
  <2> QED BY <2>1, <2>2, ClientMoves
<1>15. ASSUME NEW c \in Clients, RingDesc(c) PROVE LockInv' /\ GenInv' /\ CoreInv'
  <2>1. PICK l \in ActivePCs \cup {"unlock"} : pc[c] \in ActivePCs /\ pc' = [pc EXCEPT ![c] = l]
    BY <1>15 DEF RingDesc, ActivePCs, StartPCs, TeardownPCs, ResetPCs
  <2>2. UNCHANGED <<bound, misc, nextGen, owner, removing, file, dv, op>>
    BY <1>15 DEF RingDesc
  <2> QED BY <2>1, <2>2, ClientMoves
<1>16. ASSUME NEW c \in Clients, RingDone(c) PROVE LockInv' /\ GenInv' /\ CoreInv'
  <2>1. PICK l \in ActivePCs \cup {"unlock"} : pc[c] \in ActivePCs /\ pc' = [pc EXCEPT ![c] = l]
    BY <1>16 DEF RingDone, RINGS, ActivePCs, StartPCs, TeardownPCs, ResetPCs
  <2>2. UNCHANGED <<bound, misc, nextGen, owner, removing, file, dv, op>>
    BY <1>16 DEF RingDone
  <2> QED BY <2>1, <2>2, ClientMoves
<1>17. ASSUME NEW c \in Clients, Enable(c) PROVE LockInv' /\ GenInv' /\ CoreInv'
  <2>1. PICK l \in ActivePCs \cup {"unlock"} : pc[c] \in ActivePCs /\ pc' = [pc EXCEPT ![c] = l]
    BY <1>17 DEF Enable, ActivePCs, StartPCs, TeardownPCs, ResetPCs
  <2>2. UNCHANGED <<bound, misc, nextGen, owner, removing, file, dv, op>>
    BY <1>17 DEF Enable
  <2> QED BY <2>1, <2>2, ClientMoves
<1>18. ASSUME NEW c \in Clients, Verify(c) PROVE LockInv' /\ GenInv' /\ CoreInv'
  <2>1. PICK l \in ActivePCs \cup {"unlock"} : pc[c] \in ActivePCs /\ pc' = [pc EXCEPT ![c] = l]
    BY <1>18 DEF Verify, ActivePCs, StartPCs, TeardownPCs, ResetPCs
  <2>2. UNCHANGED <<bound, misc, nextGen, owner, removing, file, dv, op>>
    BY <1>18 DEF Verify
  <2> QED BY <2>1, <2>2, ClientMoves
<1>19. ASSUME NEW c \in Clients, StopEnter(c) PROVE LockInv' /\ GenInv' /\ CoreInv'
  <2>1. PICK l \in ActivePCs \cup {"unlock"} : pc[c] \in ActivePCs /\ pc' = [pc EXCEPT ![c] = l]
    BY <1>19 DEF StopEnter, ActivePCs, StartPCs, TeardownPCs, ResetPCs
  <2>2. UNCHANGED <<bound, misc, nextGen, owner, removing, file, dv, op>>
    BY <1>19 DEF StopEnter
  <2> QED BY <2>1, <2>2, ClientMoves
<1>20. ASSUME NEW c \in Clients, ResetEnter(c) PROVE LockInv' /\ GenInv' /\ CoreInv'
  <2>1. PICK l \in ActivePCs \cup {"unlock"} : pc[c] \in ActivePCs /\ pc' = [pc EXCEPT ![c] = l]
    BY <1>20 DEF ResetEnter, ActivePCs, StartPCs, TeardownPCs, ResetPCs
  <2>2. UNCHANGED <<bound, misc, nextGen, owner, removing, file, dv, op>>
    BY <1>20 DEF ResetEnter
  <2> QED BY <2>1, <2>2, ClientMoves
<1>21. ASSUME NEW c \in Clients, Pulse(c) PROVE LockInv' /\ GenInv' /\ CoreInv'
  <2>1. PICK l \in ActivePCs \cup {"unlock"} : pc[c] \in ActivePCs /\ pc' = [pc EXCEPT ![c] = l]
    BY <1>21 DEF Pulse, ActivePCs, StartPCs, TeardownPCs, ResetPCs
  <2>2. UNCHANGED <<bound, misc, nextGen, owner, removing, file, dv, op>>
    BY <1>21 DEF Pulse
  <2> QED BY <2>1, <2>2, ClientMoves
<1>22. ASSUME NEW c \in Clients, Unpulse(c) PROVE LockInv' /\ GenInv' /\ CoreInv'
  <2>1. PICK l \in ActivePCs \cup {"unlock"} : pc[c] \in ActivePCs /\ pc' = [pc EXCEPT ![c] = l]
    BY <1>22 DEF Unpulse, ActivePCs, StartPCs, TeardownPCs, ResetPCs
  <2>2. UNCHANGED <<bound, misc, nextGen, owner, removing, file, dv, op>>
    BY <1>22 DEF Unpulse
  <2> QED BY <2>1, <2>2, ClientMoves
<1>23. ASSUME NEW c \in Clients, Reenable(c) PROVE LockInv' /\ GenInv' /\ CoreInv'
  <2>1. PICK l \in ActivePCs \cup {"unlock"} : pc[c] \in ActivePCs /\ pc' = [pc EXCEPT ![c] = l]
    BY <1>23 DEF Reenable, ActivePCs, StartPCs, TeardownPCs, ResetPCs
  <2>2. UNCHANGED <<bound, misc, nextGen, owner, removing, file, dv, op>>
    BY <1>23 DEF Reenable
  <2> QED BY <2>1, <2>2, ClientMoves
<1>24. ASSUME NEW c \in Clients, ResetCheck(c) PROVE LockInv' /\ GenInv' /\ CoreInv'
  <2>1. PICK l \in ActivePCs \cup {"unlock"} : pc[c] \in ActivePCs /\ pc' = [pc EXCEPT ![c] = l]
    BY <1>24 DEF ResetCheck, ActivePCs, StartPCs, TeardownPCs, ResetPCs
  <2>2. UNCHANGED <<bound, misc, nextGen, owner, removing, file, dv, op>>
    BY <1>24 DEF ResetCheck
  <2> QED BY <2>1, <2>2, ClientMoves
<1>25. ASSUME NEW a \in Actors, TdInt(a) PROVE LockInv' /\ GenInv' /\ CoreInv'
  <2>1. LockInv'
    BY <1>25 DEF TdInt, LockInv, GenInv, CoreInv, CoreHolds, ActivePCs, StartPCs, TeardownPCs, ResetPCs, ProbePCs, UnwindPCs, ClientPCs, CorePCs
  <2>2. GenInv'
    BY <1>25 DEF TdInt, LockInv, GenInv, CoreInv, CoreHolds, ActivePCs, StartPCs, TeardownPCs, ResetPCs, ProbePCs, UnwindPCs, ClientPCs, CorePCs
  <2>3. CoreInv'
    BY <1>25 DEF TdInt, LockInv, GenInv, CoreInv, CoreHolds, ActivePCs, StartPCs, TeardownPCs, ResetPCs, ProbePCs, UnwindPCs, ClientPCs, CorePCs
  <2> QED BY <2>1, <2>2, <2>3
<1>26. ASSUME NEW a \in Actors, TdReset(a) PROVE LockInv' /\ GenInv' /\ CoreInv'
  <2>1. LockInv'
    BY <1>26 DEF TdReset, LockInv, GenInv, CoreInv, CoreHolds, ActivePCs, StartPCs, TeardownPCs, ResetPCs, ProbePCs, UnwindPCs, ClientPCs, CorePCs
  <2>2. GenInv'
    BY <1>26 DEF TdReset, LockInv, GenInv, CoreInv, CoreHolds, ActivePCs, StartPCs, TeardownPCs, ResetPCs, ProbePCs, UnwindPCs, ClientPCs, CorePCs
  <2>3. CoreInv'
    BY <1>26 DEF TdReset, LockInv, GenInv, CoreInv, CoreHolds, ActivePCs, StartPCs, TeardownPCs, ResetPCs, ProbePCs, UnwindPCs, ClientPCs, CorePCs
  <2> QED BY <2>1, <2>2, <2>3
<1>27. ASSUME NEW a \in Actors, TdGlobal(a) PROVE LockInv' /\ GenInv' /\ CoreInv'
  <2>1. LockInv'
    BY <1>27 DEF TdGlobal, LockInv, GenInv, CoreInv, CoreHolds, ActivePCs, StartPCs, TeardownPCs, ResetPCs, ProbePCs, UnwindPCs, ClientPCs, CorePCs
  <2>2. GenInv'
    BY <1>27 DEF TdGlobal, LockInv, GenInv, CoreInv, CoreHolds, ActivePCs, StartPCs, TeardownPCs, ResetPCs, ProbePCs, UnwindPCs, ClientPCs, CorePCs
  <2>3. CoreInv'
    BY <1>27 DEF TdGlobal, LockInv, GenInv, CoreInv, CoreHolds, ActivePCs, StartPCs, TeardownPCs, ResetPCs, ProbePCs, UnwindPCs, ClientPCs, CorePCs
  <2> QED BY <2>1, <2>2, <2>3
<1>28. ASSUME NEW a \in Actors, TdClear(a) PROVE LockInv' /\ GenInv' /\ CoreInv'
  <2>1. LockInv'
    BY <1>28 DEF TdClear, LockInv, GenInv, CoreInv, CoreHolds, ActivePCs, StartPCs, TeardownPCs, ResetPCs, ProbePCs, UnwindPCs, ClientPCs, CorePCs
  <2>2. GenInv'
    BY <1>28 DEF TdClear, LockInv, GenInv, CoreInv, CoreHolds, ActivePCs, StartPCs, TeardownPCs, ResetPCs, ProbePCs, UnwindPCs, ClientPCs, CorePCs
  <2>3. CoreInv'
    BY <1>28 DEF TdClear, LockInv, GenInv, CoreInv, CoreHolds, ActivePCs, StartPCs, TeardownPCs, ResetPCs, ProbePCs, UnwindPCs, ClientPCs, CorePCs
  <2> QED BY <2>1, <2>2, <2>3
<1>29. ASSUME NEW a \in Actors, TdCold(a) PROVE LockInv' /\ GenInv' /\ CoreInv'
  <2>1. LockInv'
    BY <1>29 DEF TdCold, LockInv, GenInv, CoreInv, CoreHolds, ActivePCs, StartPCs, TeardownPCs, ResetPCs, ProbePCs, UnwindPCs, ClientPCs, CorePCs
  <2>2. GenInv'
    BY <1>29 DEF TdCold, LockInv, GenInv, CoreInv, CoreHolds, ActivePCs, StartPCs, TeardownPCs, ResetPCs, ProbePCs, UnwindPCs, ClientPCs, CorePCs
  <2>3. CoreInv'
    BY <1>29 DEF TdCold, LockInv, GenInv, CoreInv, CoreHolds, ActivePCs, StartPCs, TeardownPCs, ResetPCs, ProbePCs, UnwindPCs, ClientPCs, CorePCs
  <2> QED BY <2>1, <2>2, <2>3
<1>30. ASSUME NEW a \in Actors, TdMaster(a) PROVE LockInv' /\ GenInv' /\ CoreInv'
  <2>1. LockInv'
    BY SMTT(40), <1>30 DEF TdMaster, LockInv, GenInv, CoreInv, CoreHolds, ActivePCs, StartPCs, TeardownPCs, ResetPCs, ProbePCs, UnwindPCs, ClientPCs, CorePCs
  <2>2. GenInv'
    BY SMTT(40), <1>30 DEF TdMaster, LockInv, GenInv, CoreInv, CoreHolds, ActivePCs, StartPCs, TeardownPCs, ResetPCs, ProbePCs, UnwindPCs, ClientPCs, CorePCs
  <2>3. CoreInv'
    BY SMTT(40), <1>30 DEF TdMaster, LockInv, GenInv, CoreInv, CoreHolds, ActivePCs, StartPCs, TeardownPCs, ResetPCs, ProbePCs, UnwindPCs, ClientPCs, CorePCs
  <2> QED BY <2>1, <2>2, <2>3
<1>31. ASSUME NEW a \in Actors, TdCheck(a) PROVE LockInv' /\ GenInv' /\ CoreInv'
  <2>1. LockInv'
    BY SMTT(40), <1>31 DEF TdCheck, LockInv, GenInv, CoreInv, CoreHolds, ActivePCs, StartPCs, TeardownPCs, ResetPCs, ProbePCs, UnwindPCs, ClientPCs, CorePCs
  <2>2. GenInv'
    BY SMTT(40), <1>31 DEF TdCheck, LockInv, GenInv, CoreInv, CoreHolds, ActivePCs, StartPCs, TeardownPCs, ResetPCs, ProbePCs, UnwindPCs, ClientPCs, CorePCs
  <2>3. CoreInv'
    BY <1>31 DEF TdCheck, LockInv, GenInv, CoreInv, CoreHolds, ActivePCs, StartPCs, TeardownPCs, ResetPCs, ProbePCs, UnwindPCs, ClientPCs, CorePCs
  <2> QED BY <2>1, <2>2, <2>3
<1>32. ASSUME ProbeCall PROVE LockInv' /\ GenInv' /\ CoreInv'
  <2>1. LockInv'
    BY <1>32 DEF ProbeCall, LockInv, GenInv, CoreInv, CoreHolds, ActivePCs, StartPCs, TeardownPCs, ResetPCs, ProbePCs, UnwindPCs, ClientPCs, CorePCs
  <2>2. GenInv'
    BY SMTT(40), <1>32 DEF ProbeCall, LockInv, GenInv, CoreInv, CoreHolds, ActivePCs, StartPCs, TeardownPCs, ResetPCs, ProbePCs, UnwindPCs, ClientPCs, CorePCs
  <2>3. CoreInv'
    BY <1>32 DEF ProbeCall, LockInv, GenInv, CoreInv, CoreHolds, ActivePCs, StartPCs, TeardownPCs, ResetPCs, ProbePCs, UnwindPCs, ClientPCs, CorePCs
  <2> QED BY <2>1, <2>2, <2>3
<1>33. ASSUME ProbeEnable PROVE LockInv' /\ GenInv' /\ CoreInv'
  <2>1. LockInv'
    BY <1>33 DEF ProbeEnable, Acquire, Resources, LockInv, GenInv, CoreInv, CoreHolds, ActivePCs, StartPCs, TeardownPCs, ResetPCs, ProbePCs, UnwindPCs, ClientPCs, CorePCs
  <2>2. GenInv'
    BY <1>33 DEF ProbeEnable, Acquire, Resources, LockInv, GenInv, CoreInv, CoreHolds, ActivePCs, StartPCs, TeardownPCs, ResetPCs, ProbePCs, UnwindPCs, ClientPCs, CorePCs
  <2>3. CoreInv'
    BY <1>33 DEF ProbeEnable, Acquire, Resources, LockInv, GenInv, CoreInv, CoreHolds, ActivePCs, StartPCs, TeardownPCs, ResetPCs, ProbePCs, UnwindPCs, ClientPCs, CorePCs
  <2> QED BY <2>1, <2>2, <2>3
<1>34. ASSUME ProbeRegion PROVE LockInv' /\ GenInv' /\ CoreInv'
  <2>1. LockInv'
    BY <1>34 DEF ProbeRegion, Acquire, Resources, LockInv, GenInv, CoreInv, CoreHolds, ActivePCs, StartPCs, TeardownPCs, ResetPCs, ProbePCs, UnwindPCs, ClientPCs, CorePCs
  <2>2. GenInv'
    BY <1>34 DEF ProbeRegion, Acquire, Resources, LockInv, GenInv, CoreInv, CoreHolds, ActivePCs, StartPCs, TeardownPCs, ResetPCs, ProbePCs, UnwindPCs, ClientPCs, CorePCs
  <2>3. CoreInv'
    BY <1>34 DEF ProbeRegion, Acquire, Resources, LockInv, GenInv, CoreInv, CoreHolds, ActivePCs, StartPCs, TeardownPCs, ResetPCs, ProbePCs, UnwindPCs, ClientPCs, CorePCs
  <2> QED BY <2>1, <2>2, <2>3
<1>35. ASSUME ProbeMap PROVE LockInv' /\ GenInv' /\ CoreInv'
  <2>1. LockInv'
    BY <1>35 DEF ProbeMap, Acquire, Resources, LockInv, GenInv, CoreInv, CoreHolds, ActivePCs, StartPCs, TeardownPCs, ResetPCs, ProbePCs, UnwindPCs, ClientPCs, CorePCs
  <2>2. GenInv'
    BY <1>35 DEF ProbeMap, Acquire, Resources, LockInv, GenInv, CoreInv, CoreHolds, ActivePCs, StartPCs, TeardownPCs, ResetPCs, ProbePCs, UnwindPCs, ClientPCs, CorePCs
  <2>3. CoreInv'
    BY <1>35 DEF ProbeMap, Acquire, Resources, LockInv, GenInv, CoreInv, CoreHolds, ActivePCs, StartPCs, TeardownPCs, ResetPCs, ProbePCs, UnwindPCs, ClientPCs, CorePCs
  <2> QED BY <2>1, <2>2, <2>3
<1>36. ASSUME ProbeCold PROVE LockInv' /\ GenInv' /\ CoreInv'
  <2>1. LockInv'
    BY <1>36 DEF ProbeCold, LockInv, GenInv, CoreInv, CoreHolds, ActivePCs, StartPCs, TeardownPCs, ResetPCs, ProbePCs, UnwindPCs, ClientPCs, CorePCs
  <2>2. GenInv'
    BY <1>36 DEF ProbeCold, LockInv, GenInv, CoreInv, CoreHolds, ActivePCs, StartPCs, TeardownPCs, ResetPCs, ProbePCs, UnwindPCs, ClientPCs, CorePCs
  <2>3. CoreInv'
    BY <1>36 DEF ProbeCold, LockInv, GenInv, CoreInv, CoreHolds, ActivePCs, StartPCs, TeardownPCs, ResetPCs, ProbePCs, UnwindPCs, ClientPCs, CorePCs
  <2> QED BY <2>1, <2>2, <2>3
<1>37. ASSUME ProbeAlloc PROVE LockInv' /\ GenInv' /\ CoreInv'
  <2>1. LockInv'
    BY <1>37 DEF ProbeAlloc, LockInv, GenInv, CoreInv, CoreHolds, ActivePCs, StartPCs, TeardownPCs, ResetPCs, ProbePCs, UnwindPCs, ClientPCs, CorePCs
  <2>2. GenInv'
    BY SMTT(40), <1>37 DEF ProbeAlloc, LockInv, GenInv, CoreInv, CoreHolds, ActivePCs, StartPCs, TeardownPCs, ResetPCs, ProbePCs, UnwindPCs, ClientPCs, CorePCs
  <2>3. CoreInv'
    BY <1>37 DEF ProbeAlloc, LockInv, GenInv, CoreInv, CoreHolds, ActivePCs, StartPCs, TeardownPCs, ResetPCs, ProbePCs, UnwindPCs, ClientPCs, CorePCs
  <2> QED BY <2>1, <2>2, <2>3
<1>38. ASSUME ProbeRegister PROVE LockInv' /\ GenInv' /\ CoreInv'
  <2>1. LockInv'
    BY <1>38 DEF ProbeRegister, LockInv, GenInv, CoreInv, CoreHolds, ActivePCs, StartPCs, TeardownPCs, ResetPCs, ProbePCs, UnwindPCs, ClientPCs, CorePCs
  <2>2. GenInv'
    BY <1>38 DEF ProbeRegister, LockInv, GenInv, CoreInv, CoreHolds, ActivePCs, StartPCs, TeardownPCs, ResetPCs, ProbePCs, UnwindPCs, ClientPCs, CorePCs
  <2>3. CoreInv'
    BY <1>38 DEF ProbeRegister, LockInv, GenInv, CoreInv, CoreHolds, ActivePCs, StartPCs, TeardownPCs, ResetPCs, ProbePCs, UnwindPCs, ClientPCs, CorePCs
  <2> QED BY <2>1, <2>2, <2>3
<1>39. ASSUME RemoveCall PROVE LockInv' /\ GenInv' /\ CoreInv'
  <2>1. LockInv'
    BY <1>39 DEF RemoveCall, LockInv, GenInv, CoreInv, CoreHolds, ActivePCs, StartPCs, TeardownPCs, ResetPCs, ProbePCs, UnwindPCs, ClientPCs, CorePCs
  <2>2. GenInv'
    BY <1>39 DEF RemoveCall, LockInv, GenInv, CoreInv, CoreHolds, ActivePCs, StartPCs, TeardownPCs, ResetPCs, ProbePCs, UnwindPCs, ClientPCs, CorePCs
  <2>3. CoreInv'
    BY <1>39 DEF RemoveCall, LockInv, GenInv, CoreInv, CoreHolds, ActivePCs, StartPCs, TeardownPCs, ResetPCs, ProbePCs, UnwindPCs, ClientPCs, CorePCs
  <2> QED BY <2>1, <2>2, <2>3
<1>40. ASSUME RemoveDeregister PROVE LockInv' /\ GenInv' /\ CoreInv'
  <2>1. LockInv'
    BY <1>40 DEF RemoveDeregister, LockInv, GenInv, CoreInv, CoreHolds, ActivePCs, StartPCs, TeardownPCs, ResetPCs, ProbePCs, UnwindPCs, ClientPCs, CorePCs
  <2>2. GenInv'
    BY <1>40 DEF RemoveDeregister, LockInv, GenInv, CoreInv, CoreHolds, ActivePCs, StartPCs, TeardownPCs, ResetPCs, ProbePCs, UnwindPCs, ClientPCs, CorePCs
  <2>3. CoreInv'
    BY <1>40 DEF RemoveDeregister, LockInv, GenInv, CoreInv, CoreHolds, ActivePCs, StartPCs, TeardownPCs, ResetPCs, ProbePCs, UnwindPCs, ClientPCs, CorePCs
  <2> QED BY <2>1, <2>2, <2>3
<1>41. ASSUME RemoveLock PROVE LockInv' /\ GenInv' /\ CoreInv'
  <2>1. LockInv'
    BY <1>41 DEF RemoveLock, LockInv, GenInv, CoreInv, CoreHolds, ActivePCs, StartPCs, TeardownPCs, ResetPCs, ProbePCs, UnwindPCs, ClientPCs, CorePCs
  <2>2. GenInv'
    BY <1>41 DEF RemoveLock, LockInv, GenInv, CoreInv, CoreHolds, ActivePCs, StartPCs, TeardownPCs, ResetPCs, ProbePCs, UnwindPCs, ClientPCs, CorePCs
  <2>3. CoreInv'
    BY <1>41 DEF RemoveLock, LockInv, GenInv, CoreInv, CoreHolds, ActivePCs, StartPCs, TeardownPCs, ResetPCs, ProbePCs, UnwindPCs, ClientPCs, CorePCs
  <2> QED BY <2>1, <2>2, <2>3
<1>42. ASSUME FreePages PROVE LockInv' /\ GenInv' /\ CoreInv'
  <2>1. LockInv'
    BY <1>42 DEF FreePages, LockInv, GenInv, CoreInv, CoreHolds, ActivePCs, StartPCs, TeardownPCs, ResetPCs, ProbePCs, UnwindPCs, ClientPCs, CorePCs
  <2>2. GenInv'
    BY SMTT(40), <1>42 DEF FreePages, LockInv, GenInv, CoreInv, CoreHolds, ActivePCs, StartPCs, TeardownPCs, ResetPCs, ProbePCs, UnwindPCs, ClientPCs, CorePCs
  <2>3. CoreInv'
    BY <1>42 DEF FreePages, LockInv, GenInv, CoreInv, CoreHolds, ActivePCs, StartPCs, TeardownPCs, ResetPCs, ProbePCs, UnwindPCs, ClientPCs, CorePCs
  <2> QED BY <2>1, <2>2, <2>3
<1>43. ASSUME UnmapBar PROVE LockInv' /\ GenInv' /\ CoreInv'
  <2>1. LockInv'
    BY <1>43 DEF UnmapBar, ReleaseResource, LockInv, GenInv, CoreInv, CoreHolds, ActivePCs, StartPCs, TeardownPCs, ResetPCs, ProbePCs, UnwindPCs, ClientPCs, CorePCs
  <2>2. GenInv'
    BY <1>43 DEF UnmapBar, ReleaseResource, LockInv, GenInv, CoreInv, CoreHolds, ActivePCs, StartPCs, TeardownPCs, ResetPCs, ProbePCs, UnwindPCs, ClientPCs, CorePCs
  <2>3. CoreInv'
    BY <1>43 DEF UnmapBar, ReleaseResource, LockInv, GenInv, CoreInv, CoreHolds, ActivePCs, StartPCs, TeardownPCs, ResetPCs, ProbePCs, UnwindPCs, ClientPCs, CorePCs
  <2> QED BY <2>1, <2>2, <2>3
<1>44. ASSUME ReleaseRegion PROVE LockInv' /\ GenInv' /\ CoreInv'
  <2>1. LockInv'
    BY <1>44 DEF ReleaseRegion, ReleaseResource, LockInv, GenInv, CoreInv, CoreHolds, ActivePCs, StartPCs, TeardownPCs, ResetPCs, ProbePCs, UnwindPCs, ClientPCs, CorePCs
  <2>2. GenInv'
    BY <1>44 DEF ReleaseRegion, ReleaseResource, LockInv, GenInv, CoreInv, CoreHolds, ActivePCs, StartPCs, TeardownPCs, ResetPCs, ProbePCs, UnwindPCs, ClientPCs, CorePCs
  <2>3. CoreInv'
    BY <1>44 DEF ReleaseRegion, ReleaseResource, LockInv, GenInv, CoreInv, CoreHolds, ActivePCs, StartPCs, TeardownPCs, ResetPCs, ProbePCs, UnwindPCs, ClientPCs, CorePCs
  <2> QED BY <2>1, <2>2, <2>3
<1>45. ASSUME DisableDevice PROVE LockInv' /\ GenInv' /\ CoreInv'
  <2>1. LockInv'
    BY <1>45 DEF DisableDevice, ReleaseResource, LockInv, GenInv, CoreInv, CoreHolds, ActivePCs, StartPCs, TeardownPCs, ResetPCs, ProbePCs, UnwindPCs, ClientPCs, CorePCs
  <2>2. GenInv'
    BY <1>45 DEF DisableDevice, ReleaseResource, LockInv, GenInv, CoreInv, CoreHolds, ActivePCs, StartPCs, TeardownPCs, ResetPCs, ProbePCs, UnwindPCs, ClientPCs, CorePCs
  <2>3. CoreInv'
    BY <1>45 DEF DisableDevice, ReleaseResource, LockInv, GenInv, CoreInv, CoreHolds, ActivePCs, StartPCs, TeardownPCs, ResetPCs, ProbePCs, UnwindPCs, ClientPCs, CorePCs
  <2> QED BY <2>1, <2>2, <2>3
<1>46. ASSUME RemoveUnlock PROVE LockInv' /\ GenInv' /\ CoreInv'
  <2>1. LockInv'
    BY <1>46 DEF RemoveUnlock, LockInv, GenInv, CoreInv, CoreHolds, ActivePCs, StartPCs, TeardownPCs, ResetPCs, ProbePCs, UnwindPCs, ClientPCs, CorePCs
  <2>2. GenInv'
    BY <1>46 DEF RemoveUnlock, LockInv, GenInv, CoreInv, CoreHolds, ActivePCs, StartPCs, TeardownPCs, ResetPCs, ProbePCs, UnwindPCs, ClientPCs, CorePCs
  <2>3. CoreInv'
    BY <1>46 DEF RemoveUnlock, LockInv, GenInv, CoreInv, CoreHolds, ActivePCs, StartPCs, TeardownPCs, ResetPCs, ProbePCs, UnwindPCs, ClientPCs, CorePCs
  <2> QED BY <2>1, <2>2, <2>3
<1>47. ASSUME PutDevice PROVE LockInv' /\ GenInv' /\ CoreInv'
  <2>1. LockInv'
    BY <1>47 DEF PutDevice, KrefPut, LockInv, GenInv, CoreInv, CoreHolds, ActivePCs, StartPCs, TeardownPCs, ResetPCs, ProbePCs, UnwindPCs, ClientPCs, CorePCs
  <2>2. GenInv'
    BY <1>47 DEF PutDevice, KrefPut, LockInv, GenInv, CoreInv, CoreHolds, ActivePCs, StartPCs, TeardownPCs, ResetPCs, ProbePCs, UnwindPCs, ClientPCs, CorePCs
  <2>3. CoreInv'
    BY <1>47 DEF PutDevice, KrefPut, LockInv, GenInv, CoreInv, CoreHolds, ActivePCs, StartPCs, TeardownPCs, ResetPCs, ProbePCs, UnwindPCs, ClientPCs, CorePCs
  <2> QED BY <2>1, <2>2, <2>3
<1>90. ASSUME Card PROVE LockInv' /\ GenInv' /\ CoreInv'
  BY <1>90 DEF Card, hostVars, LockInv, GenInv, CoreInv, CoreHolds
<1>91. ASSUME UNCHANGED vars PROVE LockInv' /\ GenInv' /\ CoreInv'
  BY <1>91 DEF vars, LockInv, GenInv, CoreInv, CoreHolds
<1> HIDE DEF TypeOK, LoopOK, HostTypeOK, At, Goto, Finish, busVars, devVars, argVars, loopVars, Actors
<1> QED
  BY <1>1, <1>2, <1>3, <1>4, <1>5, <1>6, <1>7, <1>8, <1>9, <1>10, <1>11, <1>12, <1>13, <1>14, <1>15, <1>16, <1>17, <1>18, <1>19, <1>20, <1>21, <1>22, <1>23, <1>24, <1>25, <1>26, <1>27, <1>28, <1>29, <1>30, <1>31, <1>32, <1>33, <1>34, <1>35, <1>36, <1>37, <1>38, <1>39, <1>40, <1>41, <1>42, <1>43, <1>44, <1>45, <1>46, <1>47,
     <1>90, <1>91 DEF Next, ClientCall, ClientStep, StartStep, TeardownStep, ResetStep,
     CoreCall, CoreStep, Actors

----------------------------------------------------------------------------
(* The pages of the bound generation and its started flag.                 *)

Owners == TypeOK /\ LoopOK /\ LockInv /\ GenInv /\ CoreInv

LEMMA UsageStep ==
  ASSUME Owners, Owners', PagesInv, StartedInv, [Next]_vars
  PROVE  PagesInv' /\ StartedInv'
<1> USE CardAssumption, ActorAssumption DEF Owners, TypeOK, HostTypeOK, At, Goto, Finish,
        busVars, devVars, argVars, loopVars, Actors, Gens
<1>1. ASSUME NEW c \in Clients, OpenCall(c) PROVE PagesInv' /\ StartedInv'
  <2>1. PagesInv'
    BY <1>1 DEF OpenCall, PagesInv, CoreInv, TeardownPCs
  <2>2. StartedInv'
    BY <1>1, ActiveClient DEF OpenCall, StartedInv, GenInv, CoreInv, ActivePCs, StartPCs, TeardownPCs, ResetPCs, ProbePCs, UnwindPCs
  <2> QED BY <2>1, <2>2
<1>2. ASSUME NEW c \in Clients, Open(c) PROVE PagesInv' /\ StartedInv'
  <2>1. PagesInv'
    BY <1>2 DEF Open, PagesInv, CoreInv, TeardownPCs
  <2>2. StartedInv'
    BY <1>2, ActiveClient DEF Open, StartedInv, GenInv, CoreInv, ActivePCs, StartPCs, TeardownPCs, ResetPCs, ProbePCs, UnwindPCs
  <2> QED BY <2>1, <2>2
<1>3. ASSUME NEW c \in Clients, Release(c) PROVE PagesInv' /\ StartedInv'
  <2>1. PagesInv'
    BY <1>3 DEF Release, KrefPut, PagesInv, CoreInv, TeardownPCs
  <2>2. StartedInv'
    BY <1>3, ActiveClient DEF Release, KrefPut, StartedInv, GenInv, CoreInv, ActivePCs, StartPCs, TeardownPCs, ResetPCs, ProbePCs, UnwindPCs
  <2> QED BY <2>1, <2>2
<1>4. ASSUME NEW c \in Clients, IoctlCall(c) PROVE PagesInv' /\ StartedInv'
  <2>1. PagesInv'
    BY <1>4 DEF IoctlCall, Commands, PagesInv, CoreInv, TeardownPCs
  <2>2. StartedInv'
    BY SMTT(40), <1>4, ActiveClient DEF IoctlCall, Commands, StartedInv, GenInv, CoreInv, ActivePCs, StartPCs, TeardownPCs, ResetPCs, ProbePCs, UnwindPCs
  <2> QED BY <2>1, <2>2
<1>5. ASSUME NEW c \in Clients, Lock(c) PROVE PagesInv' /\ StartedInv'
  <2>1. PagesInv'
    BY <1>5 DEF Lock, PagesInv, CoreInv, TeardownPCs
  <2>2. StartedInv'
    <3>1. /\ UNCHANGED <<bound, dv, op, started>> /\ pc'[Core] = pc[Core]
          /\ \A b \in Clients \ {c} : pc'[b] = pc[b]
          /\ pc'[c] \in {"switch", "unlock"}
      BY <1>5 DEF Lock
    <3> QED BY <3>1 DEF StartedInv, StartPCs, TeardownPCs, ResetPCs, ProbePCs, UnwindPCs
  <2> QED BY <2>1, <2>2
<1>6. ASSUME NEW c \in Clients, Query(c) PROVE PagesInv' /\ StartedInv'
  <2>1. PagesInv'
    BY <1>6 DEF Query, PagesInv, CoreInv, TeardownPCs
  <2>2. StartedInv'
    BY <1>6, ActiveClient DEF Query, StartedInv, GenInv, CoreInv, ActivePCs, StartPCs, TeardownPCs, ResetPCs, ProbePCs, UnwindPCs
  <2> QED BY <2>1, <2>2
<1>7. ASSUME NEW c \in Clients, NotCapable(c) PROVE PagesInv' /\ StartedInv'
  <2>1. PagesInv'
    BY <1>7 DEF NotCapable, PagesInv, CoreInv, TeardownPCs
  <2>2. StartedInv'
    BY <1>7, ActiveClient DEF NotCapable, StartedInv, GenInv, CoreInv, ActivePCs, StartPCs, TeardownPCs, ResetPCs, ProbePCs, UnwindPCs
  <2> QED BY <2>1, <2>2
<1>8. ASSUME NEW c \in Clients, Unlock(c) PROVE PagesInv' /\ StartedInv'
  <2>1. PagesInv'
    BY <1>8 DEF Unlock, PagesInv, CoreInv, TeardownPCs
  <2>2. StartedInv'
    BY SMTT(40), <1>8, ActiveClient DEF Unlock, StartedInv, GenInv, CoreInv, ActivePCs, StartPCs, TeardownPCs, ResetPCs, ProbePCs, UnwindPCs
  <2> QED BY <2>1, <2>2
<1>9. ASSUME NEW c \in Clients, StartEnter(c) PROVE PagesInv' /\ StartedInv'
  <2>1. PagesInv'
    BY <1>9 DEF StartEnter, PagesInv, CoreInv, TeardownPCs
  <2>2. StartedInv'
    BY SMTT(40), <1>9, ActiveClient DEF StartEnter, StartedInv, GenInv, CoreInv, ActivePCs, StartPCs, TeardownPCs, ResetPCs, ProbePCs, UnwindPCs
  <2> QED BY <2>1, <2>2
<1>10. ASSUME NEW c \in Clients, SetMaster(c) PROVE PagesInv' /\ StartedInv'
  <2>1. PagesInv'
    BY <1>10 DEF SetMaster, PagesInv, CoreInv, TeardownPCs
  <2>2. StartedInv'
    BY <1>10, ActiveClient DEF SetMaster, StartedInv, GenInv, CoreInv, ActivePCs, StartPCs, TeardownPCs, ResetPCs, ProbePCs, UnwindPCs
  <2> QED BY <2>1, <2>2
<1>11. ASSUME NEW c \in Clients, Quiesce(c) PROVE PagesInv' /\ StartedInv'
  <2>1. PagesInv'
    BY <1>11 DEF Quiesce, PagesInv, CoreInv, TeardownPCs
  <2>2. StartedInv'
    BY <1>11, ActiveClient DEF Quiesce, StartedInv, GenInv, CoreInv, ActivePCs, StartPCs, TeardownPCs, ResetPCs, ProbePCs, UnwindPCs
  <2> QED BY <2>1, <2>2
<1>12. ASSUME NEW c \in Clients, ResetGlobal(c) PROVE PagesInv' /\ StartedInv'
  <2>1. PagesInv'
    BY <1>12 DEF ResetGlobal, PagesInv, CoreInv, TeardownPCs
  <2>2. StartedInv'
    BY <1>12, ActiveClient DEF ResetGlobal, StartedInv, GenInv, CoreInv, ActivePCs, StartPCs, TeardownPCs, ResetPCs, ProbePCs, UnwindPCs
  <2> QED BY <2>1, <2>2
<1>13. ASSUME NEW c \in Clients, GlobalOnly(c) PROVE PagesInv' /\ StartedInv'
  <2>1. PagesInv'
    BY <1>13 DEF GlobalOnly, PagesInv, CoreInv, TeardownPCs
  <2>2. StartedInv'
    BY SMTT(40), <1>13, ActiveClient DEF GlobalOnly, StartedInv, GenInv, CoreInv, ActivePCs, StartPCs, TeardownPCs, ResetPCs, ProbePCs, UnwindPCs
  <2> QED BY <2>1, <2>2
<1>14. ASSUME NEW c \in Clients, RingIndex(c) PROVE PagesInv' /\ StartedInv'
  <2>1. PagesInv'
    BY <1>14 DEF RingIndex, PagesInv, CoreInv, TeardownPCs
  <2>2. StartedInv'
    BY <1>14, ActiveClient DEF RingIndex, StartedInv, GenInv, CoreInv, ActivePCs, StartPCs, TeardownPCs, ResetPCs, ProbePCs, UnwindPCs
  <2> QED BY <2>1, <2>2
<1>15. ASSUME NEW c \in Clients, RingDesc(c) PROVE PagesInv' /\ StartedInv'
  <2>1. PagesInv'
    BY <1>15 DEF RingDesc, PagesInv, CoreInv, TeardownPCs
  <2>2. StartedInv'
    BY <1>15, ActiveClient DEF RingDesc, StartedInv, GenInv, CoreInv, ActivePCs, StartPCs, TeardownPCs, ResetPCs, ProbePCs, UnwindPCs
  <2> QED BY <2>1, <2>2
<1>16. ASSUME NEW c \in Clients, RingDone(c) PROVE PagesInv' /\ StartedInv'
  <2>1. PagesInv'
    BY <1>16 DEF RingDone, RINGS, PagesInv, CoreInv, TeardownPCs
  <2>2. StartedInv'
    BY SMTT(40), <1>16, ActiveClient DEF RingDone, RINGS, StartedInv, GenInv, CoreInv, ActivePCs, StartPCs, TeardownPCs, ResetPCs, ProbePCs, UnwindPCs
  <2> QED BY <2>1, <2>2
<1>17. ASSUME NEW c \in Clients, Enable(c) PROVE PagesInv' /\ StartedInv'
  <2>1. PagesInv'
    BY <1>17 DEF Enable, PagesInv, CoreInv, TeardownPCs
  <2>2. StartedInv'
    <3>1. /\ UNCHANGED <<bound, dv, op, started>> /\ pc'[Core] = pc[Core]
          /\ \A b \in Clients \ {c} : pc'[b] = pc[b]
          /\ pc'[c] \in {"ringIndex", "verify"} /\ pc[c] = "enable"
      BY <1>17 DEF Enable
    <3> QED BY <3>1 DEF StartedInv, StartPCs, TeardownPCs, ResetPCs, ProbePCs, UnwindPCs
  <2> QED BY <2>1, <2>2
<1>18. ASSUME NEW c \in Clients, Verify(c) PROVE PagesInv' /\ StartedInv'
  <2>1. PagesInv'
    BY <1>18 DEF Verify, PagesInv, CoreInv, TeardownPCs
  <2>2. StartedInv'
    <3>1. /\ dv[c] = bound /\ bound \in Gens
          /\ pc[Core] \in {"idle", "rDeregister", "rLock"}
          /\ \A b \in Clients \ {c} : pc[b] \notin ActivePCs
      BY <1>18, ActiveClient DEF Verify, ActivePCs, StartPCs
    <3>2. /\ \A g \in Gens \ {bound} : started'[g] = started[g]
          /\ UNCHANGED <<bound, dv, op>> /\ pc'[Core] = pc[Core]
          /\ \A b \in Clients \ {c} : pc'[b] = pc[b]
          /\ pc'[c] \in {"unlock", "tdInt"}
      BY <1>18, <3>1 DEF Verify
    <3>3. pc'[c] = "tdInt" => ~ started'[bound]
      BY <1>18, <3>1 DEF Verify, StartedInv, StartPCs
    <3>4. \A g \in Gens : started'[g] => g = bound
      BY <3>2 DEF StartedInv
    <3>5. pc'[Core] \notin ProbePCs \cup UnwindPCs \cup {"rUnlock", "tdCheck"}
      BY <3>1, <3>2 DEF ProbePCs, UnwindPCs
    <3>6. \A b \in Clients \ {c} : pc'[b] \notin StartPCs \cup TeardownPCs \cup ResetPCs
      BY <3>1, <3>2 DEF ActivePCs
    <3>7. pc'[c] \notin StartPCs \cup ResetPCs /\ pc'[c] # "tdCheck"
      BY <3>2 DEF StartPCs, ResetPCs
    <3>8. pc'[c] \in TeardownPCs => ~ started'[dv'[c]]
      BY <3>1, <3>2, <3>3 DEF TeardownPCs
    <3>9. "tdCheck" \in TeardownPCs
      BY DEF TeardownPCs
    <3>10. ASSUME NEW b \in Clients
           PROVE  /\ pc'[b] \in StartPCs => ~ started'[dv'[b]]
                  /\ pc'[b] \in ResetPCs => started'[dv'[b]]
                  /\ pc'[b] = "tdCheck" => ~ started'[dv'[b]]
                  /\ pc'[b] \in TeardownPCs /\ op'[b] = "start" => ~ started'[dv'[b]]
      <4>1. CASE b = c  BY <4>1, <3>7, <3>8
      <4>2. CASE b # c  BY <4>2, <3>6, <3>9
      <4> QED BY <4>1, <4>2
    <3> QED BY <3>2, <3>4, <3>5, <3>10 DEF StartedInv
  <2> QED BY <2>1, <2>2
<1>19. ASSUME NEW c \in Clients, StopEnter(c) PROVE PagesInv' /\ StartedInv'
  <2>1. PagesInv'
    BY <1>19 DEF StopEnter, PagesInv, CoreInv, TeardownPCs
  <2>2. StartedInv'
    <3>1. /\ UNCHANGED <<started, bound, dv, op>> /\ pc'[Core] = pc[Core]
          /\ \A b \in Clients \ {c} : pc'[b] = pc[b]
          /\ op[c] = "stop" /\ pc'[c] \in {"tdInt", "unlock"}
      BY <1>19 DEF StopEnter
    <3>2. pc'[c] \notin StartPCs \cup ResetPCs \cup {"tdCheck"}
      BY <3>1 DEF StartPCs, ResetPCs
    <3>3. ASSUME NEW b \in Clients
          PROVE  /\ pc'[b] \in StartPCs => ~ started'[dv'[b]]
                 /\ pc'[b] \in ResetPCs => started'[dv'[b]]
                 /\ pc'[b] = "tdCheck" => ~ started'[dv'[b]]
                 /\ pc'[b] \in TeardownPCs /\ op'[b] = "start" => ~ started'[dv'[b]]
      <4>1. CASE b = c  BY <4>1, <3>1, <3>2
      <4>2. CASE b # c  BY <4>2, <3>1 DEF StartedInv
      <4> QED BY <4>1, <4>2
    <3> QED BY <3>1, <3>3 DEF StartedInv
  <2> QED BY <2>1, <2>2
<1>20. ASSUME NEW c \in Clients, ResetEnter(c) PROVE PagesInv' /\ StartedInv'
  <2>1. PagesInv'
    BY <1>20 DEF ResetEnter, PagesInv, CoreInv, TeardownPCs
  <2>2. StartedInv'
    <3>1. /\ UNCHANGED <<bound, dv, op, started>> /\ pc'[Core] = pc[Core]
          /\ \A b \in Clients \ {c} : pc'[b] = pc[b]
          /\ pc'[c] = "unlock" \/ (pc'[c] = "pulse" /\ started[dv[c]])
      BY <1>20 DEF ResetEnter
    <3> QED BY <3>1 DEF StartedInv, StartPCs, TeardownPCs, ResetPCs, ProbePCs, UnwindPCs
  <2> QED BY <2>1, <2>2
<1>21. ASSUME NEW c \in Clients, Pulse(c) PROVE PagesInv' /\ StartedInv'
  <2>1. PagesInv'
    BY <1>21 DEF Pulse, PagesInv, CoreInv, TeardownPCs
  <2>2. StartedInv'
    BY <1>21, ActiveClient DEF Pulse, StartedInv, GenInv, CoreInv, ActivePCs, StartPCs, TeardownPCs, ResetPCs, ProbePCs, UnwindPCs
  <2> QED BY <2>1, <2>2
<1>22. ASSUME NEW c \in Clients, Unpulse(c) PROVE PagesInv' /\ StartedInv'
  <2>1. PagesInv'
    BY <1>22 DEF Unpulse, PagesInv, CoreInv, TeardownPCs
  <2>2. StartedInv'
    BY <1>22, ActiveClient DEF Unpulse, StartedInv, GenInv, CoreInv, ActivePCs, StartPCs, TeardownPCs, ResetPCs, ProbePCs, UnwindPCs
  <2> QED BY <2>1, <2>2
<1>23. ASSUME NEW c \in Clients, Reenable(c) PROVE PagesInv' /\ StartedInv'
  <2>1. PagesInv'
    BY <1>23 DEF Reenable, PagesInv, CoreInv, TeardownPCs
  <2>2. StartedInv'
    BY <1>23, ActiveClient DEF Reenable, StartedInv, GenInv, CoreInv, ActivePCs, StartPCs, TeardownPCs, ResetPCs, ProbePCs, UnwindPCs
  <2> QED BY <2>1, <2>2
<1>24. ASSUME NEW c \in Clients, ResetCheck(c) PROVE PagesInv' /\ StartedInv'
  <2>1. PagesInv'
    BY <1>24 DEF ResetCheck, PagesInv, CoreInv, TeardownPCs
  <2>2. StartedInv'
    BY <1>24, ActiveClient DEF ResetCheck, StartedInv, GenInv, CoreInv, ActivePCs, StartPCs, TeardownPCs, ResetPCs, ProbePCs, UnwindPCs
  <2> QED BY <2>1, <2>2
<1>25. ASSUME NEW a \in Actors, TdInt(a) PROVE PagesInv' /\ StartedInv'
  <2>1. PagesInv'
    BY <1>25 DEF TdInt, PagesInv, CoreInv, TeardownPCs, ProbePCs, UnwindPCs
  <2>2. StartedInv'
    BY <1>25, ActiveClient DEF TdInt, StartedInv, GenInv, CoreInv, ActivePCs, StartPCs, TeardownPCs, ResetPCs, ProbePCs, UnwindPCs
  <2> QED BY <2>1, <2>2
<1>26. ASSUME NEW a \in Actors, TdReset(a) PROVE PagesInv' /\ StartedInv'
  <2>1. PagesInv'
    BY <1>26 DEF TdReset, PagesInv, CoreInv, TeardownPCs, ProbePCs, UnwindPCs
  <2>2. StartedInv'
    BY <1>26, ActiveClient DEF TdReset, StartedInv, GenInv, CoreInv, ActivePCs, StartPCs, TeardownPCs, ResetPCs, ProbePCs, UnwindPCs
  <2> QED BY <2>1, <2>2
<1>27. ASSUME NEW a \in Actors, TdGlobal(a) PROVE PagesInv' /\ StartedInv'
  <2>1. PagesInv'
    BY <1>27 DEF TdGlobal, PagesInv, CoreInv, TeardownPCs, ProbePCs, UnwindPCs
  <2>2. StartedInv'
    BY SMTT(40), <1>27, ActiveClient DEF TdGlobal, StartedInv, GenInv, CoreInv, ActivePCs, StartPCs, TeardownPCs, ResetPCs, ProbePCs, UnwindPCs
  <2> QED BY <2>1, <2>2
<1>28. ASSUME NEW a \in Actors, TdClear(a) PROVE PagesInv' /\ StartedInv'
  <2>1. PagesInv'
    BY <1>28 DEF TdClear, PagesInv, CoreInv, TeardownPCs, ProbePCs, UnwindPCs
  <2>2. StartedInv'
    BY <1>28, ActiveClient DEF TdClear, StartedInv, GenInv, CoreInv, ActivePCs, StartPCs, TeardownPCs, ResetPCs, ProbePCs, UnwindPCs
  <2> QED BY <2>1, <2>2
<1>29. ASSUME NEW a \in Actors, TdCold(a) PROVE PagesInv' /\ StartedInv'
  <2>1. PagesInv'
    BY <1>29 DEF TdCold, PagesInv, CoreInv, TeardownPCs, ProbePCs, UnwindPCs
  <2>2. StartedInv'
    BY <1>29, ActiveClient DEF TdCold, StartedInv, GenInv, CoreInv, ActivePCs, StartPCs, TeardownPCs, ResetPCs, ProbePCs, UnwindPCs
  <2> QED BY <2>1, <2>2
<1>30. ASSUME NEW a \in Actors, TdMaster(a) PROVE PagesInv' /\ StartedInv'
  <2>1. PagesInv'
    BY <1>30 DEF TdMaster, PagesInv, CoreInv, TeardownPCs, ProbePCs, UnwindPCs
  <2>2. StartedInv'
    <3>1. a \in Clients => /\ dv[a] = bound /\ bound \in Gens
                             /\ pc[Core] \in {"idle", "rDeregister", "rLock"}
      BY <1>30, ActiveClient DEF TdMaster, ActivePCs, TeardownPCs
    <3>2. a = Core => dv[a] = bound /\ bound \in Gens /\ op[Core] = "remove"
      BY <1>30 DEF TdMaster, LoopOK, CoreInv, TeardownPCs
    <3>3. \A b \in Clients \ {a} : pc[b] \notin ActivePCs
      BY <1>30, <3>1, <3>2, ActiveClient DEF TdMaster, ActivePCs, TeardownPCs
    <3>4. /\ UNCHANGED <<bound, dv, op>>
          /\ \A b \in Actors \ {a} : pc'[b] = pc[b]
          /\ \A g \in Gens \ {bound} : started'[g] = started[g]
          /\ \/ pc'[a] = "unlock" /\ started' = started /\ a # Core
             \/ pc'[a] = "tdCheck" /\ ~ started'[bound]
      BY <1>30, <3>1, <3>2 DEF TdMaster
    <3>5. \A g \in Gens : started'[g] => g = bound
      BY <3>4 DEF StartedInv
    <3>6. pc'[Core] \in ProbePCs \cup UnwindPCs \cup {"rUnlock", "tdCheck"}
            => ~ started'[dv'[Core]]
      <4>1. CASE a = Core
        <5>1. dv'[Core] = bound /\ ~ started'[bound]
          BY <4>1, <3>2, <3>4
        <5> QED BY <5>1
      <4>2. CASE a # Core
        BY <4>2, <3>1, <3>4 DEF ProbePCs, UnwindPCs
      <4> QED BY <4>1, <4>2
    <3>7. ASSUME NEW b \in Clients
          PROVE  /\ pc'[b] \in StartPCs => ~ started'[dv'[b]]
                 /\ pc'[b] \in ResetPCs => started'[dv'[b]]
                 /\ pc'[b] = "tdCheck" => ~ started'[dv'[b]]
                 /\ pc'[b] \in TeardownPCs /\ op'[b] = "start" => ~ started'[dv'[b]]
      <4>1. CASE b = a
        <5>1. dv'[b] = bound
          BY <4>1, <3>1, <3>4
        <5>2. pc'[b] = "unlock" \/ (pc'[b] = "tdCheck" /\ ~ started'[bound])
          BY <4>1, <3>4
        <5> QED BY <5>1, <5>2 DEF StartPCs, ResetPCs, TeardownPCs
      <4>2. CASE b # a
        BY <4>2, <3>3, <3>4 DEF ActivePCs, TeardownPCs
      <4> QED BY <4>1, <4>2
    <3> QED BY <3>4, <3>5, <3>6, <3>7 DEF StartedInv
  <2> QED BY <2>1, <2>2
<1>31. ASSUME NEW a \in Actors, TdCheck(a) PROVE PagesInv' /\ StartedInv'
  <2>1. PagesInv'
    BY <1>31 DEF TdCheck, PagesInv, CoreInv, TeardownPCs, ProbePCs, UnwindPCs
  <2>2. StartedInv'
    <3>1. CASE a \in Clients
      BY SMTT(40), <1>31, <3>1, ActiveClient DEF TdCheck, LoopOK, StartedInv, GenInv, CoreInv, ActivePCs,
         StartPCs, TeardownPCs, ResetPCs, ProbePCs, UnwindPCs
    <3>2. CASE a = Core
      <4>1. op[Core] = "remove" /\ dv[Core] = bound /\ bound \in Gens
        BY <1>31, <3>2 DEF TdCheck, LoopOK, CoreInv, TeardownPCs
      <4>2. \A c \in Clients : pc[c] \notin ActivePCs
        BY <1>31, <3>2, ActiveClient DEF TdCheck
      <4> QED BY <1>31, <3>2, <4>1, <4>2 DEF TdCheck, StartedInv, ActivePCs,
         StartPCs, TeardownPCs, ResetPCs, ProbePCs, UnwindPCs
    <3> QED BY <3>1, <3>2
  <2> QED BY <2>1, <2>2
<1>32. ASSUME ProbeCall PROVE PagesInv' /\ StartedInv'
  <2>1. PagesInv'
    BY <1>32 DEF ProbeCall, PagesInv, CoreInv, TeardownPCs, ProbePCs, UnwindPCs
  <2>2. StartedInv'
    BY <1>32, ActiveClient DEF ProbeCall, StartedInv, GenInv, CoreInv, ActivePCs, StartPCs, TeardownPCs, ResetPCs, ProbePCs, UnwindPCs
  <2> QED BY <2>1, <2>2
<1>33. ASSUME ProbeEnable PROVE PagesInv' /\ StartedInv'
  <2>1. PagesInv'
    BY <1>33 DEF ProbeEnable, Acquire, Resources, PagesInv, CoreInv, TeardownPCs, ProbePCs, UnwindPCs
  <2>2. StartedInv'
    BY <1>33, ActiveClient DEF ProbeEnable, Acquire, Resources, StartedInv, GenInv, CoreInv, ActivePCs, StartPCs, TeardownPCs, ResetPCs, ProbePCs, UnwindPCs
  <2> QED BY <2>1, <2>2
<1>34. ASSUME ProbeRegion PROVE PagesInv' /\ StartedInv'
  <2>1. PagesInv'
    BY <1>34 DEF ProbeRegion, Acquire, Resources, PagesInv, CoreInv, TeardownPCs, ProbePCs, UnwindPCs
  <2>2. StartedInv'
    BY <1>34, ActiveClient DEF ProbeRegion, Acquire, Resources, StartedInv, GenInv, CoreInv, ActivePCs, StartPCs, TeardownPCs, ResetPCs, ProbePCs, UnwindPCs
  <2> QED BY <2>1, <2>2
<1>35. ASSUME ProbeMap PROVE PagesInv' /\ StartedInv'
  <2>1. PagesInv'
    BY <1>35 DEF ProbeMap, Acquire, Resources, PagesInv, CoreInv, TeardownPCs, ProbePCs, UnwindPCs
  <2>2. StartedInv'
    BY <1>35, ActiveClient DEF ProbeMap, Acquire, Resources, StartedInv, GenInv, CoreInv, ActivePCs, StartPCs, TeardownPCs, ResetPCs, ProbePCs, UnwindPCs
  <2> QED BY <2>1, <2>2
<1>36. ASSUME ProbeCold PROVE PagesInv' /\ StartedInv'
  <2>1. PagesInv'
    BY <1>36 DEF ProbeCold, PagesInv, CoreInv, TeardownPCs, ProbePCs, UnwindPCs
  <2>2. StartedInv'
    BY <1>36, ActiveClient DEF ProbeCold, StartedInv, GenInv, CoreInv, ActivePCs, StartPCs, TeardownPCs, ResetPCs, ProbePCs, UnwindPCs
  <2> QED BY <2>1, <2>2
<1>37. ASSUME ProbeAlloc PROVE PagesInv' /\ StartedInv'
  <2>1. PagesInv'
    <3>1. pc'[Core] = "pRegister" => pages'[bound] = PageSlots
      <4>1. bound \in Gens /\ dv[Core] = bound
        BY <1>37 DEF ProbeAlloc, CoreInv, ProbePCs
      <4>2. SUFFICES ASSUME pc'[Core] = "pRegister" PROVE pages'[bound] = PageSlots
        OBVIOUS
      <4>3. PICK p \in PageSlots \ pages[bound] :
              /\ PageSlots \ pages[bound] = {p}
              /\ pages' = [pages EXCEPT ![bound] = @ \cup {p}]
        BY <1>37, <4>1, <4>2 DEF ProbeAlloc
      <4> QED BY <4>1, <4>3
    <3> QED
      BY <1>37, <3>1 DEF ProbeAlloc, PagesInv, CoreInv, TeardownPCs, ProbePCs, UnwindPCs
  <2>2. StartedInv'
    BY <1>37, ActiveClient DEF ProbeAlloc, StartedInv, GenInv, CoreInv, ActivePCs, StartPCs, TeardownPCs, ResetPCs, ProbePCs, UnwindPCs
  <2> QED BY <2>1, <2>2
<1>38. ASSUME ProbeRegister PROVE PagesInv' /\ StartedInv'
  <2>1. PagesInv'
    BY <1>38 DEF ProbeRegister, PagesInv, CoreInv, TeardownPCs, ProbePCs, UnwindPCs
  <2>2. StartedInv'
    BY <1>38, ActiveClient DEF ProbeRegister, StartedInv, GenInv, CoreInv, ActivePCs, StartPCs, TeardownPCs, ResetPCs, ProbePCs, UnwindPCs
  <2> QED BY <2>1, <2>2
<1>39. ASSUME RemoveCall PROVE PagesInv' /\ StartedInv'
  <2>1. PagesInv'
    BY <1>39 DEF RemoveCall, PagesInv, CoreInv, TeardownPCs, ProbePCs, UnwindPCs
  <2>2. StartedInv'
    BY <1>39, ActiveClient DEF RemoveCall, StartedInv, GenInv, CoreInv, ActivePCs, StartPCs, TeardownPCs, ResetPCs, ProbePCs, UnwindPCs
  <2> QED BY <2>1, <2>2
<1>40. ASSUME RemoveDeregister PROVE PagesInv' /\ StartedInv'
  <2>1. PagesInv'
    BY <1>40 DEF RemoveDeregister, PagesInv, CoreInv, TeardownPCs, ProbePCs, UnwindPCs
  <2>2. StartedInv'
    BY <1>40, ActiveClient DEF RemoveDeregister, StartedInv, GenInv, CoreInv, ActivePCs, StartPCs, TeardownPCs, ResetPCs, ProbePCs, UnwindPCs
  <2> QED BY <2>1, <2>2
<1>41. ASSUME RemoveLock PROVE PagesInv' /\ StartedInv'
  <2>1. PagesInv'
    BY <1>41 DEF RemoveLock, PagesInv, CoreInv, TeardownPCs, ProbePCs, UnwindPCs
  <2>2. StartedInv'
    BY <1>41, ActiveClient DEF RemoveLock, StartedInv, GenInv, CoreInv, ActivePCs, StartPCs, TeardownPCs, ResetPCs, ProbePCs, UnwindPCs
  <2> QED BY <2>1, <2>2
<1>42. ASSUME FreePages PROVE PagesInv' /\ StartedInv'
  <2>1. PagesInv'
    BY <1>42 DEF FreePages, PagesInv, CoreInv, TeardownPCs, ProbePCs, UnwindPCs
  <2>2. StartedInv'
    <3>1. /\ UNCHANGED <<started, bound, dv, op>>
          /\ \A b \in Clients : pc'[b] = pc[b]
          /\ pc[Core] = "uFree" /\ pc'[Core] \in {"uFree", "uUnmap"}
      BY <1>42 DEF FreePages
    <3>2. pc[Core] \in UnwindPCs
      BY <3>1 DEF UnwindPCs
    <3> QED BY <3>1, <3>2 DEF StartedInv
  <2> QED BY <2>1, <2>2
<1>43. ASSUME UnmapBar PROVE PagesInv' /\ StartedInv'
  <2>1. PagesInv'
    BY <1>43 DEF UnmapBar, ReleaseResource, PagesInv, CoreInv, TeardownPCs, ProbePCs, UnwindPCs
  <2>2. StartedInv'
    BY <1>43, ActiveClient DEF UnmapBar, ReleaseResource, StartedInv, GenInv, CoreInv, ActivePCs, StartPCs, TeardownPCs, ResetPCs, ProbePCs, UnwindPCs
  <2> QED BY <2>1, <2>2
<1>44. ASSUME ReleaseRegion PROVE PagesInv' /\ StartedInv'
  <2>1. PagesInv'
    BY <1>44 DEF ReleaseRegion, ReleaseResource, PagesInv, CoreInv, TeardownPCs, ProbePCs, UnwindPCs
  <2>2. StartedInv'
    BY <1>44, ActiveClient DEF ReleaseRegion, ReleaseResource, StartedInv, GenInv, CoreInv, ActivePCs, StartPCs, TeardownPCs, ResetPCs, ProbePCs, UnwindPCs
  <2> QED BY <2>1, <2>2
<1>45. ASSUME DisableDevice PROVE PagesInv' /\ StartedInv'
  <2>1. PagesInv'
    BY <1>45 DEF DisableDevice, ReleaseResource, PagesInv, CoreInv, TeardownPCs, ProbePCs, UnwindPCs
  <2>2. StartedInv'
    BY <1>45, ActiveClient DEF DisableDevice, ReleaseResource, StartedInv, GenInv, CoreInv, ActivePCs, StartPCs, TeardownPCs, ResetPCs, ProbePCs, UnwindPCs
  <2> QED BY <2>1, <2>2
<1>46. ASSUME RemoveUnlock PROVE PagesInv' /\ StartedInv'
  <2>1. PagesInv'
    BY <1>46 DEF RemoveUnlock, PagesInv, CoreInv, TeardownPCs, ProbePCs, UnwindPCs
  <2>2. StartedInv'
    BY SMTT(40), <1>46, ActiveClient DEF RemoveUnlock, StartedInv, GenInv, CoreInv, ActivePCs, StartPCs, TeardownPCs, ResetPCs, ProbePCs, UnwindPCs
  <2> QED BY <2>1, <2>2
<1>47. ASSUME PutDevice PROVE PagesInv' /\ StartedInv'
  <2>1. PagesInv'
    BY <1>47 DEF PutDevice, KrefPut, PagesInv, CoreInv, TeardownPCs, ProbePCs, UnwindPCs
  <2>2. StartedInv'
    BY <1>47, ActiveClient DEF PutDevice, KrefPut, StartedInv, GenInv, CoreInv, ActivePCs, StartPCs, TeardownPCs, ResetPCs, ProbePCs, UnwindPCs
  <2> QED BY <2>1, <2>2
<1>90. ASSUME Card PROVE PagesInv' /\ StartedInv'
  BY <1>90 DEF Card, hostVars, PagesInv, StartedInv
<1>91. ASSUME UNCHANGED vars PROVE PagesInv' /\ StartedInv'
  BY <1>91 DEF vars, PagesInv, StartedInv
<1> HIDE DEF Owners, TypeOK, LoopOK, HostTypeOK, At, Goto, Finish, busVars, devVars, argVars, loopVars, Actors
<1> QED
  BY <1>1, <1>2, <1>3, <1>4, <1>5, <1>6, <1>7, <1>8, <1>9, <1>10, <1>11, <1>12, <1>13, <1>14, <1>15, <1>16, <1>17, <1>18, <1>19, <1>20, <1>21, <1>22, <1>23, <1>24, <1>25, <1>26, <1>27, <1>28, <1>29, <1>30, <1>31, <1>32, <1>33, <1>34, <1>35, <1>36, <1>37, <1>38, <1>39, <1>40, <1>41, <1>42, <1>43, <1>44, <1>45, <1>46, <1>47,
     <1>90, <1>91 DEF Next, ClientCall, ClientStep, StartStep, TeardownStep, ResetStep,
     CoreCall, CoreStep, Actors

----------------------------------------------------------------------------
(* The card.                                                               *)

\* While Core releases resources or probes, no client is in a register sequence.
LEMMA ActiveCore ==
  ASSUME Owners, pc[Core] \notin {"idle", "rDeregister", "rLock"}
  PROVE  \A c \in Clients : pc[c] \notin ActivePCs
BY ActiveClient DEF Owners

Usage == PagesInv /\ StartedInv

LEMMA ProgressPoints ==
  /\ ProgressPCs \subseteq ActivePCs /\ DirtyPCs \subseteq ActivePCs
  /\ {"tdClear", "tdCold", "tdMaster"} \subseteq ProgressPCs
BY DEF ProgressPCs, DirtyPCs, ActivePCs, InitLoop, StartPCs, TeardownPCs

\* An actor in a register sequence, or Core while it probes or releases, is the
\* only actor in one, and works on the bound generation.
LEMMA Alone ==
  ASSUME Owners, NEW a \in Actors,
         pc[a] \in (IF a = Core THEN CorePCs \ {"idle", "rDeregister", "rLock"}
                                ELSE ActivePCs)
  PROVE  /\ \A b \in Actors \ {a} : pc[b] \notin ActivePCs
         /\ bound # 0 => dv[a] = bound /\ bound \in Gens
         /\ pc[a] # "uPut" => bound # 0
<1>1. CASE a = Core
  BY <1>1, ActiveCore DEF Owners, CoreInv, TypeOK, HostTypeOK, Gens, Actors
<1>2. CASE a # Core
  <2>1. a \in Clients /\ pc[a] \in ActivePCs
    BY <1>2 DEF Actors
  <2>2. pc[Core] \notin ActivePCs
    BY <2>1, ActiveClient DEF Owners, ActivePCs, StartPCs, TeardownPCs, ResetPCs
  <2> QED BY <2>1, <2>2, ActiveClient DEF Owners, Actors, Gens
<1> QED BY <1>1, <1>2

\* A step that leaves the card's descriptors and enable bits, the pages and the
\* started flags alone, and does not advance a register sequence.
LEMMA QuietStep ==
  ASSUME CardInv, ProgressInv, NEW a \in Actors,
         UNCHANGED <<desc, dmaCtl, linked, bound, pages, started>>,
         \A b \in Actors \ {a} :
           /\ pc'[b] = pc[b] /\ dsp'[b] = dsp[b] /\ ring'[b] = ring[b]
           /\ toWrite'[b] = toWrite[b] /\ toClear'[b] = toClear[b],
         pc'[a] \notin ProgressPCs,
         pc[a] \in DirtyPCs => pc'[a] \in DirtyPCs,
         pc[a] \notin {"tdClear", "tdCold", "tdMaster"}
  PROVE  CardInv' /\ ProgressInv'
<1>1. CardInv'
  BY DEF CardInv, Cleared
<1>2. ASSUME linked, NEW b \in Actors PROVE Progress(b)'
  <2>1. CASE b = a
    BY <2>1 DEF Progress, ProgressPCs, InitLoop
  <2>2. CASE b # a
    BY <1>2, <2>2 DEF Progress, ProgressInv, Cleared
  <2> QED BY <2>1, <2>2
<1> QED BY <1>1, <1>2 DEF ProgressInv

\* A step of the only actor in a register sequence.
LEMMA SoleStep ==
  ASSUME NEW a \in Actors,
         \A b \in Actors \ {a} : pc'[b] \notin ActivePCs,
         linked' => Progress(a)'
  PROVE  ProgressInv'
<1>1. ASSUME NEW b \in Actors \ {a} PROVE Progress(b)'
  BY ProgressPoints DEF Progress, ProgressPCs, InitLoop
<1> QED BY <1>1 DEF ProgressInv

\* A control point that says nothing about progress.
LEMMA NoProgress ==
  ASSUME NEW a \in Actors, pc'[a] \notin ProgressPCs PROVE Progress(a)'
BY DEF Progress, ProgressPCs, InitLoop

\* A step that leaves a cleared card of a device that is not started.
LEMMA ClearedStep ==
  ASSUME linked' => Cleared' /\ \A s \in DescSlots : s[1] \notin dmaCtl'.enable,
         bound' # 0 => ~ started'[bound']
  PROVE  CardInv'
BY DEF CardInv, Cleared

\* A device that is not started, with nobody in a dirty part of a sequence, has
\* a cleared card.
LEMMA QuietCard ==
  ASSUME CardInv, linked, \A b \in Actors : pc[b] \notin DirtyPCs,
         bound # 0 => ~ started[bound]
  PROVE  Cleared /\ \A s \in DescSlots : s[1] \notin dmaCtl.enable
BY DEF CardInv, Cleared

\* A step inside the dirty part of a sequence that writes no descriptor.
LEMMA DirtyStep ==
  ASSUME CardInv, NEW a \in Actors,
         UNCHANGED <<desc, linked, bound, pages, started>>,
         \A b \in Actors \ {a} : pc'[b] = pc[b],
         pc'[a] \in DirtyPCs,
         pc[a] \notin {"tdClear", "tdCold", "tdMaster"},
         linked => \A s \in DescSlots : s[1] \in dmaCtl'.enable => desc[s] # 0
  PROVE  CardInv'
BY DEF CardInv, Cleared

LEMMA CardInvStep ==
  ASSUME Owners, Owners', Usage, Usage', CardInv, ProgressInv, [Next]_vars
  PROVE  CardInv' /\ ProgressInv'
<1> USE CardAssumption, ActorAssumption DEF Owners, Usage, At, Goto, Finish,
        busVars, devVars, argVars, loopVars, cardVars, Actors
<1>a. ASSUME NEW a \in Actors, pc[a] \in ActivePCs
      PROVE  /\ \A b \in Actors \ {a} : pc[b] \notin ActivePCs
             /\ dv[a] = bound /\ bound \in Gens /\ bound # 0
  BY <1>a, Alone DEF LoopOK, CorePCs, ActivePCs, StartPCs, TeardownPCs, ResetPCs, Gens
<1>1. ASSUME NEW c \in Clients, OpenCall(c) PROVE CardInv' /\ ProgressInv'
  BY <1>1, QuietStep DEF OpenCall, ProgressPCs, DirtyPCs, InitLoop, TypeOK, HostTypeOK
<1>2. ASSUME NEW c \in Clients, Open(c) PROVE CardInv' /\ ProgressInv'
  BY <1>2, QuietStep DEF Open, ProgressPCs, DirtyPCs, InitLoop, TypeOK, HostTypeOK
<1>3. ASSUME NEW c \in Clients, Release(c) PROVE CardInv' /\ ProgressInv'
  BY <1>3, QuietStep DEF Release, KrefPut, ProgressPCs, DirtyPCs, InitLoop, TypeOK, HostTypeOK
<1>4. ASSUME NEW c \in Clients, IoctlCall(c) PROVE CardInv' /\ ProgressInv'
  BY <1>4, QuietStep DEF IoctlCall, ProgressPCs, DirtyPCs, InitLoop, TypeOK, HostTypeOK
<1>5. ASSUME NEW c \in Clients, Lock(c) PROVE CardInv' /\ ProgressInv'
  BY <1>5, QuietStep DEF Lock, ProgressPCs, DirtyPCs, InitLoop, TypeOK, HostTypeOK
<1>6. ASSUME NEW c \in Clients, Query(c) PROVE CardInv' /\ ProgressInv'
  BY <1>6, QuietStep DEF Query, ProgressPCs, DirtyPCs, InitLoop, TypeOK, HostTypeOK
<1>7. ASSUME NEW c \in Clients, NotCapable(c) PROVE CardInv' /\ ProgressInv'
  BY <1>7, QuietStep DEF NotCapable, ProgressPCs, DirtyPCs, InitLoop, TypeOK, HostTypeOK
<1>8. ASSUME NEW c \in Clients, Unlock(c) PROVE CardInv' /\ ProgressInv'
  BY <1>8, QuietStep DEF Unlock, ProgressPCs, DirtyPCs, InitLoop, TypeOK, HostTypeOK
<1>9. ASSUME NEW c \in Clients, StartEnter(c) PROVE CardInv' /\ ProgressInv'
  BY <1>9, QuietStep DEF StartEnter, ProgressPCs, DirtyPCs, InitLoop, TypeOK, HostTypeOK
<1>10. ASSUME NEW c \in Clients, SetMaster(c) PROVE CardInv' /\ ProgressInv'
  BY <1>10, QuietStep DEF SetMaster, ProgressPCs, DirtyPCs, InitLoop, TypeOK, HostTypeOK
<1>11. ASSUME NEW c \in Clients, Quiesce(c) PROVE CardInv' /\ ProgressInv'
  BY <1>11, QuietStep DEF Quiesce, DisableInterrupts, ProgressPCs, DirtyPCs, InitLoop, TypeOK, HostTypeOK
<1>12. ASSUME NEW c \in Clients, ResetGlobal(c) PROVE CardInv' /\ ProgressInv'
  <2>1. /\ \A b \in Actors \ {c} : pc[b] \notin ActivePCs /\ pc'[b] = pc[b]
        /\ dv[c] = bound /\ bound \in Gens /\ bound # 0 /\ c \in Actors
        /\ pc[c] = "resetGlobal" /\ pc'[c] = "globalOnly"
    BY <1>12, <1>a DEF ResetGlobal, ActivePCs, StartPCs, TeardownPCs, ResetPCs, TypeOK, HostTypeOK
  <2>2. ~ started[bound]
    BY <2>1 DEF StartedInv, StartPCs
  <2>3. linked => Cleared
    BY <2>1, <2>2, QuietCard, ProgressPoints DEF DirtyPCs, InitLoop
  <2>8. CardInv'
    BY <1>12, <2>2, <2>3, ClearedStep DEF ResetGlobal, WriteDma, RESET_GLOBAL, Cleared
  <2>9. ProgressInv'
    BY <2>1, SoleStep, NoProgress DEF ProgressPCs, InitLoop
  <2> QED BY <2>8, <2>9
<1>13. ASSUME NEW c \in Clients, GlobalOnly(c) PROVE CardInv' /\ ProgressInv'
  <2>1. /\ \A b \in Actors \ {c} : pc[b] \notin ActivePCs /\ pc'[b] = pc[b]
        /\ dv[c] = bound /\ bound \in Gens /\ bound # 0 /\ c \in Actors
        /\ pc[c] = "globalOnly" /\ pc'[c] = "ringIndex"
    BY <1>13, <1>a DEF GlobalOnly, ActivePCs, StartPCs, TeardownPCs, ResetPCs, TypeOK, HostTypeOK
  <2>2. ~ started[bound]
    BY <2>1 DEF StartedInv, StartPCs
  <2>3. linked => Cleared
    BY <2>1, <2>2, QuietCard, ProgressPoints DEF DirtyPCs, InitLoop
  <2>8. CardInv'
    BY <1>13, <2>2, <2>3, ClearedStep DEF GlobalOnly, WriteDma, GLOBAL_ONLY, Cleared
  <2>4. toWrite'[c] = DescSlots /\ ring'[c] = 0 /\ dsp'[c] = 0
    BY <1>13 DEF GlobalOnly, TypeOK, HostTypeOK
  <2>5. \A s \in DescSlots : s[1] >= 0
    BY DEF DescSlots, DSPS
  <2>6. Progress(c)'
    BY <2>1, <2>4, <2>5 DEF Progress, InitLoop
  <2>9. ProgressInv'
    BY <2>1, <2>6, SoleStep
  <2> QED BY <2>8, <2>9
<1>14. ASSUME NEW c \in Clients, RingIndex(c) PROVE CardInv' /\ ProgressInv'
  <2>1. /\ \A b \in Actors \ {c} : pc[b] \notin ActivePCs /\ pc'[b] = pc[b]
        /\ dv[c] = bound /\ bound \in Gens /\ bound # 0 /\ c \in Actors
        /\ pc[c] = "ringIndex" /\ pc'[c] = "ringDesc"
    BY <1>14, <1>a DEF RingIndex, ActivePCs, StartPCs, TeardownPCs, ResetPCs, TypeOK, HostTypeOK
  <2>2. UNCHANGED <<desc, dmaCtl, linked, bound, pages, started, toWrite, dsp, ring>>
    BY <1>14 DEF RingIndex, WriteIndexes
  <2>8. CardInv'
    BY <2>1, <2>2, DirtyStep DEF DirtyPCs, InitLoop, CardInv
  <2>3. linked => Progress(c)'
    BY <2>1, <2>2 DEF ProgressInv, Progress, InitLoop
  <2>9. ProgressInv'
    BY <2>1, <2>2, <2>3, SoleStep
  <2> QED BY <2>8, <2>9
<1>15. ASSUME NEW c \in Clients, RingDesc(c) PROVE CardInv' /\ ProgressInv'
  <2>1. /\ \A b \in Actors \ {c} : pc[b] \notin ActivePCs
        /\ dv[c] = bound /\ bound \in Gens /\ bound # 0 /\ c \in Actors
        /\ pc[c] = "ringDesc" /\ pc' = pc
    BY <1>15, <1>a DEF RingDesc, ActivePCs, StartPCs
  <2>2. PICK s \in toWrite[c] : /\ WriteDesc(s, bound)
                                /\ toWrite' = [toWrite EXCEPT ![c] = @ \ {s}]
    BY <1>15, <2>1 DEF RingDesc
  <2>3. s \in DescSlots /\ UNCHANGED <<dmaCtl, linked, bound, pages, started, dsp, ring>>
    BY <1>15, <2>2 DEF RingDesc, WriteDesc, TypeOK, HostTypeOK
  <2>4. ~ started[bound] /\ pages[bound] = PageSlots
    <3>1. pc[Core] \in {"idle", "rDeregister", "rLock"}
      BY <2>1, ActiveClient DEF ActivePCs, StartPCs
    <3> QED BY <2>1, <3>1 DEF StartedInv, StartPCs, PagesInv
  <2>5. linked => desc' = [desc EXCEPT ![s] = bound]
    BY <2>2 DEF WriteDesc
  <2>6. linked => \A t \in DescSlots : desc'[t] = IF t = s THEN bound ELSE desc[t]
    BY <2>3, <2>5 DEF TypeOK, CardTypeOK
  <2>8. CardInv'
    BY <2>1, <2>3, <2>4, <2>6 DEF CardInv, DirtyPCs, InitLoop
  <2>7. linked => Progress(c)'
    <3>1. toWrite'[c] = toWrite[c] \ {s}
      BY <2>1, <2>2 DEF TypeOK, HostTypeOK
    <3> QED BY <2>1, <2>3, <2>6, <3>1 DEF ProgressInv, Progress, InitLoop
  <2>9. ProgressInv'
    BY <2>1, <2>3, <2>7, SoleStep
  <2> QED BY <2>8, <2>9
<1>16. ASSUME NEW c \in Clients, RingDone(c) PROVE CardInv' /\ ProgressInv'
  <2>1. /\ \A b \in Actors \ {c} : pc[b] \notin ActivePCs /\ pc'[b] = pc[b]
        /\ bound # 0 /\ c \in Actors /\ pc[c] = "ringDesc"
        /\ pc'[c] = IF ring[c] = 0 THEN "ringIndex" ELSE "enable"
        /\ ring'[c] = 1 - ring[c] /\ ring[c] \in {0, 1}
    BY <1>16, <1>a DEF RingDone, ActivePCs, StartPCs, TypeOK, HostTypeOK, RINGS
  <2>2. UNCHANGED <<desc, dmaCtl, linked, bound, pages, started, toWrite, dsp>>
    BY <1>16 DEF RingDone
  <2>8. CardInv'
    BY <2>1, <2>2, DirtyStep DEF DirtyPCs, InitLoop, CardInv
  <2>3. ASSUME NEW s \in toWrite[c]
        PROVE  /\ s[1] \in Int /\ s[2] \in {0, 1} /\ dsp[c] \in Int
               /\ ~ (s[1] = dsp[c] /\ s[2] = ring[c])
    <3>1. s \in DescSlots
      BY <2>1 DEF TypeOK, HostTypeOK
    <3>2. s \notin RingSlots(dsp[c], ring[c])
      BY <1>16 DEF RingDone
    <3> QED BY <2>1, <3>1, <3>2 DEF RingSlots, DescSlots, DSPS, RINGS, TypeOK, HostTypeOK
  <2>4. ASSUME linked PROVE Progress(c)'
    <3>1. Progress(c)
      BY <2>1, <2>4 DEF ProgressInv
    <3>2. CASE ring[c] = 0
      BY <2>1, <2>2, <2>3, <3>1, <3>2 DEF Progress, InitLoop
    <3>3. CASE ring[c] = 1
      <4>1. \A s \in toWrite[c] : s[1] > dsp[c]
        BY <2>1, <2>3, <3>1, <3>3 DEF Progress, InitLoop
      <4> QED BY <2>1, <2>2, <4>1, <3>1, <3>3 DEF Progress, InitLoop
    <3> QED BY <2>1, <3>2, <3>3
  <2>9. ProgressInv'
    BY <2>1, <2>2, <2>4, SoleStep
  <2> QED BY <2>8, <2>9
<1>17. ASSUME NEW c \in Clients, Enable(c) PROVE CardInv' /\ ProgressInv'
  <2>1. /\ \A b \in Actors \ {c} : pc[b] \notin ActivePCs /\ pc'[b] = pc[b]
        /\ bound # 0 /\ c \in Actors /\ pc[c] = "enable"
        /\ \/ pc'[c] = "verify"
           \/ pc'[c] = "ringIndex" /\ dsp'[c] = dsp[c] + 1
    BY <1>17, <1>a DEF Enable, ActivePCs, StartPCs, TypeOK, HostTypeOK
  <2>2. /\ UNCHANGED <<desc, linked, bound, pages, started, toWrite, ring>>
        /\ linked => dmaCtl'.enable = 0 .. dsp[c]
    BY <1>17 DEF Enable, WriteDma, EnableUpTo
  <2>3. \A s \in DescSlots : s[1] \in Int
    BY DEF DescSlots, DSPS
  <2>4. dsp[c] \in Int /\ toWrite[c] \subseteq DescSlots
    BY <2>1 DEF TypeOK, HostTypeOK
  <2>5. ASSUME linked, NEW s \in DescSlots, s[1] \in dmaCtl'.enable PROVE desc[s] # 0
    <3>1. s \notin toWrite[c]
      BY <2>1, <2>2, <2>4, <2>5 DEF ProgressInv, Progress
    <3> QED BY <2>1, <2>5, <3>1 DEF ProgressInv, Progress, InitLoop
  <2>8. CardInv'
    BY <2>1, <2>2, <2>5, DirtyStep DEF DirtyPCs, InitLoop
  <2>6. ASSUME linked PROVE Progress(c)'
    <3>1. CASE pc'[c] = "verify"
      BY <2>1, <3>1, NoProgress DEF ProgressPCs, InitLoop
    <3>2. CASE pc'[c] = "ringIndex" /\ dsp'[c] = dsp[c] + 1
      <4>1. /\ ring[c] = 0
            /\ \A s \in toWrite[c] : s[1] > dsp[c]
            /\ \A s \in DescSlots \ toWrite[c] : desc[s] = bound
        BY <2>1, <2>6 DEF ProgressInv, Progress, InitLoop
      <4>2. \A s \in toWrite[c] : s[1] >= dsp[c] + 1
        BY <2>3, <2>4, <4>1
      <4> QED BY <2>2, <3>2, <4>1, <4>2 DEF Progress, InitLoop
    <3> QED BY <2>1, <3>1, <3>2
  <2>9. ProgressInv'
    BY <2>1, <2>2, <2>6, SoleStep
  <2> QED BY <2>8, <2>9
<1>18. ASSUME NEW c \in Clients, Verify(c) PROVE CardInv' /\ ProgressInv'
  <2>1. /\ \A b \in Actors \ {c} : pc[b] \notin ActivePCs /\ pc'[b] = pc[b]
        /\ dv[c] = bound /\ bound \in Gens /\ bound # 0 /\ c \in Actors
        /\ pc[c] = "verify" /\ ~ started[bound]
    BY <1>18, <1>a DEF Verify, ActivePCs, StartPCs, StartedInv, TypeOK, HostTypeOK
  <2>2. UNCHANGED <<desc, dmaCtl, linked, bound, pages>>
    BY <1>18 DEF Verify
  <2>3. CASE pc'[c] = "tdInt" /\ ~ started'[bound]
    <3>1. CardInv'
      BY <2>1, <2>2, <2>3 DEF CardInv, DirtyPCs
    <3> QED BY <2>1, <2>2, <2>3, <3>1, SoleStep, NoProgress DEF ProgressPCs, InitLoop
  <2>4. CASE pc'[c] = "unlock" /\ started'[bound] /\ RingsPublished(bound)
    <3>1. CardInv'
      BY <2>1, <2>2, <2>4 DEF CardInv, RingsPublished
    <3> QED BY <2>1, <2>2, <2>4, <3>1, SoleStep, NoProgress DEF ProgressPCs, InitLoop
  <2>5. \/ pc'[c] = "tdInt" /\ ~ started'[bound]
        \/ pc'[c] = "unlock" /\ started'[bound] /\ RingsPublished(bound)
    <3>1. CASE ReadDma = ALL_DSPS /\ RingsPublished(bound) /\ AllDspsReady
      BY <1>18, <2>1, <3>1 DEF Verify, TypeOK, HostTypeOK
    <3>2. CASE ~ (ReadDma = ALL_DSPS /\ RingsPublished(bound) /\ AllDspsReady)
      BY <1>18, <2>1, <3>2 DEF Verify, TypeOK, HostTypeOK
    <3> QED BY <3>1, <3>2
  <2> QED BY <2>3, <2>4, <2>5
<1>19. ASSUME NEW c \in Clients, StopEnter(c) PROVE CardInv' /\ ProgressInv'
  BY <1>19, QuietStep DEF StopEnter, ProgressPCs, DirtyPCs, InitLoop, TypeOK, HostTypeOK
<1>20. ASSUME NEW c \in Clients, ResetEnter(c) PROVE CardInv' /\ ProgressInv'
  BY <1>20, QuietStep DEF ResetEnter, ProgressPCs, DirtyPCs, InitLoop, TypeOK, HostTypeOK
<1>21. ASSUME NEW c \in Clients, Pulse(c) PROVE CardInv' /\ ProgressInv'
  <2>1. /\ \A b \in Actors \ {c} : pc[b] \notin ActivePCs /\ pc'[b] = pc[b]
        /\ dv[c] = bound /\ bound \in Gens /\ bound # 0 /\ c \in Actors
        /\ pc[c] = "pulse" /\ pc'[c] = "unpulse"
    BY <1>21, <1>a DEF Pulse, ActivePCs, StartPCs, TeardownPCs, ResetPCs, TypeOK, HostTypeOK
  <2>2. started[bound] /\ UNCHANGED <<desc, linked, bound, pages, started>>
    BY <1>21, <2>1 DEF Pulse, WriteDma, StartedInv, ResetPCs
  <2>3. linked => \A s \in DescSlots : desc[s] = bound
    BY <2>1, <2>2, ProgressPoints DEF CardInv
  <2>8. CardInv'
    BY <2>1, <2>2, <2>3 DEF CardInv
  <2>9. ProgressInv'
    BY <2>1, SoleStep, NoProgress DEF ProgressPCs, InitLoop
  <2> QED BY <2>8, <2>9
<1>22. ASSUME NEW c \in Clients, Unpulse(c) PROVE CardInv' /\ ProgressInv'
  <2>1. /\ \A b \in Actors \ {c} : pc[b] \notin ActivePCs /\ pc'[b] = pc[b]
        /\ dv[c] = bound /\ bound \in Gens /\ bound # 0 /\ c \in Actors
        /\ pc[c] = "unpulse" /\ pc'[c] = "reenable"
    BY <1>22, <1>a DEF Unpulse, ActivePCs, StartPCs, TeardownPCs, ResetPCs, TypeOK, HostTypeOK
  <2>2. started[bound] /\ UNCHANGED <<desc, linked, bound, pages, started>>
    BY <1>22, <2>1 DEF Unpulse, WriteDma, StartedInv, ResetPCs
  <2>3. linked => \A s \in DescSlots : desc[s] = bound
    BY <2>1, <2>2, ProgressPoints DEF CardInv
  <2>8. CardInv'
    BY <2>1, <2>2, <2>3 DEF CardInv
  <2>9. ProgressInv'
    BY <2>1, SoleStep, NoProgress DEF ProgressPCs, InitLoop
  <2> QED BY <2>8, <2>9
<1>23. ASSUME NEW c \in Clients, Reenable(c) PROVE CardInv' /\ ProgressInv'
  <2>1. /\ \A b \in Actors \ {c} : pc[b] \notin ActivePCs /\ pc'[b] = pc[b]
        /\ dv[c] = bound /\ bound \in Gens /\ bound # 0 /\ c \in Actors
        /\ pc[c] = "reenable" /\ pc'[c] = "resetCheck"
    BY <1>23, <1>a DEF Reenable, ActivePCs, StartPCs, TeardownPCs, ResetPCs, TypeOK, HostTypeOK
  <2>2. started[bound] /\ UNCHANGED <<desc, linked, bound, pages, started>>
    BY <1>23, <2>1 DEF Reenable, WriteDma, StartedInv, ResetPCs
  <2>3. linked => \A s \in DescSlots : desc[s] = bound
    BY <2>1, <2>2, ProgressPoints DEF CardInv
  <2>8. CardInv'
    BY <2>1, <2>2, <2>3 DEF CardInv
  <2>9. ProgressInv'
    BY <2>1, SoleStep, NoProgress DEF ProgressPCs, InitLoop
  <2> QED BY <2>8, <2>9
<1>24. ASSUME NEW c \in Clients, ResetCheck(c) PROVE CardInv' /\ ProgressInv'
  BY <1>24, QuietStep DEF ResetCheck, ProgressPCs, DirtyPCs, InitLoop, TypeOK, HostTypeOK
<1>25. ASSUME NEW a \in Actors, TdInt(a) PROVE CardInv' /\ ProgressInv'
  BY <1>25, QuietStep DEF TdInt, DisableInterrupts, ProgressPCs, DirtyPCs, InitLoop, TypeOK, HostTypeOK
<1>26. ASSUME NEW a \in Actors, TdReset(a) PROVE CardInv' /\ ProgressInv'
  <2>1. /\ \A b \in Actors \ {a} : pc[b] \notin ActivePCs /\ pc'[b] = pc[b]
        /\ dv[a] = bound /\ bound \in Gens /\ bound # 0
        /\ pc[a] = "tdReset" /\ pc'[a] = "tdGlobal"
    BY <1>26, <1>a DEF TdReset, ActivePCs, StartPCs, TeardownPCs, ResetPCs, TypeOK, HostTypeOK
  <2>2. /\ UNCHANGED <<desc, linked, bound, pages, started>>
        /\ linked => dmaCtl'.enable = {}
    BY <1>26 DEF TdReset, WriteDma, RESET_GLOBAL
  <2>8. CardInv'
    BY <2>1, <2>2, DirtyStep DEF DirtyPCs
  <2>3. linked => Progress(a)'
    BY <2>1, <2>2 DEF Progress, InitLoop
  <2>9. ProgressInv'
    BY <2>1, <2>2, <2>3, SoleStep
  <2> QED BY <2>8, <2>9
<1>27. ASSUME NEW a \in Actors, TdGlobal(a) PROVE CardInv' /\ ProgressInv'
  <2>1. /\ \A b \in Actors \ {a} : pc[b] \notin ActivePCs /\ pc'[b] = pc[b]
        /\ dv[a] = bound /\ bound \in Gens /\ bound # 0
        /\ pc[a] = "tdGlobal" /\ pc'[a] = "tdClear"
    BY <1>27, <1>a DEF TdGlobal, ActivePCs, StartPCs, TeardownPCs, ResetPCs, TypeOK, HostTypeOK
  <2>2. /\ UNCHANGED <<desc, linked, bound, pages, started>>
        /\ linked => dmaCtl'.enable = {}
        /\ toClear'[a] = RingIds
    BY <1>27 DEF TdGlobal, WriteDma, GLOBAL_ONLY, TypeOK, HostTypeOK
  <2>8. CardInv'
    BY <2>1, <2>2, DirtyStep DEF DirtyPCs
  <2>3. \A s \in DescSlots : <<s[1], s[2]>> \in RingIds
    BY DEF DescSlots, RingIds
  <2>4. linked => Progress(a)'
    BY <2>1, <2>2, <2>3 DEF Progress, InitLoop
  <2>9. ProgressInv'
    BY <2>1, <2>2, <2>4, SoleStep
  <2> QED BY <2>8, <2>9
<1>28. ASSUME NEW a \in Actors, TdClear(a) PROVE CardInv' /\ ProgressInv'
  <2>1. /\ \A b \in Actors \ {a} : pc[b] \notin ActivePCs /\ pc'[b] = pc[b]
        /\ dv[a] = bound /\ bound \in Gens /\ bound # 0
        /\ pc[a] = "tdClear" /\ pc'[a] \in {"tdClear", "tdCold"}
    BY <1>28, <1>a DEF TdClear, ActivePCs, StartPCs, TeardownPCs, ResetPCs, TypeOK, HostTypeOK
  <2>2. PICK x \in toClear[a] :
          /\ ClearRing(x)
          /\ toClear' = [toClear EXCEPT ![a] = @ \ {x}]
          /\ pc'[a] = IF toClear[a] = {x} THEN "tdCold" ELSE "tdClear"
    BY <1>28 DEF TdClear, TypeOK, HostTypeOK
  <2>3. UNCHANGED <<dmaCtl, linked, bound, pages, started>> /\ x \in RingIds
    BY <1>28, <2>2 DEF TdClear, ClearRing, TypeOK, HostTypeOK
  <2>4. toClear'[a] = toClear[a] \ {x}
    BY <2>2 DEF TypeOK, HostTypeOK
  <2>5. ASSUME linked
        PROVE  /\ dmaCtl.enable = {}
               /\ \A s \in DescSlots : desc'[s] \in {0, desc[s]}
               /\ \A s \in DescSlots : <<s[1], s[2]>> \notin toClear'[a] => desc'[s] = 0
    <3>1. Progress(a)
      BY <2>1, <2>5 DEF ProgressInv
    <3>2. \A s \in DescSlots :
            desc'[s] = IF s[1] = x[1] /\ s[2] = x[2] THEN 0 ELSE desc[s]
      BY <2>2, <2>5 DEF ClearRing
    <3>3. \A s \in DescSlots : <<s[1], s[2]>> = x => s[1] = x[1] /\ s[2] = x[2]
      OBVIOUS
    <3>4. \A s \in DescSlots : <<s[1], s[2]>> \notin toClear'[a] =>
            <<s[1], s[2]>> \notin toClear[a] \/ <<s[1], s[2]>> = x
      BY <2>4
    <3> QED BY <2>1, <3>1, <3>2, <3>3, <3>4 DEF Progress
  <2>6. linked /\ pc'[a] = "tdCold" => Cleared'
    BY <2>2, <2>4, <2>5 DEF Cleared
  <2>8. CardInv'
    BY <2>1, <2>3, <2>5, <2>6 DEF CardInv, DirtyPCs
  <2>7. linked => Progress(a)'
    BY <2>1, <2>3, <2>5, <2>6 DEF Progress, InitLoop
  <2>9. ProgressInv'
    BY <2>1, <2>3, <2>7, SoleStep
  <2> QED BY <2>8, <2>9
<1>29. ASSUME NEW a \in Actors, TdCold(a) PROVE CardInv' /\ ProgressInv'
  <2>1. /\ \A b \in Actors \ {a} : pc[b] \notin ActivePCs /\ pc'[b] = pc[b]
        /\ dv[a] = bound /\ bound \in Gens /\ bound # 0
        /\ pc[a] = "tdCold" /\ pc'[a] = "tdMaster"
    BY <1>29, <1>a DEF TdCold, ActivePCs, StartPCs, TeardownPCs, ResetPCs, TypeOK, HostTypeOK
  <2>2. /\ UNCHANGED <<desc, linked, bound, pages, started>>
        /\ linked => dmaCtl'.enable = {}
    BY <1>29 DEF TdCold, WriteDma, COLD_RESET
  <2>3. linked => Cleared
    BY <2>1 DEF ProgressInv, Progress
  <2>8. CardInv'
    BY <2>1, <2>2, <2>3 DEF CardInv, Cleared
  <2>4. linked => Progress(a)'
    BY <2>1, <2>2, <2>3 DEF Progress, InitLoop, Cleared
  <2>9. ProgressInv'
    BY <2>1, <2>2, <2>4, SoleStep
  <2> QED BY <2>8, <2>9
<1>30. ASSUME NEW a \in Actors, TdMaster(a) PROVE CardInv' /\ ProgressInv'
  <2>1. /\ \A b \in Actors \ {a} : pc[b] \notin ActivePCs /\ pc'[b] = pc[b]
        /\ dv[a] = bound /\ bound \in Gens /\ bound # 0
        /\ pc[a] = "tdMaster" /\ pc'[a] \in {"unlock", "tdCheck"}
    BY <1>30, <1>a DEF TdMaster, ActivePCs, StartPCs, TeardownPCs, ResetPCs, TypeOK, HostTypeOK
  <2>2. UNCHANGED <<desc, dmaCtl, linked, bound>> /\ ~ started'[bound]
    <3>1. op[a] = "start" => ~ started[bound]
      BY <2>1 DEF LoopOK, StartedInv, TeardownPCs
    <3> QED BY <1>30, <2>1, <3>1 DEF TdMaster, TypeOK, HostTypeOK
  <2>3. linked => Cleared /\ dmaCtl.enable = {}
    BY <2>1 DEF ProgressInv, Progress
  <2>8. CardInv'
    BY <2>2, <2>3, ClearedStep DEF Cleared
  <2>9. ProgressInv'
    BY <2>1, SoleStep, NoProgress DEF ProgressPCs, InitLoop
  <2> QED BY <2>8, <2>9
<1>31. ASSUME NEW a \in Actors, TdCheck(a) PROVE CardInv' /\ ProgressInv'
  BY <1>31, QuietStep DEF TdCheck, ProgressPCs, DirtyPCs, InitLoop, TypeOK, HostTypeOK
<1>32. ASSUME ProbeCall PROVE CardInv' /\ ProgressInv'
  <2>1. /\ \A b \in Actors : pc[b] \notin ActivePCs
        /\ \A b \in Actors \ {Core} : pc'[b] = pc[b]
        /\ pc'[Core] \notin ActivePCs
    BY SMTT(40), <1>32, ActiveClient DEF ProbeCall, TypeOK, HostTypeOK, Gens, ActivePCs, StartPCs,
       TeardownPCs, ResetPCs
  <2>2. bound = 0 /\ nextGen + 1 \in Gens /\ bound' = nextGen + 1 /\ started' = started
    BY <1>32 DEF ProbeCall, TypeOK, HostTypeOK, Gens
  <2>3. linked => Cleared /\ \A s \in DescSlots : s[1] \notin dmaCtl.enable
    BY <2>1, <2>2, QuietCard, ProgressPoints
  <2>4. ~ started'[bound']
    BY <2>2 DEF StartedInv, Gens
  <2>8. CardInv'
    BY <1>32, <2>3, <2>4, ClearedStep DEF ProbeCall, Cleared
  <2>9. ProgressInv'
    BY <2>1, SoleStep, NoProgress, ProgressPoints
  <2> QED BY <2>8, <2>9
<1>33. ASSUME ProbeEnable PROVE CardInv' /\ ProgressInv'
  BY <1>33, QuietStep DEF ProbeEnable, Acquire, Resources, ProgressPCs, DirtyPCs, InitLoop, TypeOK, HostTypeOK
<1>34. ASSUME ProbeRegion PROVE CardInv' /\ ProgressInv'
  BY <1>34, QuietStep DEF ProbeRegion, Acquire, Resources, ProgressPCs, DirtyPCs, InitLoop, TypeOK, HostTypeOK
<1>35. ASSUME ProbeMap PROVE CardInv' /\ ProgressInv'
  BY <1>35, QuietStep DEF ProbeMap, Acquire, Resources, ProgressPCs, DirtyPCs, InitLoop, TypeOK, HostTypeOK
<1>36. ASSUME ProbeCold PROVE CardInv' /\ ProgressInv'
  BY <1>36, QuietStep DEF ProbeCold, ProgressPCs, DirtyPCs, InitLoop, TypeOK, HostTypeOK
<1>37. ASSUME ProbeAlloc PROVE CardInv' /\ ProgressInv'
  <2>1. /\ \A b \in Actors : pc[b] \notin ActivePCs
        /\ \A b \in Actors \ {Core} : pc'[b] = pc[b]
        /\ pc'[Core] \notin ActivePCs
    BY <1>37, ActiveCore DEF ProbeAlloc, TypeOK, HostTypeOK, ActivePCs, StartPCs, TeardownPCs, ResetPCs
  <2>2. bound # 0 => ~ started[bound]
    BY <1>37 DEF ProbeAlloc, CoreInv, StartedInv, ProbePCs, UnwindPCs
  <2>3. linked => Cleared /\ \A s \in DescSlots : s[1] \notin dmaCtl.enable
    BY <2>1, <2>2, QuietCard, ProgressPoints
  <2>8. CardInv'
    BY <1>37, <2>2, <2>3, ClearedStep DEF ProbeAlloc, Cleared
  <2>9. ProgressInv'
    BY <2>1, SoleStep, NoProgress, ProgressPoints
  <2> QED BY <2>8, <2>9
<1>38. ASSUME ProbeRegister PROVE CardInv' /\ ProgressInv'
  BY <1>38, QuietStep DEF ProbeRegister, ProgressPCs, DirtyPCs, InitLoop, TypeOK, HostTypeOK
<1>39. ASSUME RemoveCall PROVE CardInv' /\ ProgressInv'
  BY <1>39, QuietStep DEF RemoveCall, ProgressPCs, DirtyPCs, InitLoop, TypeOK, HostTypeOK
<1>40. ASSUME RemoveDeregister PROVE CardInv' /\ ProgressInv'
  BY <1>40, QuietStep DEF RemoveDeregister, ProgressPCs, DirtyPCs, InitLoop, TypeOK, HostTypeOK
<1>41. ASSUME RemoveLock PROVE CardInv' /\ ProgressInv'
  BY <1>41, QuietStep DEF RemoveLock, ProgressPCs, DirtyPCs, InitLoop, TypeOK, HostTypeOK
<1>42. ASSUME FreePages PROVE CardInv' /\ ProgressInv'
  <2>1. /\ \A b \in Actors : pc[b] \notin ActivePCs
        /\ \A b \in Actors \ {Core} : pc'[b] = pc[b]
        /\ pc'[Core] \notin ActivePCs
    BY <1>42, ActiveCore DEF FreePages, TypeOK, HostTypeOK, ActivePCs, StartPCs, TeardownPCs, ResetPCs
  <2>2. bound # 0 => ~ started[bound]
    BY <1>42 DEF FreePages, CoreInv, StartedInv, ProbePCs, UnwindPCs
  <2>3. linked => Cleared /\ \A s \in DescSlots : s[1] \notin dmaCtl.enable
    BY <2>1, <2>2, QuietCard, ProgressPoints
  <2>8. CardInv'
    BY <1>42, <2>2, <2>3, ClearedStep DEF FreePages, Cleared
  <2>9. ProgressInv'
    BY <2>1, SoleStep, NoProgress, ProgressPoints
  <2> QED BY <2>8, <2>9
<1>43. ASSUME UnmapBar PROVE CardInv' /\ ProgressInv'
  BY <1>43, QuietStep DEF UnmapBar, ReleaseResource, ProgressPCs, DirtyPCs, InitLoop, TypeOK, HostTypeOK
<1>44. ASSUME ReleaseRegion PROVE CardInv' /\ ProgressInv'
  BY <1>44, QuietStep DEF ReleaseRegion, ReleaseResource, ProgressPCs, DirtyPCs, InitLoop, TypeOK, HostTypeOK
<1>45. ASSUME DisableDevice PROVE CardInv' /\ ProgressInv'
  BY <1>45, QuietStep DEF DisableDevice, ReleaseResource, ProgressPCs, DirtyPCs, InitLoop, TypeOK, HostTypeOK
<1>46. ASSUME RemoveUnlock PROVE CardInv' /\ ProgressInv'
  <2>1. /\ \A b \in Actors : pc[b] \notin ActivePCs
        /\ \A b \in Actors \ {Core} : pc'[b] = pc[b]
        /\ pc'[Core] \notin ActivePCs
    BY <1>46, ActiveCore DEF RemoveUnlock, TypeOK, HostTypeOK, ActivePCs, StartPCs, TeardownPCs, ResetPCs
  <2>2. bound # 0 => ~ started[bound]
    BY <1>46 DEF RemoveUnlock, CoreInv, StartedInv, ProbePCs, UnwindPCs
  <2>3. linked => Cleared /\ \A s \in DescSlots : s[1] \notin dmaCtl.enable
    BY <2>1, <2>2, QuietCard, ProgressPoints
  <2>8. CardInv'
    BY <1>46, <2>2, <2>3, ClearedStep DEF RemoveUnlock, Cleared
  <2>9. ProgressInv'
    BY <2>1, SoleStep, NoProgress, ProgressPoints
  <2> QED BY <2>8, <2>9
<1>47. ASSUME PutDevice PROVE CardInv' /\ ProgressInv'
  <2>1. /\ \A b \in Actors : pc[b] \notin ActivePCs
        /\ \A b \in Actors \ {Core} : pc'[b] = pc[b]
        /\ pc'[Core] \notin ActivePCs
    BY <1>47, ActiveCore DEF PutDevice, TypeOK, HostTypeOK, ActivePCs, StartPCs, TeardownPCs, ResetPCs
  <2>2. bound # 0 => ~ started[bound]
    BY <1>47 DEF PutDevice, CoreInv, StartedInv, ProbePCs, UnwindPCs
  <2>3. linked => Cleared /\ \A s \in DescSlots : s[1] \notin dmaCtl.enable
    BY <2>1, <2>2, QuietCard, ProgressPoints
  <2>8. CardInv'
    BY <1>47, <2>2, <2>3, ClearedStep DEF PutDevice, Cleared
  <2>9. ProgressInv'
    BY <2>1, SoleStep, NoProgress, ProgressPoints
  <2> QED BY <2>8, <2>9
<1>90. ASSUME Card PROVE CardInv' /\ ProgressInv'
  <2>1. UNCHANGED <<desc, dmaCtl, hostVars>> /\ (linked' => linked)
    BY <1>90 DEF Card, CardStep, ReadyFlip, LinkLoss
  <2>2. CardInv'
    BY <2>1 DEF hostVars, CardInv, Cleared
  <2>3. ASSUME NEW a \in Actors, linked' PROVE Progress(a)'
    BY <2>1, <2>3 DEF hostVars, ProgressInv, Progress, Cleared
  <2> QED BY <2>2, <2>3 DEF ProgressInv
<1>91. ASSUME UNCHANGED vars PROVE CardInv' /\ ProgressInv'
  <2>1. CardInv'
    BY <1>91 DEF vars, CardInv, Cleared
  <2>2. ASSUME NEW a \in Actors, linked PROVE Progress(a)'
    BY <1>91, <2>2 DEF vars, ProgressInv, Progress, Cleared
  <2>3. ProgressInv'
    BY <1>91, <2>2 DEF vars, ProgressInv
  <2> QED BY <2>1, <2>3
<1> HIDE DEF Owners, Usage, At, Goto, Finish, busVars, devVars, argVars, loopVars, cardVars, Actors
<1> QED
  BY <1>1, <1>2, <1>3, <1>4, <1>5, <1>6, <1>7, <1>8, <1>9, <1>10, <1>11, <1>12, <1>13, <1>14, <1>15, <1>16, <1>17, <1>18, <1>19, <1>20, <1>21, <1>22, <1>23, <1>24, <1>25, <1>26, <1>27, <1>28, <1>29, <1>30, <1>31, <1>32, <1>33, <1>34, <1>35, <1>36, <1>37, <1>38, <1>39, <1>40, <1>41, <1>42, <1>43, <1>44, <1>45, <1>46, <1>47,
     <1>90, <1>91 DEF Next, ClientCall, ClientStep, StartStep, TeardownStep, ResetStep,
     CoreCall, CoreStep, Actors

----------------------------------------------------------------------------
(* The theorems.                                                           *)

\* The driver before its first probe satisfies the inductive invariant.
LEMMA InitIInv == Init => IInv
<1> SUFFICES ASSUME Init PROVE IInv
  OBVIOUS
<1> USE CardAssumption, ActorAssumption DEF Init, CardInit
<1>1. CardTypeOK
  <2>1. dmaCtl \in DmaWord
    BY DmaWords
  <2>2. 0 \in 0 .. MaxGen /\ 0 \in 0 .. Entries /\ Entries \in 0 .. Entries
    OBVIOUS
  <2>3. idx \in [RingIds -> IdxWord]
    BY <2>2 DEF IdxWord
  <2> QED BY <2>1, <2>2, <2>3 DEF CardTypeOK
<1>2. HostTypeOK
  <2>1. "idle" \in PCs /\ "ok" \in Errors \cup {"ok"}
    BY DEF PCs
  <2>2. /\ pc \in [Actors -> PCs] /\ ret \in [Actors -> Errors \cup {"ok"}]
        /\ op \in [Actors -> Commands \cup {"none", "probe", "remove"}]
    BY <2>1
  <2>5. master \in BOOLEAN
    BY Zenon
  <2>6. started \in [Gens -> BOOLEAN] /\ removing \in [Gens -> BOOLEAN]
    OBVIOUS
  <2>3. /\ bound \in 0 .. MaxGen /\ misc \in 0 .. MaxGen /\ nextGen \in 0 .. MaxGen
        /\ ref \in [Gens -> Int]
        /\ owner \in [Gens -> Actors \cup {Nobody}]
        /\ held \in [Gens -> SUBSET Resources] /\ pages \in [Gens -> SUBSET PageSlots]
    BY Zeros
  <2>4. /\ file \in [Clients -> 0 .. MaxGen] /\ dv \in [Actors -> 0 .. MaxGen]
        /\ dsp \in [Actors -> 0 .. NDsp] /\ ring \in [Actors -> RINGS]
        /\ toWrite \in [Actors -> SUBSET DescSlots]
        /\ toClear \in [Actors -> SUBSET RingIds]
        /\ wasReady \in [Actors -> BOOLEAN]
    BY Zeros
  <2> QED BY <2>2, <2>3, <2>4, <2>5, <2>6 DEF HostTypeOK
<1>3. LoopOK
  BY DEF LoopOK, Actors, ClientPCs, CorePCs, StartPCs, TeardownPCs, ResetPCs, InitLoop
<1>4. LockInv
  BY DEF LockInv, CoreHolds, Actors, ActivePCs, StartPCs, TeardownPCs, ResetPCs
<1>5. GenInv
  BY DEF GenInv, Actors, ActivePCs, StartPCs, TeardownPCs, ResetPCs
<1>6. CoreInv
  BY DEF CoreInv, Actors, ProbePCs, UnwindPCs
<1>7. PagesInv
  BY DEF PagesInv
<1>8. StartedInv
  BY DEF StartedInv, Actors, StartPCs, TeardownPCs, ResetPCs, ProbePCs, UnwindPCs
<1>9. \A s \in DescSlots : s[1] \notin dmaCtl.enable
  BY DEF COLD_RESET, GLOBAL_ONLY
<1>10. CardInv
  BY <1>9 DEF CardInv, Cleared
<1>11. ProgressInv
  BY DEF ProgressInv, Progress, InitLoop
<1> QED BY <1>1, <1>2, <1>3, <1>4, <1>5, <1>6, <1>7, <1>8, <1>10, <1>11 DEF IInv, TypeOK

\* Every step of the driver or of the card preserves it.
LEMMA NextIInv == IInv /\ [Next]_vars => IInv'
<1> SUFFICES ASSUME IInv, [Next]_vars PROVE IInv'
  OBVIOUS
<1>1. TypeOK' /\ LoopOK'
  BY TypeStep DEF IInv
<1>2. LockInv' /\ GenInv' /\ CoreInv'
  BY <1>1, OwnershipStep DEF IInv
<1>3. PagesInv' /\ StartedInv'
  BY <1>1, <1>2, UsageStep DEF IInv, Owners
<1>4. CardInv' /\ ProgressInv'
  BY <1>1, <1>2, <1>3, CardInvStep DEF IInv, Owners, Usage
<1> QED BY <1>1, <1>2, <1>3, <1>4 DEF IInv

\* The inductive invariant holds in every reachable state.
THEOREM Inductive == Spec => []IInv
BY InitIInv, NextIInv, PTL DEF Spec

\* Whatever the numbers of DSPs, pages, clients and generations, every variable
\* of the driver and the card keeps its type; in particular no loop leaves the
\* DSPs of the card and no ring index leaves the ring.
THEOREM TypeCorrect == Spec => []TypeOK
<1>1. IInv => TypeOK
  BY DEF IInv
<1> QED BY <1>1, Inductive, PTL

\* A DMA engine that can run reads only complete descriptors of pages that are
\* still allocated: uad2_start_locked publishes before it enables, and
\* uad2_stop_locked disables and clears before uad2_free_pages frees.
THEOREM DmaSafety == Spec => []DmaSafe
<1>1. ASSUME IInv PROVE DmaSafe
  <2> SUFFICES ASSUME NEW d \in DSPS, EngineLive(d)
               PROVE  \E g \in Gens : \A s \in DescSlots :
                        s[1] = d => desc[s] = g /\ PageOf(s) \in pages[g]
    BY DEF DmaSafe
  <2>1. linked /\ d \in dmaCtl.enable
    BY DEF EngineLive
  <2>2. \A s \in DescSlots :
          s[1] = d => desc[s] # 0 /\ desc[s] = bound /\ pages[bound] = PageSlots
    BY <1>1, <2>1 DEF IInv, CardInv
  <2>3. <<d, 0, 0, 0>> \in DescSlots
    BY CardAssumption DEF DescSlots, RINGS, PAGES, HALVES
  <2>4. bound \in Gens
    <3>1. bound # 0
      BY <2>2, <2>3
    <3> QED BY <1>1, <3>1, CardAssumption DEF IInv, TypeOK, HostTypeOK, Gens
  <2>5. \A s \in DescSlots : PageOf(s) \in PageSlots
    BY DEF PageOf, DescSlots, PageSlots
  <2> QED BY <2>2, <2>4, <2>5
<1> QED BY <1>1, Inductive, PTL

\* No descriptor word of an answering card names a freed page, even with the
\* engines off: uad2_remove clears every ring before it frees the pages.
THEOREM NoDangling == Spec => []NoDanglingDescriptor
<1>1. ASSUME IInv PROVE NoDanglingDescriptor
  <2>1. \A s \in DescSlots : PageOf(s) \in PageSlots
    BY DEF PageOf, DescSlots, PageSlots
  <2> QED BY <1>1, <2>1 DEF NoDanglingDescriptor, IInv, CardInv
<1> QED BY <1>1, Inductive, PTL

\* The mutex, the removing flag and the serialised probe and remove keep two
\* actors from interleaving their register accesses, over all generations.
THEOREM ExclusiveRegisters == Spec => []OneRegisterUser
<1>1. ASSUME IInv PROVE OneRegisterUser
  <2> SUFFICES ASSUME NEW a \in Actors, NEW b \in Actors,
                      pc[a] \in RegisterPCs, pc[b] \in RegisterPCs, a # b
               PROVE  FALSE
    BY DEF OneRegisterUser
  <2>1. Owners
    BY <1>1 DEF IInv, Owners
  <2>2. ASSUME NEW c \in Actors, pc[c] \in RegisterPCs
        PROVE  pc[c] \in (IF c = Core THEN CorePCs \ {"idle", "rDeregister", "rLock"}
                                      ELSE ActivePCs)
    <3>1. CASE c = Core
      <4>1. pc[c] \in CorePCs
        BY <2>1, <3>1 DEF Owners, LoopOK
      <4>2. pc[c] \notin {"idle", "rDeregister", "rLock"}
        BY <2>2 DEF RegisterPCs, StartPCs, TeardownPCs, ResetPCs
      <4> QED BY <3>1, <4>1, <4>2
    <3>2. CASE c # Core
      <4>1. pc[c] \in ClientPCs
        BY <2>1, <3>2 DEF Owners, LoopOK, Actors
      <4>2. pc[c] \notin {"idle", "open", "lock", "unlock"}
        BY <2>2 DEF RegisterPCs, StartPCs, TeardownPCs, ResetPCs
      <4> QED BY <3>2, <4>1, <4>2 DEF ClientPCs
    <3> QED BY <3>1, <3>2
  <2>3. CASE b \in Clients
    BY <2>1, <2>2, <2>3, Alone, ActorAssumption
  <2>4. CASE a \in Clients
    BY <2>1, <2>2, <2>4, Alone, ActorAssumption
  <2> QED BY <2>3, <2>4 DEF Actors
<1> QED BY <1>1, Inductive, PTL

----------------------------------------------------------------------------
(* Part 2: lifetimes.                                                     *)

----------------------------------------------------------------------------
(* The invariant.                                                          *)

\* What uad2_probe has acquired and its unwind labels, or uad2_remove, have not
\* given back yet; only the bound generation has anything.
HeldInv ==
  /\ \A g \in Gens : g # bound => held[g] = {} /\ pages[g] = {}
  /\ bound # 0 =>
       /\ "bar" \in held[bound] <=>
            pc[Core] \notin {"pEnable", "pRegion", "pMap", "uRegion", "uDisable",
                             "uPut", "rUnlock"}
       /\ "region" \in held[bound] <=>
            pc[Core] \notin {"pEnable", "pRegion", "uDisable", "uPut", "rUnlock"}
       /\ "enabled" \in held[bound] <=>
            pc[Core] \notin {"pEnable", "uPut", "rUnlock"}
       /\ pages[bound] # {} =>
            pc[Core] \notin {"pEnable", "pRegion", "pMap", "pCold", "uUnmap",
                             "uRegion", "uDisable", "uPut", "rUnlock"}

\* Core has a mutex, and a bound generation is being removed, only between the
\* lock and the unlock of uad2_remove.
CoreOwns ==
  /\ \A g \in Gens : owner[g] = Core => CoreHolds /\ g = dv[Core]
  /\ bound # 0 /\ removing[bound] => CoreHolds

\* Control points with bus mastering on.
MasterPCs == (StartPCs \ {"setMaster"}) \cup (TeardownPCs \ {"tdCheck"})

\* Bus mastering is on for a running transport, and otherwise only inside a
\* start or its rollback.
MasterInv ==
  master <=> \/ bound # 0 /\ started[bound]
             \/ \E a \in Actors : pc[a] \in MasterPCs

\* The clients that have generation g open.
Files(g) == {c \in Clients : file[c] = g}

\* The reference count is the number of open files, plus one for the binding
\* until uad2_remove or the unwinding of uad2_probe drops it.
RefInv ==
  /\ \A g \in Gens : ref[g] = Cardinality(Files(g)) + (IF dv[Core] = g THEN 1 ELSE 0)
  /\ dv[Core] # 0 => bound # 0 \/ pc[Core] = "uPut"
  /\ \A c \in Clients :
       /\ pc[c] = "open" => misc # 0 /\ dv[c] = misc /\ file[c] = 0
       /\ pc[c] \notin {"idle", "open"} => dv[c] = file[c]

LifetimeInv == HeldInv /\ CoreOwns /\ MasterInv /\ RefInv

----------------------------------------------------------------------------
(* What the actions of one actor leave alone.                              *)

\* The call an actor is in does not move.
Waits(a) ==
  /\ pc'[a] = pc[a] /\ dv'[a] = dv[a] /\ op'[a] = op[a] /\ dsp'[a] = dsp[a]
  /\ ret'[a] = ret[a]

\* A system call changes neither the binding nor its resources, moves no other
\* actor, and takes or releases one mutex.
ClientKeeps(c) ==
  /\ UNCHANGED <<bound, misc, nextGen, removing, held, pages>>
  /\ \A a \in Actors \ {c} : Waits(a)
  /\ \A b \in Clients \ {c} : file'[b] = file[b]
  /\ \A g \in Gens : owner'[g] \in {owner[g], c, Nobody}

\* Probe and remove move no client and open or close no file.
CoreKeeps ==
  /\ UNCHANGED file
  /\ \A c \in Clients : Waits(c)

LEMMA ClientFrame ==
  ASSUME TypeOK, NEW c \in Clients, ClientCall(c) \/ ClientStep(c)
  PROVE  ClientKeeps(c)
<1> USE ActorAssumption DEF TypeOK, HostTypeOK, ClientKeeps, Waits, At, Goto, Finish,
        busVars, devVars, argVars, loopVars, Actors
<1>1. ASSUME OpenCall(c) PROVE ClientKeeps(c)
  BY <1>1 DEF OpenCall
<1>2. ASSUME Open(c) PROVE ClientKeeps(c)
  BY <1>2 DEF Open
<1>3. ASSUME Release(c) PROVE ClientKeeps(c)
  BY <1>3 DEF Release, KrefPut
<1>4. ASSUME IoctlCall(c) PROVE ClientKeeps(c)
  BY <1>4 DEF IoctlCall
<1>5. ASSUME Lock(c) PROVE ClientKeeps(c)
  BY <1>5 DEF Lock
<1>6. ASSUME Query(c) PROVE ClientKeeps(c)
  BY <1>6 DEF Query
<1>7. ASSUME NotCapable(c) PROVE ClientKeeps(c)
  BY <1>7 DEF NotCapable
<1>8. ASSUME Unlock(c) PROVE ClientKeeps(c)
  BY <1>8 DEF Unlock
<1>9. ASSUME StartEnter(c) PROVE ClientKeeps(c)
  BY <1>9 DEF StartEnter
<1>10. ASSUME SetMaster(c) PROVE ClientKeeps(c)
  BY <1>10 DEF SetMaster
<1>11. ASSUME Quiesce(c) PROVE ClientKeeps(c)
  BY <1>11 DEF Quiesce
<1>12. ASSUME ResetGlobal(c) PROVE ClientKeeps(c)
  BY <1>12 DEF ResetGlobal
<1>13. ASSUME GlobalOnly(c) PROVE ClientKeeps(c)
  BY <1>13 DEF GlobalOnly
<1>14. ASSUME RingIndex(c) PROVE ClientKeeps(c)
  BY <1>14 DEF RingIndex
<1>15. ASSUME RingDesc(c) PROVE ClientKeeps(c)
  BY <1>15 DEF RingDesc
<1>16. ASSUME RingDone(c) PROVE ClientKeeps(c)
  BY <1>16 DEF RingDone
<1>17. ASSUME Enable(c) PROVE ClientKeeps(c)
  BY <1>17 DEF Enable
<1>18. ASSUME Verify(c) PROVE ClientKeeps(c)
  BY <1>18 DEF Verify
<1>19. ASSUME StopEnter(c) PROVE ClientKeeps(c)
  BY <1>19 DEF StopEnter
<1>20. ASSUME TdInt(c) PROVE ClientKeeps(c)
  BY <1>20 DEF TdInt
<1>21. ASSUME TdReset(c) PROVE ClientKeeps(c)
  BY <1>21 DEF TdReset
<1>22. ASSUME TdGlobal(c) PROVE ClientKeeps(c)
  BY <1>22 DEF TdGlobal
<1>23. ASSUME TdClear(c) PROVE ClientKeeps(c)
  BY <1>23 DEF TdClear
<1>24. ASSUME TdCold(c) PROVE ClientKeeps(c)
  BY <1>24 DEF TdCold
<1>25. ASSUME TdMaster(c) PROVE ClientKeeps(c)
  BY <1>25 DEF TdMaster
<1>26. ASSUME TdCheck(c) PROVE ClientKeeps(c)
  BY <1>26 DEF TdCheck
<1>27. ASSUME ResetEnter(c) PROVE ClientKeeps(c)
  BY <1>27 DEF ResetEnter
<1>28. ASSUME Pulse(c) PROVE ClientKeeps(c)
  BY <1>28 DEF Pulse
<1>29. ASSUME Unpulse(c) PROVE ClientKeeps(c)
  BY <1>29 DEF Unpulse
<1>30. ASSUME Reenable(c) PROVE ClientKeeps(c)
  BY <1>30 DEF Reenable
<1>31. ASSUME ResetCheck(c) PROVE ClientKeeps(c)
  BY <1>31 DEF ResetCheck
<1> HIDE DEF TypeOK, HostTypeOK, ClientKeeps
<1> QED
  BY <1>1, <1>2, <1>3, <1>4, <1>5, <1>6, <1>7, <1>8, <1>9, <1>10, <1>11, <1>12, <1>13, <1>14, <1>15, <1>16, <1>17, <1>18, <1>19, <1>20, <1>21, <1>22, <1>23, <1>24, <1>25, <1>26, <1>27, <1>28, <1>29, <1>30, <1>31
     DEF ClientCall, ClientStep, StartStep, TeardownStep, ResetStep

LEMMA CoreFrame ==
  ASSUME TypeOK, CoreCall \/ CoreStep
  PROVE  CoreKeeps
<1> USE ActorAssumption DEF TypeOK, HostTypeOK, CoreKeeps, Waits, At, Goto, Finish,
        busVars, devVars, argVars, loopVars, Actors
<1>1. ASSUME ProbeCall PROVE CoreKeeps
  BY <1>1 DEF ProbeCall
<1>2. ASSUME ProbeEnable PROVE CoreKeeps
  BY <1>2 DEF ProbeEnable, Acquire
<1>3. ASSUME ProbeRegion PROVE CoreKeeps
  BY <1>3 DEF ProbeRegion, Acquire
<1>4. ASSUME ProbeMap PROVE CoreKeeps
  BY <1>4 DEF ProbeMap, Acquire
<1>5. ASSUME ProbeCold PROVE CoreKeeps
  BY <1>5 DEF ProbeCold
<1>6. ASSUME ProbeAlloc PROVE CoreKeeps
  BY <1>6 DEF ProbeAlloc
<1>7. ASSUME ProbeRegister PROVE CoreKeeps
  BY <1>7 DEF ProbeRegister
<1>8. ASSUME RemoveCall PROVE CoreKeeps
  BY <1>8 DEF RemoveCall
<1>9. ASSUME RemoveDeregister PROVE CoreKeeps
  BY <1>9 DEF RemoveDeregister
<1>10. ASSUME RemoveLock PROVE CoreKeeps
  BY <1>10 DEF RemoveLock
<1>11. ASSUME FreePages PROVE CoreKeeps
  BY <1>11 DEF FreePages
<1>12. ASSUME UnmapBar PROVE CoreKeeps
  BY <1>12 DEF UnmapBar, ReleaseResource
<1>13. ASSUME ReleaseRegion PROVE CoreKeeps
  BY <1>13 DEF ReleaseRegion, ReleaseResource
<1>14. ASSUME DisableDevice PROVE CoreKeeps
  BY <1>14 DEF DisableDevice, ReleaseResource
<1>15. ASSUME RemoveUnlock PROVE CoreKeeps
  BY <1>15 DEF RemoveUnlock
<1>16. ASSUME PutDevice PROVE CoreKeeps
  BY <1>16 DEF PutDevice, KrefPut
<1>17. ASSUME TdInt(Core) PROVE CoreKeeps
  BY <1>17 DEF TdInt
<1>18. ASSUME TdReset(Core) PROVE CoreKeeps
  BY <1>18 DEF TdReset
<1>19. ASSUME TdGlobal(Core) PROVE CoreKeeps
  BY <1>19 DEF TdGlobal
<1>20. ASSUME TdClear(Core) PROVE CoreKeeps
  BY <1>20 DEF TdClear
<1>21. ASSUME TdCold(Core) PROVE CoreKeeps
  BY <1>21 DEF TdCold
<1>22. ASSUME TdMaster(Core) PROVE CoreKeeps
  BY <1>22 DEF TdMaster
<1>23. ASSUME TdCheck(Core) PROVE CoreKeeps
  BY <1>23 DEF TdCheck
<1> HIDE DEF TypeOK, HostTypeOK, CoreKeeps
<1> QED
  BY <1>1, <1>2, <1>3, <1>4, <1>5, <1>6, <1>7, <1>8, <1>9, <1>10, <1>11, <1>12, <1>13, <1>14, <1>15, <1>16, <1>17, <1>18, <1>19, <1>20, <1>21, <1>22, <1>23
     DEF CoreCall, CoreStep, TeardownStep

----------------------------------------------------------------------------
(* The resources and the mutex.                                            *)

\* Every acquisition and every release leaves held and pages as the control
\* point it goes to says.
LEMMA HeldStep ==
  ASSUME Owners, HeldInv, [Next]_vars
  PROVE  HeldInv'
<1>0. TypeOK
  BY DEF Owners
<1>c. ASSUME NEW c \in Clients, ClientCall(c) \/ ClientStep(c) PROVE HeldInv'
  <2>1. ClientKeeps(c) /\ pc'[Core] = pc[Core]
    BY <1>0, <1>c, ClientFrame, ActorAssumption DEF ClientKeeps, Waits, Actors
  <2> QED BY <2>1 DEF ClientKeeps, HeldInv
<1>d. ASSUME Card \/ UNCHANGED vars PROVE HeldInv'
  BY <1>d DEF Card, hostVars, vars, busVars, devVars, HeldInv
<1> USE CardAssumption, ActorAssumption DEF Owners, TypeOK, HostTypeOK, At, Goto, Finish,
        busVars, devVars, argVars, loopVars, Actors, Gens
<1>1. ASSUME ProbeCall PROVE HeldInv'
  BY <1>1 DEF ProbeCall, HeldInv, CoreInv, Resources
<1>2. ASSUME ProbeEnable PROVE HeldInv'
  BY <1>2 DEF ProbeEnable, Acquire, HeldInv, CoreInv, Resources
<1>3. ASSUME ProbeRegion PROVE HeldInv'
  <2>1. /\ pc[Core] = "pRegion" /\ bound \in Gens /\ dv[Core] = bound
        /\ UNCHANGED <<bound, pages>>
    BY <1>3 DEF ProbeRegion, Acquire, CoreInv
  <2>2. \/ held' = [held EXCEPT ![bound] = @ \cup {"region"}] /\ pc'[Core] = "pMap"
        \/ held' = held /\ pc'[Core] = "uDisable"
    BY <1>3, <2>1 DEF ProbeRegion, Acquire
  <2> QED BY <2>1, <2>2 DEF HeldInv
<1>4. ASSUME ProbeMap PROVE HeldInv'
  <2>1. /\ pc[Core] = "pMap" /\ bound \in Gens /\ dv[Core] = bound
        /\ UNCHANGED <<bound, pages>>
    BY <1>4 DEF ProbeMap, Acquire, CoreInv
  <2>2. \/ held' = [held EXCEPT ![bound] = @ \cup {"bar"}] /\ pc'[Core] = "pCold"
        \/ held' = held /\ pc'[Core] = "uRegion"
    BY <1>4, <2>1 DEF ProbeMap, Acquire
  <2> QED BY <2>1, <2>2 DEF HeldInv
<1>5. ASSUME ProbeCold PROVE HeldInv'
  BY <1>5 DEF ProbeCold, HeldInv, CoreInv, Resources
<1>6. ASSUME ProbeAlloc PROVE HeldInv'
  <2>1. /\ pc[Core] = "pAlloc" /\ bound \in Gens /\ dv[Core] = bound
        /\ UNCHANGED <<bound, held>>
    BY <1>6 DEF ProbeAlloc, CoreInv
  <2>2. /\ pc'[Core] \in {"pRegister", "pAlloc", "uFree"}
        /\ \A g \in Gens : g # bound => pages'[g] = pages[g]
    BY <1>6, <2>1 DEF ProbeAlloc
  <2> QED BY <2>1, <2>2 DEF HeldInv
<1>7. ASSUME ProbeRegister PROVE HeldInv'
  BY <1>7 DEF ProbeRegister, HeldInv, CoreInv, Resources
<1>8. ASSUME RemoveCall PROVE HeldInv'
  BY <1>8 DEF RemoveCall, HeldInv, CoreInv, Resources
<1>9. ASSUME RemoveDeregister PROVE HeldInv'
  BY <1>9 DEF RemoveDeregister, HeldInv, CoreInv, Resources
<1>10. ASSUME RemoveLock PROVE HeldInv'
  BY <1>10 DEF RemoveLock, HeldInv, CoreInv, Resources
<1>11. ASSUME FreePages PROVE HeldInv'
  BY <1>11 DEF FreePages, HeldInv, CoreInv, Resources
<1>12. ASSUME UnmapBar PROVE HeldInv'
  BY <1>12 DEF UnmapBar, ReleaseResource, HeldInv, CoreInv, Resources
<1>13. ASSUME ReleaseRegion PROVE HeldInv'
  BY <1>13 DEF ReleaseRegion, ReleaseResource, HeldInv, CoreInv, Resources
<1>14. ASSUME DisableDevice PROVE HeldInv'
  BY <1>14 DEF DisableDevice, ReleaseResource, HeldInv, CoreInv, Resources
<1>15. ASSUME RemoveUnlock PROVE HeldInv'
  <2>1. bound # 0 => bound \in Gens /\ held[bound] = {} /\ pages[bound] = {}
    <3> SUFFICES ASSUME bound # 0 PROVE bound \in Gens /\ held[bound] = {} /\ pages[bound] = {}
      OBVIOUS
    <3>1. bound \in Gens /\ held[bound] \subseteq Resources
      OBVIOUS
    <3>2. \A r \in Resources : r \notin held[bound]
      BY <1>15 DEF RemoveUnlock, HeldInv, Resources
    <3>3. pages[bound] = {}
      BY <1>15 DEF RemoveUnlock, HeldInv
    <3> QED BY <3>1, <3>2, <3>3
  <2> QED BY <1>15, <2>1 DEF RemoveUnlock, HeldInv
<1>16. ASSUME PutDevice PROVE HeldInv'
  <2>1. bound # 0 => bound \in Gens /\ held[bound] = {} /\ pages[bound] = {}
    <3> SUFFICES ASSUME bound # 0 PROVE bound \in Gens /\ held[bound] = {} /\ pages[bound] = {}
      OBVIOUS
    <3>1. bound \in Gens /\ held[bound] \subseteq Resources
      OBVIOUS
    <3>2. \A r \in Resources : r \notin held[bound]
      BY <1>16 DEF PutDevice, KrefPut, HeldInv, Resources
    <3>3. pages[bound] = {}
      BY <1>16 DEF PutDevice, KrefPut, HeldInv
    <3> QED BY <3>1, <3>2, <3>3
  <2> QED BY <1>16, <2>1 DEF PutDevice, KrefPut, HeldInv
<1>17. ASSUME TdInt(Core) PROVE HeldInv'
  BY <1>17 DEF TdInt, HeldInv, CoreInv, Resources
<1>18. ASSUME TdReset(Core) PROVE HeldInv'
  BY <1>18 DEF TdReset, HeldInv, CoreInv, Resources
<1>19. ASSUME TdGlobal(Core) PROVE HeldInv'
  BY <1>19 DEF TdGlobal, HeldInv, CoreInv, Resources
<1>20. ASSUME TdClear(Core) PROVE HeldInv'
  BY <1>20 DEF TdClear, HeldInv, CoreInv, Resources
<1>21. ASSUME TdCold(Core) PROVE HeldInv'
  BY <1>21 DEF TdCold, HeldInv, CoreInv, Resources
<1>22. ASSUME TdMaster(Core) PROVE HeldInv'
  BY <1>22 DEF TdMaster, HeldInv, CoreInv, Resources
<1>23. ASSUME TdCheck(Core) PROVE HeldInv'
  BY <1>23 DEF TdCheck, HeldInv, CoreInv, Resources
<1> HIDE DEF Owners, TypeOK, HostTypeOK, Actors
<1> QED
  BY <1>c, <1>d, <1>1, <1>2, <1>3, <1>4, <1>5, <1>6, <1>7, <1>8, <1>9, <1>10, <1>11, <1>12, <1>13, <1>14, <1>15, <1>16, <1>17, <1>18, <1>19, <1>20, <1>21, <1>22, <1>23
     DEF Next, CoreCall, CoreStep, TeardownStep

\* uad2_remove sets removing as it takes the mutex and releases the mutex only
\* when it gives up the binding.
LEMMA CoreOwnsStep ==
  ASSUME Owners, Owners', CoreOwns, [Next]_vars
  PROVE  CoreOwns'
<1>0. TypeOK
  BY DEF Owners
<1>c. ASSUME NEW c \in Clients, ClientCall(c) \/ ClientStep(c) PROVE CoreOwns'
  <2>1. ClientKeeps(c) /\ Waits(Core)
    BY <1>0, <1>c, ClientFrame, ActorAssumption DEF ClientKeeps, Actors
  <2>2. CoreHolds' = CoreHolds
    BY <2>1 DEF Waits, CoreHolds
  <2> QED BY <2>1, <2>2, ActorAssumption DEF ClientKeeps, Waits, CoreOwns, Actors
<1>d. ASSUME Card \/ UNCHANGED vars PROVE CoreOwns'
  BY <1>d DEF Card, hostVars, vars, busVars, devVars, argVars, CoreOwns, CoreHolds
<1> USE CardAssumption, ActorAssumption DEF Owners, TypeOK, HostTypeOK, At, Goto, Finish,
        busVars, devVars, argVars, loopVars, Actors, Gens
<1>1. ASSUME ProbeCall PROVE CoreOwns'
  BY <1>1 DEF ProbeCall, CoreOwns, CoreHolds, CoreInv, GenInv, LoopOK, TeardownPCs, ProbePCs, UnwindPCs
<1>2. ASSUME ProbeEnable PROVE CoreOwns'
  BY <1>2 DEF ProbeEnable, Acquire, CoreOwns, CoreHolds, CoreInv, GenInv, LoopOK, TeardownPCs, ProbePCs, UnwindPCs
<1>3. ASSUME ProbeRegion PROVE CoreOwns'
  BY <1>3 DEF ProbeRegion, Acquire, CoreOwns, CoreHolds, CoreInv, GenInv, LoopOK, TeardownPCs, ProbePCs, UnwindPCs
<1>4. ASSUME ProbeMap PROVE CoreOwns'
  BY <1>4 DEF ProbeMap, Acquire, CoreOwns, CoreHolds, CoreInv, GenInv, LoopOK, TeardownPCs, ProbePCs, UnwindPCs
<1>5. ASSUME ProbeCold PROVE CoreOwns'
  BY <1>5 DEF ProbeCold, CoreOwns, CoreHolds, CoreInv, GenInv, LoopOK, TeardownPCs, ProbePCs, UnwindPCs
<1>6. ASSUME ProbeAlloc PROVE CoreOwns'
  BY <1>6 DEF ProbeAlloc, CoreOwns, CoreHolds, CoreInv, GenInv, LoopOK, TeardownPCs, ProbePCs, UnwindPCs
<1>7. ASSUME ProbeRegister PROVE CoreOwns'
  BY <1>7 DEF ProbeRegister, CoreOwns, CoreHolds, CoreInv, GenInv, LoopOK, TeardownPCs, ProbePCs, UnwindPCs
<1>8. ASSUME RemoveCall PROVE CoreOwns'
  BY <1>8 DEF RemoveCall, CoreOwns, CoreHolds, CoreInv, GenInv, LoopOK, TeardownPCs, ProbePCs, UnwindPCs
<1>9. ASSUME RemoveDeregister PROVE CoreOwns'
  BY <1>9 DEF RemoveDeregister, CoreOwns, CoreHolds, CoreInv, GenInv, LoopOK, TeardownPCs, ProbePCs, UnwindPCs
<1>10. ASSUME RemoveLock PROVE CoreOwns'
  BY <1>10 DEF RemoveLock, CoreOwns, CoreHolds, CoreInv, GenInv, LoopOK, TeardownPCs, ProbePCs, UnwindPCs
<1>11. ASSUME FreePages PROVE CoreOwns'
  BY <1>11 DEF FreePages, CoreOwns, CoreHolds, CoreInv, GenInv, LoopOK, TeardownPCs, ProbePCs, UnwindPCs
<1>12. ASSUME UnmapBar PROVE CoreOwns'
  BY <1>12 DEF UnmapBar, ReleaseResource, CoreOwns, CoreHolds, CoreInv, GenInv, LoopOK, TeardownPCs, ProbePCs, UnwindPCs
<1>13. ASSUME ReleaseRegion PROVE CoreOwns'
  BY <1>13 DEF ReleaseRegion, ReleaseResource, CoreOwns, CoreHolds, CoreInv, GenInv, LoopOK, TeardownPCs, ProbePCs, UnwindPCs
<1>14. ASSUME DisableDevice PROVE CoreOwns'
  BY <1>14 DEF DisableDevice, ReleaseResource, CoreOwns, CoreHolds, CoreInv, GenInv, LoopOK, TeardownPCs, ProbePCs, UnwindPCs
<1>15. ASSUME RemoveUnlock PROVE CoreOwns'
  BY <1>15 DEF RemoveUnlock, CoreOwns, CoreHolds, CoreInv, GenInv, LoopOK, TeardownPCs, ProbePCs, UnwindPCs
<1>16. ASSUME PutDevice PROVE CoreOwns'
  BY <1>16 DEF PutDevice, KrefPut, CoreOwns, CoreHolds, CoreInv, GenInv, LoopOK, TeardownPCs, ProbePCs, UnwindPCs
<1>17. ASSUME TdInt(Core) PROVE CoreOwns'
  BY <1>17 DEF TdInt, CoreOwns, CoreHolds, CoreInv, GenInv, LoopOK, TeardownPCs, ProbePCs, UnwindPCs
<1>18. ASSUME TdReset(Core) PROVE CoreOwns'
  BY <1>18 DEF TdReset, CoreOwns, CoreHolds, CoreInv, GenInv, LoopOK, TeardownPCs, ProbePCs, UnwindPCs
<1>19. ASSUME TdGlobal(Core) PROVE CoreOwns'
  BY <1>19 DEF TdGlobal, CoreOwns, CoreHolds, CoreInv, GenInv, LoopOK, TeardownPCs, ProbePCs, UnwindPCs
<1>20. ASSUME TdClear(Core) PROVE CoreOwns'
  BY <1>20 DEF TdClear, CoreOwns, CoreHolds, CoreInv, GenInv, LoopOK, TeardownPCs, ProbePCs, UnwindPCs
<1>21. ASSUME TdCold(Core) PROVE CoreOwns'
  BY <1>21 DEF TdCold, CoreOwns, CoreHolds, CoreInv, GenInv, LoopOK, TeardownPCs, ProbePCs, UnwindPCs
<1>22. ASSUME TdMaster(Core) PROVE CoreOwns'
  BY <1>22 DEF TdMaster, CoreOwns, CoreHolds, CoreInv, GenInv, LoopOK, TeardownPCs, ProbePCs, UnwindPCs
<1>23. ASSUME TdCheck(Core) PROVE CoreOwns'
  BY <1>23 DEF TdCheck, CoreOwns, CoreHolds, CoreInv, GenInv, LoopOK, TeardownPCs, ProbePCs, UnwindPCs
<1> HIDE DEF Owners, TypeOK, HostTypeOK, Actors
<1> QED
  BY <1>c, <1>d, <1>1, <1>2, <1>3, <1>4, <1>5, <1>6, <1>7, <1>8, <1>9, <1>10, <1>11, <1>12, <1>13, <1>14, <1>15, <1>16, <1>17, <1>18, <1>19, <1>20, <1>21, <1>22, <1>23
     DEF Next, CoreCall, CoreStep, TeardownStep

----------------------------------------------------------------------------
(* Bus mastering.                                                          *)

\* A step that stays among the control points with bus mastering on, or outside
\* them.
LEMMA MasterKeep ==
  ASSUME MasterInv, NEW a \in Actors,
         UNCHANGED <<master, bound, started>>,
         \A b \in Actors \ {a} : pc'[b] = pc[b],
         pc[a] \in MasterPCs => pc'[a] \in MasterPCs,
         pc'[a] \in MasterPCs => pc[a] \in MasterPCs \/ (bound # 0 /\ started[bound])
  PROVE  MasterInv'
BY DEF MasterInv

\* uad2_start_locked turns bus mastering on first, the teardown turns it off
\* together with started.
LEMMA MasterStep ==
  ASSUME Owners, Usage, MasterInv, [Next]_vars
  PROVE  MasterInv'
<1> USE CardAssumption, ActorAssumption DEF Owners, Usage, TypeOK, HostTypeOK, At, Goto, Finish,
        busVars, devVars, argVars, loopVars, Actors, Gens
<1>1. ASSUME NEW c \in Clients, OpenCall(c) PROVE MasterInv'
  <2>1. UNCHANGED <<master, bound, started>> /\ \A b \in Actors \ {c} : pc'[b] = pc[b]
    BY <1>1 DEF OpenCall
  <2>2. /\ pc[c] \in MasterPCs => pc'[c] \in MasterPCs
        /\ pc'[c] \in MasterPCs => pc[c] \in MasterPCs \/ (bound # 0 /\ started[bound])
    BY <1>1 DEF OpenCall, MasterPCs, StartPCs, TeardownPCs
  <2> QED BY <2>1, <2>2, MasterKeep
<1>2. ASSUME NEW c \in Clients, Open(c) PROVE MasterInv'
  <2>1. UNCHANGED <<master, bound, started>> /\ \A b \in Actors \ {c} : pc'[b] = pc[b]
    BY <1>2 DEF Open
  <2>2. /\ pc[c] \in MasterPCs => pc'[c] \in MasterPCs
        /\ pc'[c] \in MasterPCs => pc[c] \in MasterPCs \/ (bound # 0 /\ started[bound])
    BY <1>2 DEF Open, MasterPCs, StartPCs, TeardownPCs
  <2> QED BY <2>1, <2>2, MasterKeep
<1>3. ASSUME NEW c \in Clients, Release(c) PROVE MasterInv'
  <2>1. UNCHANGED <<master, bound, started>> /\ \A b \in Actors \ {c} : pc'[b] = pc[b]
    BY <1>3 DEF Release, KrefPut
  <2>2. /\ pc[c] \in MasterPCs => pc'[c] \in MasterPCs
        /\ pc'[c] \in MasterPCs => pc[c] \in MasterPCs \/ (bound # 0 /\ started[bound])
    BY <1>3 DEF Release, KrefPut, MasterPCs, StartPCs, TeardownPCs
  <2> QED BY <2>1, <2>2, MasterKeep
<1>4. ASSUME NEW c \in Clients, IoctlCall(c) PROVE MasterInv'
  <2>1. UNCHANGED <<master, bound, started>> /\ \A b \in Actors \ {c} : pc'[b] = pc[b]
    BY <1>4 DEF IoctlCall
  <2>2. /\ pc[c] \in MasterPCs => pc'[c] \in MasterPCs
        /\ pc'[c] \in MasterPCs => pc[c] \in MasterPCs \/ (bound # 0 /\ started[bound])
    BY <1>4 DEF IoctlCall, MasterPCs, StartPCs, TeardownPCs
  <2> QED BY <2>1, <2>2, MasterKeep
<1>5. ASSUME NEW c \in Clients, Lock(c) PROVE MasterInv'
  <2>1. UNCHANGED <<master, bound, started>> /\ \A b \in Actors \ {c} : pc'[b] = pc[b]
    BY <1>5 DEF Lock
  <2>2. /\ pc[c] \in MasterPCs => pc'[c] \in MasterPCs
        /\ pc'[c] \in MasterPCs => pc[c] \in MasterPCs \/ (bound # 0 /\ started[bound])
    BY <1>5 DEF Lock, MasterPCs, StartPCs, TeardownPCs
  <2> QED BY <2>1, <2>2, MasterKeep
<1>6. ASSUME NEW c \in Clients, Query(c) PROVE MasterInv'
  <2>1. UNCHANGED <<master, bound, started>> /\ \A b \in Actors \ {c} : pc'[b] = pc[b]
    BY <1>6 DEF Query
  <2>2. /\ pc[c] \in MasterPCs => pc'[c] \in MasterPCs
        /\ pc'[c] \in MasterPCs => pc[c] \in MasterPCs \/ (bound # 0 /\ started[bound])
    BY <1>6 DEF Query, MasterPCs, StartPCs, TeardownPCs
  <2> QED BY <2>1, <2>2, MasterKeep
<1>7. ASSUME NEW c \in Clients, NotCapable(c) PROVE MasterInv'
  <2>1. UNCHANGED <<master, bound, started>> /\ \A b \in Actors \ {c} : pc'[b] = pc[b]
    BY <1>7 DEF NotCapable
  <2>2. /\ pc[c] \in MasterPCs => pc'[c] \in MasterPCs
        /\ pc'[c] \in MasterPCs => pc[c] \in MasterPCs \/ (bound # 0 /\ started[bound])
    BY <1>7 DEF NotCapable, MasterPCs, StartPCs, TeardownPCs
  <2> QED BY <2>1, <2>2, MasterKeep
<1>8. ASSUME NEW c \in Clients, Unlock(c) PROVE MasterInv'
  <2>1. UNCHANGED <<master, bound, started>> /\ \A b \in Actors \ {c} : pc'[b] = pc[b]
    BY <1>8 DEF Unlock
  <2>2. /\ pc[c] \in MasterPCs => pc'[c] \in MasterPCs
        /\ pc'[c] \in MasterPCs => pc[c] \in MasterPCs \/ (bound # 0 /\ started[bound])
    BY <1>8 DEF Unlock, MasterPCs, StartPCs, TeardownPCs
  <2> QED BY <2>1, <2>2, MasterKeep
<1>9. ASSUME NEW c \in Clients, StartEnter(c) PROVE MasterInv'
  <2>1. UNCHANGED <<master, bound, started>> /\ \A b \in Actors \ {c} : pc'[b] = pc[b]
    BY <1>9 DEF StartEnter
  <2>2. /\ pc[c] \in MasterPCs => pc'[c] \in MasterPCs
        /\ pc'[c] \in MasterPCs => pc[c] \in MasterPCs \/ (bound # 0 /\ started[bound])
    BY <1>9 DEF StartEnter, MasterPCs, StartPCs, TeardownPCs
  <2> QED BY <2>1, <2>2, MasterKeep
<1>10. ASSUME NEW c \in Clients, SetMaster(c) PROVE MasterInv'
  <2>1. master' = TRUE /\ pc'[c] = "quiesce" /\ UNCHANGED <<bound, started>>
    BY <1>10 DEF SetMaster
  <2>2. "quiesce" \in MasterPCs
    BY DEF MasterPCs, StartPCs
  <2> QED BY <2>1, <2>2 DEF MasterInv
<1>11. ASSUME NEW c \in Clients, Quiesce(c) PROVE MasterInv'
  <2>1. UNCHANGED <<master, bound, started>> /\ \A b \in Actors \ {c} : pc'[b] = pc[b]
    BY <1>11 DEF Quiesce
  <2>2. /\ pc[c] \in MasterPCs => pc'[c] \in MasterPCs
        /\ pc'[c] \in MasterPCs => pc[c] \in MasterPCs \/ (bound # 0 /\ started[bound])
    BY <1>11 DEF Quiesce, MasterPCs, StartPCs, TeardownPCs
  <2> QED BY <2>1, <2>2, MasterKeep
<1>12. ASSUME NEW c \in Clients, ResetGlobal(c) PROVE MasterInv'
  <2>1. UNCHANGED <<master, bound, started>> /\ \A b \in Actors \ {c} : pc'[b] = pc[b]
    BY <1>12 DEF ResetGlobal
  <2>2. /\ pc[c] \in MasterPCs => pc'[c] \in MasterPCs
        /\ pc'[c] \in MasterPCs => pc[c] \in MasterPCs \/ (bound # 0 /\ started[bound])
    BY <1>12 DEF ResetGlobal, MasterPCs, StartPCs, TeardownPCs
  <2> QED BY <2>1, <2>2, MasterKeep
<1>13. ASSUME NEW c \in Clients, GlobalOnly(c) PROVE MasterInv'
  <2>1. UNCHANGED <<master, bound, started>> /\ \A b \in Actors \ {c} : pc'[b] = pc[b]
    BY <1>13 DEF GlobalOnly
  <2>2. /\ pc[c] \in MasterPCs => pc'[c] \in MasterPCs
        /\ pc'[c] \in MasterPCs => pc[c] \in MasterPCs \/ (bound # 0 /\ started[bound])
    BY <1>13 DEF GlobalOnly, MasterPCs, StartPCs, TeardownPCs
  <2> QED BY <2>1, <2>2, MasterKeep
<1>14. ASSUME NEW c \in Clients, RingIndex(c) PROVE MasterInv'
  <2>1. UNCHANGED <<master, bound, started>> /\ \A b \in Actors \ {c} : pc'[b] = pc[b]
    BY <1>14 DEF RingIndex
  <2>2. /\ pc[c] \in MasterPCs => pc'[c] \in MasterPCs
        /\ pc'[c] \in MasterPCs => pc[c] \in MasterPCs \/ (bound # 0 /\ started[bound])
    BY <1>14 DEF RingIndex, MasterPCs, StartPCs, TeardownPCs
  <2> QED BY <2>1, <2>2, MasterKeep
<1>15. ASSUME NEW c \in Clients, RingDesc(c) PROVE MasterInv'
  <2>1. UNCHANGED <<master, bound, started>> /\ \A b \in Actors \ {c} : pc'[b] = pc[b]
    BY <1>15 DEF RingDesc
  <2>2. /\ pc[c] \in MasterPCs => pc'[c] \in MasterPCs
        /\ pc'[c] \in MasterPCs => pc[c] \in MasterPCs \/ (bound # 0 /\ started[bound])
    BY <1>15 DEF RingDesc, MasterPCs, StartPCs, TeardownPCs
  <2> QED BY <2>1, <2>2, MasterKeep
<1>16. ASSUME NEW c \in Clients, RingDone(c) PROVE MasterInv'
  <2>1. UNCHANGED <<master, bound, started>> /\ \A b \in Actors \ {c} : pc'[b] = pc[b]
    BY <1>16 DEF RingDone
  <2>2. /\ pc[c] \in MasterPCs => pc'[c] \in MasterPCs
        /\ pc'[c] \in MasterPCs => pc[c] \in MasterPCs \/ (bound # 0 /\ started[bound])
    BY <1>16 DEF RingDone, MasterPCs, StartPCs, TeardownPCs
  <2> QED BY <2>1, <2>2, MasterKeep
<1>17. ASSUME NEW c \in Clients, Enable(c) PROVE MasterInv'
  <2>1. UNCHANGED <<master, bound, started>> /\ \A b \in Actors \ {c} : pc'[b] = pc[b]
    BY <1>17 DEF Enable
  <2>2. /\ pc[c] \in MasterPCs => pc'[c] \in MasterPCs
        /\ pc'[c] \in MasterPCs => pc[c] \in MasterPCs \/ (bound # 0 /\ started[bound])
    BY <1>17 DEF Enable, MasterPCs, StartPCs, TeardownPCs
  <2> QED BY <2>1, <2>2, MasterKeep
<1>18. ASSUME NEW c \in Clients, Verify(c) PROVE MasterInv'
  <2>1. /\ pc[c] = "verify" /\ dv[c] = bound /\ bound \in Gens /\ UNCHANGED <<master, bound>>
        /\ \A b \in Actors \ {c} : pc'[b] = pc[b]
    BY <1>18, ActiveClient DEF Verify, ActivePCs, StartPCs
  <2>2. \/ started' = [started EXCEPT ![bound] = TRUE]
        \/ started' = started /\ pc'[c] = "tdInt"
    BY <1>18, <2>1 DEF Verify
  <2>3. "verify" \in MasterPCs /\ "tdInt" \in MasterPCs
    BY DEF MasterPCs, StartPCs, TeardownPCs
  <2>4. master
    BY <2>1, <2>3 DEF MasterInv
  <2> QED BY <2>1, <2>2, <2>3, <2>4 DEF MasterInv
<1>19. ASSUME NEW c \in Clients, StopEnter(c) PROVE MasterInv'
  <2>1. UNCHANGED <<master, bound, started>> /\ \A b \in Actors \ {c} : pc'[b] = pc[b]
    BY <1>19 DEF StopEnter
  <2>2. /\ pc[c] \in MasterPCs => pc'[c] \in MasterPCs
        /\ pc'[c] \in MasterPCs => pc[c] \in MasterPCs \/ (bound # 0 /\ started[bound])
    BY <1>19, ActiveClient DEF StopEnter, MasterPCs, StartPCs, TeardownPCs, ActivePCs
  <2> QED BY <2>1, <2>2, MasterKeep
<1>20. ASSUME NEW c \in Clients, ResetEnter(c) PROVE MasterInv'
  <2>1. UNCHANGED <<master, bound, started>> /\ \A b \in Actors \ {c} : pc'[b] = pc[b]
    BY <1>20 DEF ResetEnter
  <2>2. /\ pc[c] \in MasterPCs => pc'[c] \in MasterPCs
        /\ pc'[c] \in MasterPCs => pc[c] \in MasterPCs \/ (bound # 0 /\ started[bound])
    BY <1>20 DEF ResetEnter, MasterPCs, StartPCs, TeardownPCs
  <2> QED BY <2>1, <2>2, MasterKeep
<1>21. ASSUME NEW c \in Clients, Pulse(c) PROVE MasterInv'
  <2>1. UNCHANGED <<master, bound, started>> /\ \A b \in Actors \ {c} : pc'[b] = pc[b]
    BY <1>21 DEF Pulse
  <2>2. /\ pc[c] \in MasterPCs => pc'[c] \in MasterPCs
        /\ pc'[c] \in MasterPCs => pc[c] \in MasterPCs \/ (bound # 0 /\ started[bound])
    BY <1>21 DEF Pulse, MasterPCs, StartPCs, TeardownPCs
  <2> QED BY <2>1, <2>2, MasterKeep
<1>22. ASSUME NEW c \in Clients, Unpulse(c) PROVE MasterInv'
  <2>1. UNCHANGED <<master, bound, started>> /\ \A b \in Actors \ {c} : pc'[b] = pc[b]
    BY <1>22 DEF Unpulse
  <2>2. /\ pc[c] \in MasterPCs => pc'[c] \in MasterPCs
        /\ pc'[c] \in MasterPCs => pc[c] \in MasterPCs \/ (bound # 0 /\ started[bound])
    BY <1>22 DEF Unpulse, MasterPCs, StartPCs, TeardownPCs
  <2> QED BY <2>1, <2>2, MasterKeep
<1>23. ASSUME NEW c \in Clients, Reenable(c) PROVE MasterInv'
  <2>1. UNCHANGED <<master, bound, started>> /\ \A b \in Actors \ {c} : pc'[b] = pc[b]
    BY <1>23 DEF Reenable
  <2>2. /\ pc[c] \in MasterPCs => pc'[c] \in MasterPCs
        /\ pc'[c] \in MasterPCs => pc[c] \in MasterPCs \/ (bound # 0 /\ started[bound])
    BY <1>23 DEF Reenable, MasterPCs, StartPCs, TeardownPCs
  <2> QED BY <2>1, <2>2, MasterKeep
<1>24. ASSUME NEW c \in Clients, ResetCheck(c) PROVE MasterInv'
  <2>1. UNCHANGED <<master, bound, started>> /\ \A b \in Actors \ {c} : pc'[b] = pc[b]
    BY <1>24 DEF ResetCheck
  <2>2. /\ pc[c] \in MasterPCs => pc'[c] \in MasterPCs
        /\ pc'[c] \in MasterPCs => pc[c] \in MasterPCs \/ (bound # 0 /\ started[bound])
    BY <1>24 DEF ResetCheck, MasterPCs, StartPCs, TeardownPCs
  <2> QED BY <2>1, <2>2, MasterKeep
<1>25. ASSUME NEW a \in Actors, TdInt(a) PROVE MasterInv'
  <2>1. UNCHANGED <<master, bound, started>> /\ \A b \in Actors \ {a} : pc'[b] = pc[b]
    BY <1>25 DEF TdInt
  <2>2. /\ pc[a] \in MasterPCs => pc'[a] \in MasterPCs
        /\ pc'[a] \in MasterPCs => pc[a] \in MasterPCs \/ (bound # 0 /\ started[bound])
    BY <1>25 DEF TdInt, MasterPCs, StartPCs, TeardownPCs
  <2> QED BY <2>1, <2>2, MasterKeep
<1>26. ASSUME NEW a \in Actors, TdReset(a) PROVE MasterInv'
  <2>1. UNCHANGED <<master, bound, started>> /\ \A b \in Actors \ {a} : pc'[b] = pc[b]
    BY <1>26 DEF TdReset
  <2>2. /\ pc[a] \in MasterPCs => pc'[a] \in MasterPCs
        /\ pc'[a] \in MasterPCs => pc[a] \in MasterPCs \/ (bound # 0 /\ started[bound])
    BY <1>26 DEF TdReset, MasterPCs, StartPCs, TeardownPCs
  <2> QED BY <2>1, <2>2, MasterKeep
<1>27. ASSUME NEW a \in Actors, TdGlobal(a) PROVE MasterInv'
  <2>1. UNCHANGED <<master, bound, started>> /\ \A b \in Actors \ {a} : pc'[b] = pc[b]
    BY <1>27 DEF TdGlobal
  <2>2. /\ pc[a] \in MasterPCs => pc'[a] \in MasterPCs
        /\ pc'[a] \in MasterPCs => pc[a] \in MasterPCs \/ (bound # 0 /\ started[bound])
    BY <1>27 DEF TdGlobal, MasterPCs, StartPCs, TeardownPCs
  <2> QED BY <2>1, <2>2, MasterKeep
<1>28. ASSUME NEW a \in Actors, TdClear(a) PROVE MasterInv'
  <2>1. UNCHANGED <<master, bound, started>> /\ \A b \in Actors \ {a} : pc'[b] = pc[b]
    BY <1>28 DEF TdClear
  <2>2. /\ pc[a] \in MasterPCs => pc'[a] \in MasterPCs
        /\ pc'[a] \in MasterPCs => pc[a] \in MasterPCs \/ (bound # 0 /\ started[bound])
    BY <1>28 DEF TdClear, MasterPCs, StartPCs, TeardownPCs
  <2> QED BY <2>1, <2>2, MasterKeep
<1>29. ASSUME NEW a \in Actors, TdCold(a) PROVE MasterInv'
  <2>1. UNCHANGED <<master, bound, started>> /\ \A b \in Actors \ {a} : pc'[b] = pc[b]
    BY <1>29 DEF TdCold
  <2>2. /\ pc[a] \in MasterPCs => pc'[a] \in MasterPCs
        /\ pc'[a] \in MasterPCs => pc[a] \in MasterPCs \/ (bound # 0 /\ started[bound])
    BY <1>29 DEF TdCold, MasterPCs, StartPCs, TeardownPCs
  <2> QED BY <2>1, <2>2, MasterKeep
<1>30. ASSUME NEW a \in Actors, TdMaster(a) PROVE MasterInv'
  <2>1. /\ pc[a] \in TeardownPCs /\ master' = FALSE /\ UNCHANGED bound
        /\ \A b \in Actors \ {a} : pc'[b] = pc[b]
    BY <1>30 DEF TdMaster, TeardownPCs
  <2>2. /\ bound # 0 => dv[a] = bound /\ bound \in Gens
        /\ \A b \in Actors \ {a} : pc[b] \notin ActivePCs
    BY <2>1, Alone DEF LoopOK, CorePCs, ActivePCs, TeardownPCs
  <2>3. bound # 0 => ~ started'[bound]
    BY <1>30, <2>1, <2>2 DEF TdMaster, StartedInv, LoopOK
  <2>4. pc'[a] \notin MasterPCs
    BY <1>30 DEF TdMaster, MasterPCs, StartPCs, TeardownPCs
  <2>5. MasterPCs \subseteq ActivePCs
    BY DEF MasterPCs, ActivePCs
  <2> QED BY <2>1, <2>2, <2>3, <2>4, <2>5 DEF MasterInv
<1>31. ASSUME NEW a \in Actors, TdCheck(a) PROVE MasterInv'
  <2>1. UNCHANGED <<master, bound, started>> /\ \A b \in Actors \ {a} : pc'[b] = pc[b]
    BY <1>31 DEF TdCheck
  <2>2. /\ pc[a] \in MasterPCs => pc'[a] \in MasterPCs
        /\ pc'[a] \in MasterPCs => pc[a] \in MasterPCs \/ (bound # 0 /\ started[bound])
    BY <1>31 DEF TdCheck, MasterPCs, StartPCs, TeardownPCs
  <2> QED BY <2>1, <2>2, MasterKeep
<1>32. ASSUME ProbeCall PROVE MasterInv'
  <2>1. /\ pc[Core] = "idle" /\ bound = 0 /\ bound' \in Gens /\ UNCHANGED <<master, started>>
        /\ \A b \in Actors \ {Core} : pc'[b] = pc[b]
    BY <1>32 DEF ProbeCall
  <2>2. pc[Core] \notin MasterPCs /\ pc'[Core] \notin MasterPCs /\ ~ started[bound']
    BY <1>32, <2>1 DEF ProbeCall, MasterPCs, StartPCs, TeardownPCs, StartedInv
  <2> QED BY <2>1, <2>2 DEF MasterInv
<1>33. ASSUME ProbeEnable PROVE MasterInv'
  <2>1. UNCHANGED <<master, bound, started>> /\ \A b \in Actors \ {Core} : pc'[b] = pc[b]
    BY <1>33 DEF ProbeEnable, Acquire
  <2>2. /\ pc[Core] \in MasterPCs => pc'[Core] \in MasterPCs
        /\ pc'[Core] \in MasterPCs => pc[Core] \in MasterPCs \/ (bound # 0 /\ started[bound])
    BY <1>33 DEF ProbeEnable, Acquire, MasterPCs, StartPCs, TeardownPCs
  <2> QED BY <2>1, <2>2, MasterKeep
<1>34. ASSUME ProbeRegion PROVE MasterInv'
  <2>1. UNCHANGED <<master, bound, started>> /\ \A b \in Actors \ {Core} : pc'[b] = pc[b]
    BY <1>34 DEF ProbeRegion, Acquire
  <2>2. /\ pc[Core] \in MasterPCs => pc'[Core] \in MasterPCs
        /\ pc'[Core] \in MasterPCs => pc[Core] \in MasterPCs \/ (bound # 0 /\ started[bound])
    BY <1>34 DEF ProbeRegion, Acquire, MasterPCs, StartPCs, TeardownPCs
  <2> QED BY <2>1, <2>2, MasterKeep
<1>35. ASSUME ProbeMap PROVE MasterInv'
  <2>1. UNCHANGED <<master, bound, started>> /\ \A b \in Actors \ {Core} : pc'[b] = pc[b]
    BY <1>35 DEF ProbeMap, Acquire
  <2>2. /\ pc[Core] \in MasterPCs => pc'[Core] \in MasterPCs
        /\ pc'[Core] \in MasterPCs => pc[Core] \in MasterPCs \/ (bound # 0 /\ started[bound])
    BY <1>35 DEF ProbeMap, Acquire, MasterPCs, StartPCs, TeardownPCs
  <2> QED BY <2>1, <2>2, MasterKeep
<1>36. ASSUME ProbeCold PROVE MasterInv'
  <2>1. UNCHANGED <<master, bound, started>> /\ \A b \in Actors \ {Core} : pc'[b] = pc[b]
    BY <1>36 DEF ProbeCold
  <2>2. /\ pc[Core] \in MasterPCs => pc'[Core] \in MasterPCs
        /\ pc'[Core] \in MasterPCs => pc[Core] \in MasterPCs \/ (bound # 0 /\ started[bound])
    BY <1>36 DEF ProbeCold, MasterPCs, StartPCs, TeardownPCs
  <2> QED BY <2>1, <2>2, MasterKeep
<1>37. ASSUME ProbeAlloc PROVE MasterInv'
  <2>1. UNCHANGED <<master, bound, started>> /\ \A b \in Actors \ {Core} : pc'[b] = pc[b]
    BY <1>37 DEF ProbeAlloc
  <2>2. /\ pc[Core] \in MasterPCs => pc'[Core] \in MasterPCs
        /\ pc'[Core] \in MasterPCs => pc[Core] \in MasterPCs \/ (bound # 0 /\ started[bound])
    BY <1>37 DEF ProbeAlloc, MasterPCs, StartPCs, TeardownPCs
  <2> QED BY <2>1, <2>2, MasterKeep
<1>38. ASSUME ProbeRegister PROVE MasterInv'
  <2>1. UNCHANGED <<master, bound, started>> /\ \A b \in Actors \ {Core} : pc'[b] = pc[b]
    BY <1>38 DEF ProbeRegister
  <2>2. /\ pc[Core] \in MasterPCs => pc'[Core] \in MasterPCs
        /\ pc'[Core] \in MasterPCs => pc[Core] \in MasterPCs \/ (bound # 0 /\ started[bound])
    BY <1>38 DEF ProbeRegister, MasterPCs, StartPCs, TeardownPCs
  <2> QED BY <2>1, <2>2, MasterKeep
<1>39. ASSUME RemoveCall PROVE MasterInv'
  <2>1. UNCHANGED <<master, bound, started>> /\ \A b \in Actors \ {Core} : pc'[b] = pc[b]
    BY <1>39 DEF RemoveCall
  <2>2. /\ pc[Core] \in MasterPCs => pc'[Core] \in MasterPCs
        /\ pc'[Core] \in MasterPCs => pc[Core] \in MasterPCs \/ (bound # 0 /\ started[bound])
    BY <1>39 DEF RemoveCall, MasterPCs, StartPCs, TeardownPCs
  <2> QED BY <2>1, <2>2, MasterKeep
<1>40. ASSUME RemoveDeregister PROVE MasterInv'
  <2>1. UNCHANGED <<master, bound, started>> /\ \A b \in Actors \ {Core} : pc'[b] = pc[b]
    BY <1>40 DEF RemoveDeregister
  <2>2. /\ pc[Core] \in MasterPCs => pc'[Core] \in MasterPCs
        /\ pc'[Core] \in MasterPCs => pc[Core] \in MasterPCs \/ (bound # 0 /\ started[bound])
    BY <1>40 DEF RemoveDeregister, MasterPCs, StartPCs, TeardownPCs
  <2> QED BY <2>1, <2>2, MasterKeep
<1>41. ASSUME RemoveLock PROVE MasterInv'
  <2>1. UNCHANGED <<master, bound, started>> /\ \A b \in Actors \ {Core} : pc'[b] = pc[b]
    BY <1>41 DEF RemoveLock
  <2>2. /\ pc[Core] \in MasterPCs => pc'[Core] \in MasterPCs
        /\ pc'[Core] \in MasterPCs => pc[Core] \in MasterPCs \/ (bound # 0 /\ started[bound])
    BY <1>41 DEF RemoveLock, MasterPCs, StartPCs, TeardownPCs, CoreInv
  <2> QED BY <2>1, <2>2, MasterKeep
<1>42. ASSUME FreePages PROVE MasterInv'
  <2>1. UNCHANGED <<master, bound, started>> /\ \A b \in Actors \ {Core} : pc'[b] = pc[b]
    BY <1>42 DEF FreePages
  <2>2. /\ pc[Core] \in MasterPCs => pc'[Core] \in MasterPCs
        /\ pc'[Core] \in MasterPCs => pc[Core] \in MasterPCs \/ (bound # 0 /\ started[bound])
    BY <1>42 DEF FreePages, MasterPCs, StartPCs, TeardownPCs
  <2> QED BY <2>1, <2>2, MasterKeep
<1>43. ASSUME UnmapBar PROVE MasterInv'
  <2>1. UNCHANGED <<master, bound, started>> /\ \A b \in Actors \ {Core} : pc'[b] = pc[b]
    BY <1>43 DEF UnmapBar, ReleaseResource
  <2>2. /\ pc[Core] \in MasterPCs => pc'[Core] \in MasterPCs
        /\ pc'[Core] \in MasterPCs => pc[Core] \in MasterPCs \/ (bound # 0 /\ started[bound])
    BY <1>43 DEF UnmapBar, ReleaseResource, MasterPCs, StartPCs, TeardownPCs
  <2> QED BY <2>1, <2>2, MasterKeep
<1>44. ASSUME ReleaseRegion PROVE MasterInv'
  <2>1. UNCHANGED <<master, bound, started>> /\ \A b \in Actors \ {Core} : pc'[b] = pc[b]
    BY <1>44 DEF ReleaseRegion, ReleaseResource
  <2>2. /\ pc[Core] \in MasterPCs => pc'[Core] \in MasterPCs
        /\ pc'[Core] \in MasterPCs => pc[Core] \in MasterPCs \/ (bound # 0 /\ started[bound])
    BY <1>44 DEF ReleaseRegion, ReleaseResource, MasterPCs, StartPCs, TeardownPCs
  <2> QED BY <2>1, <2>2, MasterKeep
<1>45. ASSUME DisableDevice PROVE MasterInv'
  <2>1. /\ pc[Core] = "uDisable" /\ master' = FALSE /\ UNCHANGED <<bound, started>>
        /\ \A b \in Actors \ {Core} : pc'[b] = pc[b]
    BY <1>45 DEF DisableDevice, ReleaseResource
  <2>2. bound # 0 => ~ started[bound]
    BY <2>1 DEF StartedInv, CoreInv, UnwindPCs
  <2>3. \A b \in Clients : pc[b] \notin ActivePCs
    BY <2>1, ActiveCore
  <2>4. pc'[Core] \notin MasterPCs
    BY <1>45 DEF DisableDevice, ReleaseResource, MasterPCs, StartPCs, TeardownPCs
  <2>5. MasterPCs \subseteq ActivePCs
    BY DEF MasterPCs, ActivePCs
  <2> QED BY <2>1, <2>2, <2>3, <2>4, <2>5 DEF MasterInv
<1>46. ASSUME RemoveUnlock PROVE MasterInv'
  <2>1. /\ pc[Core] \in UnwindPCs \cup {"rUnlock"} /\ pc[Core] \notin MasterPCs /\ pc'[Core] \notin MasterPCs
        /\ bound' = 0 /\ UNCHANGED <<master, started>>
        /\ \A b \in Actors \ {Core} : pc'[b] = pc[b]
    BY <1>46 DEF RemoveUnlock, UnwindPCs, MasterPCs, StartPCs, TeardownPCs
  <2>2. bound # 0 => ~ started[bound]
    BY <2>1 DEF StartedInv, CoreInv
  <2> QED BY <2>1, <2>2 DEF MasterInv
<1>47. ASSUME PutDevice PROVE MasterInv'
  <2>1. /\ pc[Core] \in UnwindPCs \cup {"rUnlock"} /\ pc[Core] \notin MasterPCs /\ pc'[Core] \notin MasterPCs
        /\ bound' = 0 /\ UNCHANGED <<master, started>>
        /\ \A b \in Actors \ {Core} : pc'[b] = pc[b]
    BY <1>47 DEF PutDevice, KrefPut, UnwindPCs, MasterPCs, StartPCs, TeardownPCs
  <2>2. bound # 0 => ~ started[bound]
    BY <2>1 DEF StartedInv, CoreInv
  <2> QED BY <2>1, <2>2 DEF MasterInv
<1>90. ASSUME Card \/ UNCHANGED vars PROVE MasterInv'
  BY <1>90 DEF Card, hostVars, vars, MasterInv
<1> HIDE DEF Owners, Usage, TypeOK, HostTypeOK, At, Goto, Finish, busVars, devVars, argVars, loopVars, Actors
<1> QED
  BY <1>1, <1>2, <1>3, <1>4, <1>5, <1>6, <1>7, <1>8, <1>9, <1>10, <1>11, <1>12, <1>13, <1>14, <1>15, <1>16, <1>17, <1>18, <1>19, <1>20, <1>21, <1>22, <1>23, <1>24, <1>25, <1>26, <1>27, <1>28, <1>29, <1>30, <1>31, <1>32, <1>33, <1>34, <1>35, <1>36, <1>37, <1>38, <1>39, <1>40, <1>41, <1>42, <1>43, <1>44, <1>45, <1>46, <1>47,
     <1>90 DEF Next, ClientCall, ClientStep, StartStep, TeardownStep, ResetStep,
     CoreCall, CoreStep, Actors

----------------------------------------------------------------------------
(* The reference count.                                                    *)

\* There are finitely many files, and the count is positive when one is open.
LEMMA FilesFinite ==
  ASSUME NEW g
  PROVE  /\ IsFiniteSet(Files(g)) /\ Cardinality(Files(g)) \in Nat
         /\ \A c \in Files(g) : Cardinality(Files(g)) > 0
<1>1. IsFiniteSet(Files(g))
  BY ActorAssumption, FS_Subset DEF Files
<1>2. Cardinality(Files(g)) \in Nat
  BY <1>1, FS_CardinalityType
<1>3. Cardinality(Files(g)) = 0 <=> Files(g) = {}
  BY <1>1, FS_EmptySet
<1> QED BY <1>1, <1>2, <1>3

\* Opening a file adds one to the files of its generation alone.
LEMMA FileOpens ==
  ASSUME file \in [Clients -> 0 .. MaxGen], NEW c \in Clients, NEW g \in Gens,
         file[c] = 0, file' = [file EXCEPT ![c] = g], NEW h \in Gens
  PROVE  Cardinality(Files(h))' = Cardinality(Files(h)) + (IF h = g THEN 1 ELSE 0)
<1>1. IsFiniteSet(Files(h)) /\ Cardinality(Files(h)) \in Nat
  BY FilesFinite
<1>2. c \notin Files(h)
  BY CardAssumption DEF Files, Gens
<1>3. CASE h = g
  <2>1. Files(h)' = Files(h) \cup {c}
    BY <1>3 DEF Files
  <2> QED BY <1>1, <1>2, <1>3, <2>1, FS_AddElement
<1>4. CASE h # g
  <2>1. Files(h)' = Files(h)
    BY <1>2, <1>4 DEF Files
  <2> QED BY <1>1, <1>4, <2>1
<1> QED BY <1>3, <1>4

\* Closing a file takes one from the files of its generation alone.
LEMMA FileCloses ==
  ASSUME file \in [Clients -> 0 .. MaxGen], NEW c \in Clients,
         file[c] # 0, file' = [file EXCEPT ![c] = 0], NEW h \in Gens
  PROVE  Cardinality(Files(h))' = Cardinality(Files(h)) - (IF h = file[c] THEN 1 ELSE 0)
<1>1. IsFiniteSet(Files(h)) /\ Cardinality(Files(h)) \in Nat
  BY FilesFinite
<1>2. h # 0
  BY CardAssumption DEF Gens
<1>3. CASE h = file[c]
  <2>1. Files(h)' = Files(h) \ {c} /\ c \in Files(h)
    BY <1>2, <1>3 DEF Files
  <2> QED BY <1>1, <1>3, <2>1, FS_RemoveElement
<1>4. CASE h # file[c]
  <2>1. Files(h)' = Files(h)
    BY <1>2, <1>4 DEF Files
  <2> QED BY <1>1, <1>4, <2>1
<1> QED BY <1>3, <1>4

\* A system call that neither opens nor closes a file keeps the count.
LEMMA RefKeep ==
  ASSUME RefInv, NEW c \in Clients, ClientKeeps(c), UNCHANGED <<ref, file>>,
         \/ pc'[c] = "idle"
         \/ /\ pc[c] \notin {"idle", "open"} /\ pc'[c] \notin {"idle", "open"}
            /\ dv'[c] = dv[c]
  PROVE  RefInv'
<1>1. Waits(Core) /\ \A b \in Clients \ {c} : Waits(b)
  BY ActorAssumption DEF ClientKeeps, Actors
<1>2. \A g \in Gens : Files(g)' = Files(g)
  BY DEF Files
<1>3. ASSUME NEW b \in Clients
      PROVE  /\ pc'[b] = "open" => misc' # 0 /\ dv'[b] = misc' /\ file'[b] = 0
             /\ pc'[b] \notin {"idle", "open"} => dv'[b] = file'[b]
  <2>1. CASE b = c
    BY <2>1 DEF RefInv
  <2>2. CASE b # c
    BY <1>1, <2>2 DEF RefInv, Waits, ClientKeeps
  <2> QED BY <2>1, <2>2
<1>4. \A g \in Gens : ref'[g] = Cardinality(Files(g))' + (IF dv'[Core] = g THEN 1 ELSE 0)
  BY <1>1, <1>2 DEF RefInv, Waits
<1>5. dv'[Core] # 0 => bound' # 0 \/ pc'[Core] = "uPut"
  BY <1>1 DEF RefInv, Waits, ClientKeeps
<1> QED BY <1>3, <1>4, <1>5 DEF RefInv

\* A step of a probe or a remove that drops no reference keeps the count.
LEMMA RefCore ==
  ASSUME RefInv, CoreKeeps, UNCHANGED <<ref, dv>>,
         pc[Core] # "uPut", bound' # 0 \/ pc'[Core] = "uPut" \/ dv[Core] = 0,
         misc' = misc \/ \A c \in Clients : pc[c] # "open"
  PROVE  RefInv'
<1>1. \A g \in Gens : Files(g)' = Files(g)
  BY DEF Files, CoreKeeps
<1> QED BY <1>1 DEF RefInv, CoreKeeps, Waits

LEMMA RefStep ==
  ASSUME Owners, RefInv, [Next]_vars
  PROVE  RefInv'
<1>t. TypeOK /\ GenInv /\ CoreInv
  BY DEF Owners
<1> USE CardAssumption, ActorAssumption DEF TypeOK, HostTypeOK, At, Goto, Finish,
        busVars, devVars, argVars, loopVars, Actors
<1>0. \A g \in Gens : Cardinality(Files(g)) \in Nat /\ g # 0
  BY FilesFinite DEF Gens
<1>1. ASSUME NEW c \in Clients, OpenCall(c) PROVE RefInv'
  <2>1. /\ UNCHANGED <<ref, file, bound, misc>> /\ pc'[c] = "open" /\ misc # 0 /\ dv'[c] = misc /\ file[c] = 0
        /\ dv'[Core] = dv[Core] /\ pc'[Core] = pc[Core]
        /\ \A b \in Clients \ {c} : pc'[b] = pc[b] /\ dv'[b] = dv[b]
    BY <1>t, <1>1 DEF OpenCall
  <2>2. \A g \in Gens : Files(g)' = Files(g)
    BY <2>1 DEF Files
  <2> QED BY <2>1, <2>2 DEF RefInv
<1>2. ASSUME NEW c \in Clients, Open(c) PROVE RefInv'
  <2>1. /\ UNCHANGED <<bound, misc>> /\ pc'[c] = "idle" /\ dv[c] \in Gens /\ file[c] = 0
        /\ dv'[Core] = dv[Core] /\ pc'[Core] = pc[Core]
        /\ \A b \in Clients \ {c} : pc'[b] = pc[b] /\ dv'[b] = dv[b] /\ file'[b] = file[b]
    BY <1>t, <1>2 DEF Open, RefInv, Gens
  <2>2. \/ UNCHANGED <<file, ref>>
        \/ file' = [file EXCEPT ![c] = dv[c]] /\ ref' = [ref EXCEPT ![dv[c]] = @ + 1]
    <3>1. CASE removing[dv[c]] \/ ref[dv[c]] = 0
      BY <1>t, <1>2, <2>1, <3>1 DEF Open
    <3>2. CASE ~ (removing[dv[c]] \/ ref[dv[c]] = 0)
      BY <1>t, <1>2, <2>1, <3>2 DEF Open
    <3> QED BY <3>1, <3>2
  <2>3. ASSUME NEW g \in Gens
        PROVE  ref'[g] = Cardinality(Files(g))' + (IF dv[Core] = g THEN 1 ELSE 0)
    <3>1. CASE UNCHANGED <<file, ref>>
      <4>1. Files(g)' = Files(g)
        BY <3>1 DEF Files
      <4> QED BY <3>1, <4>1 DEF RefInv
    <3>2. CASE file' = [file EXCEPT ![c] = dv[c]] /\ ref' = [ref EXCEPT ![dv[c]] = @ + 1]
      <4>1. Cardinality(Files(g))' = Cardinality(Files(g)) + (IF g = dv[c] THEN 1 ELSE 0)
        <5>1. /\ file \in [Clients -> 0 .. MaxGen] /\ dv[c] \in Gens /\ file[c] = 0
              /\ file' = [file EXCEPT ![c] = dv[c]]
          BY <1>t, <2>1, <3>2
        <5> HIDE DEF TypeOK, HostTypeOK, Actors
        <5> QED BY <5>1, FileOpens
      <4>2. ref[g] = Cardinality(Files(g)) + (IF dv[Core] = g THEN 1 ELSE 0)
        BY DEF RefInv
      <4>3. ref'[g] = ref[g] + (IF g = dv[c] THEN 1 ELSE 0)
        BY <1>t, <1>0, <2>1, <3>2, <4>2
      <4> QED BY <1>0, <4>1, <4>2, <4>3
    <3> QED BY <2>2, <3>1, <3>2
  <2>4. ASSUME NEW b \in Clients
        PROVE  /\ pc'[b] = "open" => misc' # 0 /\ dv'[b] = misc' /\ file'[b] = 0
               /\ pc'[b] \notin {"idle", "open"} => dv'[b] = file'[b]
    BY <2>1 DEF RefInv
  <2> QED BY <2>1, <2>3, <2>4 DEF RefInv
<1>3. ASSUME NEW c \in Clients, Release(c) PROVE RefInv'
  <2>1. /\ UNCHANGED <<bound, misc, pc, dv>> /\ pc[c] = "idle" /\ file[c] \in Gens
        /\ file' = [file EXCEPT ![c] = 0] /\ ref' = [ref EXCEPT ![file[c]] = @ - 1]
        /\ \A b \in Clients \ {c} : file'[b] = file[b]
    BY <1>t, <1>3 DEF Release, KrefPut, Gens
  <2>3. ASSUME NEW g \in Gens
        PROVE  ref'[g] = Cardinality(Files(g))' + (IF dv[Core] = g THEN 1 ELSE 0)
    <3>1. Cardinality(Files(g))' = Cardinality(Files(g)) - (IF g = file[c] THEN 1 ELSE 0)
      BY <1>t, <1>0, <2>1, FileCloses
    <3>2. ref[g] = Cardinality(Files(g)) + (IF dv[Core] = g THEN 1 ELSE 0)
      BY DEF RefInv
    <3>3. ref'[g] = ref[g] - (IF g = file[c] THEN 1 ELSE 0)
      BY <1>t, <1>0, <2>1, <3>2
    <3> QED BY <1>0, <3>1, <3>2, <3>3
  <2>4. ASSUME NEW b \in Clients
        PROVE  /\ pc'[b] = "open" => misc' # 0 /\ dv'[b] = misc' /\ file'[b] = 0
               /\ pc'[b] \notin {"idle", "open"} => dv'[b] = file'[b]
    BY <2>1 DEF RefInv
  <2> QED BY <2>1, <2>3, <2>4 DEF RefInv
<1>4. ASSUME NEW c \in Clients, IoctlCall(c) PROVE RefInv'
  <2>1. /\ UNCHANGED <<ref, file, bound, misc>> /\ pc'[c] = "lock" /\ dv'[c] = file[c]
        /\ dv'[Core] = dv[Core] /\ pc'[Core] = pc[Core]
        /\ \A b \in Clients \ {c} : pc'[b] = pc[b] /\ dv'[b] = dv[b]
    BY <1>t, <1>4 DEF IoctlCall
  <2>2. \A g \in Gens : Files(g)' = Files(g)
    BY <2>1 DEF Files
  <2> QED BY <2>1, <2>2 DEF RefInv
<1>5. ASSUME NEW c \in Clients, Lock(c) PROVE RefInv'
  <2>0. ClientKeeps(c)
    BY <1>t, <1>5, ClientFrame DEF ClientCall, ClientStep, StartStep, TeardownStep, ResetStep
  <2>1. UNCHANGED <<ref, file>>
    BY <1>5 DEF Lock
  <2>2. \/ pc'[c] = "idle"
        \/ /\ pc[c] \notin {"idle", "open"} /\ pc'[c] \notin {"idle", "open"}
           /\ dv'[c] = dv[c]
    BY <1>t, <1>5 DEF Lock
  <2> QED BY <2>0, <2>1, <2>2, RefKeep
<1>6. ASSUME NEW c \in Clients, Query(c) PROVE RefInv'
  <2>0. ClientKeeps(c)
    BY <1>t, <1>6, ClientFrame DEF ClientCall, ClientStep, StartStep, TeardownStep, ResetStep
  <2>1. UNCHANGED <<ref, file>>
    BY <1>6 DEF Query
  <2>2. \/ pc'[c] = "idle"
        \/ /\ pc[c] \notin {"idle", "open"} /\ pc'[c] \notin {"idle", "open"}
           /\ dv'[c] = dv[c]
    BY <1>t, <1>6 DEF Query
  <2> QED BY <2>0, <2>1, <2>2, RefKeep
<1>7. ASSUME NEW c \in Clients, NotCapable(c) PROVE RefInv'
  <2>0. ClientKeeps(c)
    BY <1>t, <1>7, ClientFrame DEF ClientCall, ClientStep, StartStep, TeardownStep, ResetStep
  <2>1. UNCHANGED <<ref, file>>
    BY <1>7 DEF NotCapable
  <2>2. \/ pc'[c] = "idle"
        \/ /\ pc[c] \notin {"idle", "open"} /\ pc'[c] \notin {"idle", "open"}
           /\ dv'[c] = dv[c]
    BY <1>t, <1>7 DEF NotCapable
  <2> QED BY <2>0, <2>1, <2>2, RefKeep
<1>8. ASSUME NEW c \in Clients, Unlock(c) PROVE RefInv'
  <2>0. ClientKeeps(c)
    BY <1>t, <1>8, ClientFrame DEF ClientCall, ClientStep, StartStep, TeardownStep, ResetStep
  <2>1. UNCHANGED <<ref, file>>
    BY <1>8 DEF Unlock
  <2>2. \/ pc'[c] = "idle"
        \/ /\ pc[c] \notin {"idle", "open"} /\ pc'[c] \notin {"idle", "open"}
           /\ dv'[c] = dv[c]
    BY <1>t, <1>8 DEF Unlock
  <2> QED BY <2>0, <2>1, <2>2, RefKeep
<1>9. ASSUME NEW c \in Clients, StartEnter(c) PROVE RefInv'
  <2>0. ClientKeeps(c)
    BY <1>t, <1>9, ClientFrame DEF ClientCall, ClientStep, StartStep, TeardownStep, ResetStep
  <2>1. UNCHANGED <<ref, file>>
    BY <1>9 DEF StartEnter
  <2>2. \/ pc'[c] = "idle"
        \/ /\ pc[c] \notin {"idle", "open"} /\ pc'[c] \notin {"idle", "open"}
           /\ dv'[c] = dv[c]
    BY <1>t, <1>9 DEF StartEnter
  <2> QED BY <2>0, <2>1, <2>2, RefKeep
<1>10. ASSUME NEW c \in Clients, SetMaster(c) PROVE RefInv'
  <2>0. ClientKeeps(c)
    BY <1>t, <1>10, ClientFrame DEF ClientCall, ClientStep, StartStep, TeardownStep, ResetStep
  <2>1. UNCHANGED <<ref, file>>
    BY <1>10 DEF SetMaster
  <2>2. \/ pc'[c] = "idle"
        \/ /\ pc[c] \notin {"idle", "open"} /\ pc'[c] \notin {"idle", "open"}
           /\ dv'[c] = dv[c]
    BY <1>t, <1>10 DEF SetMaster
  <2> QED BY <2>0, <2>1, <2>2, RefKeep
<1>11. ASSUME NEW c \in Clients, Quiesce(c) PROVE RefInv'
  <2>0. ClientKeeps(c)
    BY <1>t, <1>11, ClientFrame DEF ClientCall, ClientStep, StartStep, TeardownStep, ResetStep
  <2>1. UNCHANGED <<ref, file>>
    BY <1>11 DEF Quiesce
  <2>2. \/ pc'[c] = "idle"
        \/ /\ pc[c] \notin {"idle", "open"} /\ pc'[c] \notin {"idle", "open"}
           /\ dv'[c] = dv[c]
    BY <1>t, <1>11 DEF Quiesce
  <2> QED BY <2>0, <2>1, <2>2, RefKeep
<1>12. ASSUME NEW c \in Clients, ResetGlobal(c) PROVE RefInv'
  <2>0. ClientKeeps(c)
    BY <1>t, <1>12, ClientFrame DEF ClientCall, ClientStep, StartStep, TeardownStep, ResetStep
  <2>1. UNCHANGED <<ref, file>>
    BY <1>12 DEF ResetGlobal
  <2>2. \/ pc'[c] = "idle"
        \/ /\ pc[c] \notin {"idle", "open"} /\ pc'[c] \notin {"idle", "open"}
           /\ dv'[c] = dv[c]
    BY <1>t, <1>12 DEF ResetGlobal
  <2> QED BY <2>0, <2>1, <2>2, RefKeep
<1>13. ASSUME NEW c \in Clients, GlobalOnly(c) PROVE RefInv'
  <2>0. ClientKeeps(c)
    BY <1>t, <1>13, ClientFrame DEF ClientCall, ClientStep, StartStep, TeardownStep, ResetStep
  <2>1. UNCHANGED <<ref, file>>
    BY <1>13 DEF GlobalOnly
  <2>2. \/ pc'[c] = "idle"
        \/ /\ pc[c] \notin {"idle", "open"} /\ pc'[c] \notin {"idle", "open"}
           /\ dv'[c] = dv[c]
    BY <1>t, <1>13 DEF GlobalOnly
  <2> QED BY <2>0, <2>1, <2>2, RefKeep
<1>14. ASSUME NEW c \in Clients, RingIndex(c) PROVE RefInv'
  <2>0. ClientKeeps(c)
    BY <1>t, <1>14, ClientFrame DEF ClientCall, ClientStep, StartStep, TeardownStep, ResetStep
  <2>1. UNCHANGED <<ref, file>>
    BY <1>14 DEF RingIndex
  <2>2. \/ pc'[c] = "idle"
        \/ /\ pc[c] \notin {"idle", "open"} /\ pc'[c] \notin {"idle", "open"}
           /\ dv'[c] = dv[c]
    BY <1>t, <1>14 DEF RingIndex
  <2> QED BY <2>0, <2>1, <2>2, RefKeep
<1>15. ASSUME NEW c \in Clients, RingDesc(c) PROVE RefInv'
  <2>0. ClientKeeps(c)
    BY <1>t, <1>15, ClientFrame DEF ClientCall, ClientStep, StartStep, TeardownStep, ResetStep
  <2>1. UNCHANGED <<ref, file>>
    BY <1>15 DEF RingDesc
  <2>2. \/ pc'[c] = "idle"
        \/ /\ pc[c] \notin {"idle", "open"} /\ pc'[c] \notin {"idle", "open"}
           /\ dv'[c] = dv[c]
    BY <1>t, <1>15 DEF RingDesc
  <2> QED BY <2>0, <2>1, <2>2, RefKeep
<1>16. ASSUME NEW c \in Clients, RingDone(c) PROVE RefInv'
  <2>0. ClientKeeps(c)
    BY <1>t, <1>16, ClientFrame DEF ClientCall, ClientStep, StartStep, TeardownStep, ResetStep
  <2>1. UNCHANGED <<ref, file>>
    BY <1>16 DEF RingDone
  <2>2. \/ pc'[c] = "idle"
        \/ /\ pc[c] \notin {"idle", "open"} /\ pc'[c] \notin {"idle", "open"}
           /\ dv'[c] = dv[c]
    BY <1>t, <1>16 DEF RingDone
  <2> QED BY <2>0, <2>1, <2>2, RefKeep
<1>17. ASSUME NEW c \in Clients, Enable(c) PROVE RefInv'
  <2>0. ClientKeeps(c)
    BY <1>t, <1>17, ClientFrame DEF ClientCall, ClientStep, StartStep, TeardownStep, ResetStep
  <2>1. UNCHANGED <<ref, file>>
    BY <1>17 DEF Enable
  <2>2. \/ pc'[c] = "idle"
        \/ /\ pc[c] \notin {"idle", "open"} /\ pc'[c] \notin {"idle", "open"}
           /\ dv'[c] = dv[c]
    BY <1>t, <1>17 DEF Enable
  <2> QED BY <2>0, <2>1, <2>2, RefKeep
<1>18. ASSUME NEW c \in Clients, Verify(c) PROVE RefInv'
  <2>0. ClientKeeps(c)
    BY <1>t, <1>18, ClientFrame DEF ClientCall, ClientStep, StartStep, TeardownStep, ResetStep
  <2>1. UNCHANGED <<ref, file>>
    BY <1>18 DEF Verify
  <2>2. \/ pc'[c] = "idle"
        \/ /\ pc[c] \notin {"idle", "open"} /\ pc'[c] \notin {"idle", "open"}
           /\ dv'[c] = dv[c]
    BY <1>t, <1>18 DEF Verify
  <2> QED BY <2>0, <2>1, <2>2, RefKeep
<1>19. ASSUME NEW c \in Clients, StopEnter(c) PROVE RefInv'
  <2>0. ClientKeeps(c)
    BY <1>t, <1>19, ClientFrame DEF ClientCall, ClientStep, StartStep, TeardownStep, ResetStep
  <2>1. UNCHANGED <<ref, file>>
    BY <1>19 DEF StopEnter
  <2>2. \/ pc'[c] = "idle"
        \/ /\ pc[c] \notin {"idle", "open"} /\ pc'[c] \notin {"idle", "open"}
           /\ dv'[c] = dv[c]
    BY <1>t, <1>19 DEF StopEnter
  <2> QED BY <2>0, <2>1, <2>2, RefKeep
<1>20. ASSUME NEW c \in Clients, TdInt(c) PROVE RefInv'
  <2>0. ClientKeeps(c)
    BY <1>t, <1>20, ClientFrame DEF ClientCall, ClientStep, StartStep, TeardownStep, ResetStep
  <2>1. UNCHANGED <<ref, file>>
    BY <1>20 DEF TdInt
  <2>2. \/ pc'[c] = "idle"
        \/ /\ pc[c] \notin {"idle", "open"} /\ pc'[c] \notin {"idle", "open"}
           /\ dv'[c] = dv[c]
    BY <1>t, <1>20 DEF TdInt
  <2> QED BY <2>0, <2>1, <2>2, RefKeep
<1>21. ASSUME NEW c \in Clients, TdReset(c) PROVE RefInv'
  <2>0. ClientKeeps(c)
    BY <1>t, <1>21, ClientFrame DEF ClientCall, ClientStep, StartStep, TeardownStep, ResetStep
  <2>1. UNCHANGED <<ref, file>>
    BY <1>21 DEF TdReset
  <2>2. \/ pc'[c] = "idle"
        \/ /\ pc[c] \notin {"idle", "open"} /\ pc'[c] \notin {"idle", "open"}
           /\ dv'[c] = dv[c]
    BY <1>t, <1>21 DEF TdReset
  <2> QED BY <2>0, <2>1, <2>2, RefKeep
<1>22. ASSUME NEW c \in Clients, TdGlobal(c) PROVE RefInv'
  <2>0. ClientKeeps(c)
    BY <1>t, <1>22, ClientFrame DEF ClientCall, ClientStep, StartStep, TeardownStep, ResetStep
  <2>1. UNCHANGED <<ref, file>>
    BY <1>22 DEF TdGlobal
  <2>2. \/ pc'[c] = "idle"
        \/ /\ pc[c] \notin {"idle", "open"} /\ pc'[c] \notin {"idle", "open"}
           /\ dv'[c] = dv[c]
    BY <1>t, <1>22 DEF TdGlobal
  <2> QED BY <2>0, <2>1, <2>2, RefKeep
<1>23. ASSUME NEW c \in Clients, TdClear(c) PROVE RefInv'
  <2>0. ClientKeeps(c)
    BY <1>t, <1>23, ClientFrame DEF ClientCall, ClientStep, StartStep, TeardownStep, ResetStep
  <2>1. UNCHANGED <<ref, file>>
    BY <1>23 DEF TdClear
  <2>2. \/ pc'[c] = "idle"
        \/ /\ pc[c] \notin {"idle", "open"} /\ pc'[c] \notin {"idle", "open"}
           /\ dv'[c] = dv[c]
    BY <1>t, <1>23 DEF TdClear
  <2> QED BY <2>0, <2>1, <2>2, RefKeep
<1>24. ASSUME NEW c \in Clients, TdCold(c) PROVE RefInv'
  <2>0. ClientKeeps(c)
    BY <1>t, <1>24, ClientFrame DEF ClientCall, ClientStep, StartStep, TeardownStep, ResetStep
  <2>1. UNCHANGED <<ref, file>>
    BY <1>24 DEF TdCold
  <2>2. \/ pc'[c] = "idle"
        \/ /\ pc[c] \notin {"idle", "open"} /\ pc'[c] \notin {"idle", "open"}
           /\ dv'[c] = dv[c]
    BY <1>t, <1>24 DEF TdCold
  <2> QED BY <2>0, <2>1, <2>2, RefKeep
<1>25. ASSUME NEW c \in Clients, TdMaster(c) PROVE RefInv'
  <2>0. ClientKeeps(c)
    BY <1>t, <1>25, ClientFrame DEF ClientCall, ClientStep, StartStep, TeardownStep, ResetStep
  <2>1. UNCHANGED <<ref, file>>
    BY <1>25 DEF TdMaster
  <2>2. \/ pc'[c] = "idle"
        \/ /\ pc[c] \notin {"idle", "open"} /\ pc'[c] \notin {"idle", "open"}
           /\ dv'[c] = dv[c]
    BY <1>t, <1>25 DEF TdMaster
  <2> QED BY <2>0, <2>1, <2>2, RefKeep
<1>26. ASSUME NEW c \in Clients, TdCheck(c) PROVE RefInv'
  <2>0. ClientKeeps(c)
    BY <1>t, <1>26, ClientFrame DEF ClientCall, ClientStep, StartStep, TeardownStep, ResetStep
  <2>1. UNCHANGED <<ref, file>>
    BY <1>26 DEF TdCheck
  <2>2. \/ pc'[c] = "idle"
        \/ /\ pc[c] \notin {"idle", "open"} /\ pc'[c] \notin {"idle", "open"}
           /\ dv'[c] = dv[c]
    BY <1>t, <1>26 DEF TdCheck
  <2> QED BY <2>0, <2>1, <2>2, RefKeep
<1>27. ASSUME NEW c \in Clients, ResetEnter(c) PROVE RefInv'
  <2>0. ClientKeeps(c)
    BY <1>t, <1>27, ClientFrame DEF ClientCall, ClientStep, StartStep, TeardownStep, ResetStep
  <2>1. UNCHANGED <<ref, file>>
    BY <1>27 DEF ResetEnter
  <2>2. \/ pc'[c] = "idle"
        \/ /\ pc[c] \notin {"idle", "open"} /\ pc'[c] \notin {"idle", "open"}
           /\ dv'[c] = dv[c]
    BY <1>t, <1>27 DEF ResetEnter
  <2> QED BY <2>0, <2>1, <2>2, RefKeep
<1>28. ASSUME NEW c \in Clients, Pulse(c) PROVE RefInv'
  <2>0. ClientKeeps(c)
    BY <1>t, <1>28, ClientFrame DEF ClientCall, ClientStep, StartStep, TeardownStep, ResetStep
  <2>1. UNCHANGED <<ref, file>>
    BY <1>28 DEF Pulse
  <2>2. \/ pc'[c] = "idle"
        \/ /\ pc[c] \notin {"idle", "open"} /\ pc'[c] \notin {"idle", "open"}
           /\ dv'[c] = dv[c]
    BY <1>t, <1>28 DEF Pulse
  <2> QED BY <2>0, <2>1, <2>2, RefKeep
<1>29. ASSUME NEW c \in Clients, Unpulse(c) PROVE RefInv'
  <2>0. ClientKeeps(c)
    BY <1>t, <1>29, ClientFrame DEF ClientCall, ClientStep, StartStep, TeardownStep, ResetStep
  <2>1. UNCHANGED <<ref, file>>
    BY <1>29 DEF Unpulse
  <2>2. \/ pc'[c] = "idle"
        \/ /\ pc[c] \notin {"idle", "open"} /\ pc'[c] \notin {"idle", "open"}
           /\ dv'[c] = dv[c]
    BY <1>t, <1>29 DEF Unpulse
  <2> QED BY <2>0, <2>1, <2>2, RefKeep
<1>30. ASSUME NEW c \in Clients, Reenable(c) PROVE RefInv'
  <2>0. ClientKeeps(c)
    BY <1>t, <1>30, ClientFrame DEF ClientCall, ClientStep, StartStep, TeardownStep, ResetStep
  <2>1. UNCHANGED <<ref, file>>
    BY <1>30 DEF Reenable
  <2>2. \/ pc'[c] = "idle"
        \/ /\ pc[c] \notin {"idle", "open"} /\ pc'[c] \notin {"idle", "open"}
           /\ dv'[c] = dv[c]
    BY <1>t, <1>30 DEF Reenable
  <2> QED BY <2>0, <2>1, <2>2, RefKeep
<1>31. ASSUME NEW c \in Clients, ResetCheck(c) PROVE RefInv'
  <2>0. ClientKeeps(c)
    BY <1>t, <1>31, ClientFrame DEF ClientCall, ClientStep, StartStep, TeardownStep, ResetStep
  <2>1. UNCHANGED <<ref, file>>
    BY <1>31 DEF ResetCheck
  <2>2. \/ pc'[c] = "idle"
        \/ /\ pc[c] \notin {"idle", "open"} /\ pc'[c] \notin {"idle", "open"}
           /\ dv'[c] = dv[c]
    BY <1>t, <1>31 DEF ResetCheck
  <2> QED BY <2>0, <2>1, <2>2, RefKeep
<1>32. ASSUME ProbeCall PROVE RefInv'
  <2>0. CoreKeeps
    BY <1>t, <1>32, CoreFrame DEF CoreCall, CoreStep, TeardownStep
  <2>f. \A g \in Gens : Files(g)' = Files(g)
    BY <2>0 DEF Files, CoreKeeps
  <2>1. /\ bound = 0 /\ pc[Core] = "idle" /\ bound' = nextGen + 1 /\ nextGen + 1 \in Gens
        /\ dv'[Core] = nextGen + 1 /\ ref' = [ref EXCEPT ![nextGen + 1] = 1] /\ misc' = misc
    BY <1>t, <1>32 DEF ProbeCall, Gens
  <2>2. dv[Core] = 0
    BY <2>1 DEF RefInv
  <2>3. Cardinality(Files(nextGen + 1)) = 0
    <3>1. Files(nextGen + 1) = {}
      BY <1>t DEF Files, GenInv
    <3> QED BY <3>1, FS_EmptySet
  <2>4. \A g \in Gens : ref'[g] = Cardinality(Files(g))' + (IF dv'[Core] = g THEN 1 ELSE 0)
    BY <1>t, <1>0, <2>f, <2>1, <2>2, <2>3 DEF RefInv
  <2> QED BY <1>0, <2>0, <2>1, <2>4 DEF RefInv, CoreKeeps, Waits
<1>33. ASSUME ProbeEnable PROVE RefInv'
  <2>0. CoreKeeps
    BY <1>t, <1>33, CoreFrame DEF CoreCall, CoreStep, TeardownStep
  <2>1. /\ UNCHANGED <<ref, dv>> /\ pc[Core] # "uPut"
        /\ bound' # 0 \/ pc'[Core] = "uPut"
        /\ misc' = misc \/ \A c \in Clients : pc[c] # "open"
    BY <1>t, <1>33 DEF ProbeEnable, Acquire, CoreInv, GenInv
  <2> QED BY <2>0, <2>1, RefCore
<1>34. ASSUME ProbeRegion PROVE RefInv'
  <2>0. CoreKeeps
    BY <1>t, <1>34, CoreFrame DEF CoreCall, CoreStep, TeardownStep
  <2>1. /\ UNCHANGED <<ref, dv>> /\ pc[Core] # "uPut"
        /\ bound' # 0 \/ pc'[Core] = "uPut"
        /\ misc' = misc \/ \A c \in Clients : pc[c] # "open"
    BY <1>t, <1>34 DEF ProbeRegion, Acquire, CoreInv, GenInv
  <2> QED BY <2>0, <2>1, RefCore
<1>35. ASSUME ProbeMap PROVE RefInv'
  <2>0. CoreKeeps
    BY <1>t, <1>35, CoreFrame DEF CoreCall, CoreStep, TeardownStep
  <2>1. /\ UNCHANGED <<ref, dv>> /\ pc[Core] # "uPut"
        /\ bound' # 0 \/ pc'[Core] = "uPut"
        /\ misc' = misc \/ \A c \in Clients : pc[c] # "open"
    BY <1>t, <1>35 DEF ProbeMap, Acquire, CoreInv, GenInv
  <2> QED BY <2>0, <2>1, RefCore
<1>36. ASSUME ProbeCold PROVE RefInv'
  <2>0. CoreKeeps
    BY <1>t, <1>36, CoreFrame DEF CoreCall, CoreStep, TeardownStep
  <2>1. /\ UNCHANGED <<ref, dv>> /\ pc[Core] # "uPut"
        /\ bound' # 0 \/ pc'[Core] = "uPut"
        /\ misc' = misc \/ \A c \in Clients : pc[c] # "open"
    BY <1>t, <1>36 DEF ProbeCold, CoreInv, GenInv
  <2> QED BY <2>0, <2>1, RefCore
<1>37. ASSUME ProbeAlloc PROVE RefInv'
  <2>0. CoreKeeps
    BY <1>t, <1>37, CoreFrame DEF CoreCall, CoreStep, TeardownStep
  <2>1. /\ UNCHANGED <<ref, dv>> /\ pc[Core] # "uPut"
        /\ bound' # 0 \/ pc'[Core] = "uPut"
        /\ misc' = misc \/ \A c \in Clients : pc[c] # "open"
    BY <1>t, <1>37 DEF ProbeAlloc, CoreInv, GenInv
  <2> QED BY <2>0, <2>1, RefCore
<1>38. ASSUME ProbeRegister PROVE RefInv'
  <2>0. CoreKeeps
    BY <1>t, <1>38, CoreFrame DEF CoreCall, CoreStep, TeardownStep
  <2>1. /\ UNCHANGED <<ref, dv>> /\ pc[Core] # "uPut"
        /\ bound' # 0 \/ pc'[Core] = "uPut"
        /\ misc' = misc \/ \A c \in Clients : pc[c] # "open"
    BY <1>t, <1>38 DEF ProbeRegister, CoreInv, GenInv, RefInv
  <2> QED BY <2>0, <2>1, RefCore
<1>39. ASSUME RemoveCall PROVE RefInv'
  <2>0. CoreKeeps
    BY <1>t, <1>39, CoreFrame DEF CoreCall, CoreStep, TeardownStep
  <2>1. /\ UNCHANGED <<ref, dv>> /\ pc[Core] # "uPut"
        /\ bound' # 0 \/ pc'[Core] = "uPut"
        /\ misc' = misc \/ \A c \in Clients : pc[c] # "open"
    BY <1>t, <1>39 DEF RemoveCall, CoreInv, GenInv
  <2> QED BY <2>0, <2>1, RefCore
<1>40. ASSUME RemoveDeregister PROVE RefInv'
  <2>0. CoreKeeps
    BY <1>t, <1>40, CoreFrame DEF CoreCall, CoreStep, TeardownStep
  <2>1. /\ UNCHANGED <<ref, dv>> /\ pc[Core] # "uPut"
        /\ bound' # 0 \/ pc'[Core] = "uPut"
        /\ misc' = misc \/ \A c \in Clients : pc[c] # "open"
    BY <1>t, <1>40 DEF RemoveDeregister, CoreInv, GenInv
  <2> QED BY <2>0, <2>1, RefCore
<1>41. ASSUME RemoveLock PROVE RefInv'
  <2>0. CoreKeeps
    BY <1>t, <1>41, CoreFrame DEF CoreCall, CoreStep, TeardownStep
  <2>1. /\ UNCHANGED <<ref, dv>> /\ pc[Core] # "uPut"
        /\ bound' # 0 \/ pc'[Core] = "uPut"
        /\ misc' = misc \/ \A c \in Clients : pc[c] # "open"
    BY <1>t, <1>41 DEF RemoveLock, CoreInv, GenInv
  <2> QED BY <2>0, <2>1, RefCore
<1>42. ASSUME FreePages PROVE RefInv'
  <2>0. CoreKeeps
    BY <1>t, <1>42, CoreFrame DEF CoreCall, CoreStep, TeardownStep
  <2>1. /\ UNCHANGED <<ref, dv>> /\ pc[Core] # "uPut"
        /\ bound' # 0 \/ pc'[Core] = "uPut"
        /\ misc' = misc \/ \A c \in Clients : pc[c] # "open"
    BY <1>t, <1>42 DEF FreePages, CoreInv, GenInv
  <2> QED BY <2>0, <2>1, RefCore
<1>43. ASSUME UnmapBar PROVE RefInv'
  <2>0. CoreKeeps
    BY <1>t, <1>43, CoreFrame DEF CoreCall, CoreStep, TeardownStep
  <2>1. /\ UNCHANGED <<ref, dv>> /\ pc[Core] # "uPut"
        /\ bound' # 0 \/ pc'[Core] = "uPut"
        /\ misc' = misc \/ \A c \in Clients : pc[c] # "open"
    BY <1>t, <1>43 DEF UnmapBar, ReleaseResource, CoreInv, GenInv
  <2> QED BY <2>0, <2>1, RefCore
<1>44. ASSUME ReleaseRegion PROVE RefInv'
  <2>0. CoreKeeps
    BY <1>t, <1>44, CoreFrame DEF CoreCall, CoreStep, TeardownStep
  <2>1. /\ UNCHANGED <<ref, dv>> /\ pc[Core] # "uPut"
        /\ bound' # 0 \/ pc'[Core] = "uPut"
        /\ misc' = misc \/ \A c \in Clients : pc[c] # "open"
    BY <1>t, <1>44 DEF ReleaseRegion, ReleaseResource, CoreInv, GenInv
  <2> QED BY <2>0, <2>1, RefCore
<1>45. ASSUME DisableDevice PROVE RefInv'
  <2>0. CoreKeeps
    BY <1>t, <1>45, CoreFrame DEF CoreCall, CoreStep, TeardownStep
  <2>1. /\ UNCHANGED <<ref, dv>> /\ pc[Core] # "uPut"
        /\ bound' # 0 \/ pc'[Core] = "uPut"
        /\ misc' = misc \/ \A c \in Clients : pc[c] # "open"
    BY <1>t, <1>45 DEF DisableDevice, ReleaseResource, CoreInv, GenInv
  <2> QED BY <2>0, <2>1, RefCore
<1>46. ASSUME RemoveUnlock PROVE RefInv'
  <2>0. CoreKeeps
    BY <1>t, <1>46, CoreFrame DEF CoreCall, CoreStep, TeardownStep
  <2>1. /\ UNCHANGED <<ref, dv>> /\ pc[Core] # "uPut"
        /\ bound' # 0 \/ pc'[Core] = "uPut"
        /\ misc' = misc \/ \A c \in Clients : pc[c] # "open"
    BY <1>t, <1>46 DEF RemoveUnlock, CoreInv, GenInv
  <2> QED BY <2>0, <2>1, RefCore
<1>47. ASSUME PutDevice PROVE RefInv'
  <2>0. CoreKeeps
    BY <1>t, <1>47, CoreFrame DEF CoreCall, CoreStep, TeardownStep
  <2>f. \A g \in Gens : Files(g)' = Files(g)
    BY <2>0 DEF Files, CoreKeeps
  <2>1. /\ dv[Core] \in Gens /\ dv'[Core] = 0 /\ ref' = [ref EXCEPT ![dv[Core]] = @ - 1]
        /\ misc' = misc
    BY <1>t, <1>47 DEF PutDevice, KrefPut, CoreInv, Gens
  <2>2. \A g \in Gens : ref'[g] = Cardinality(Files(g))' + (IF dv'[Core] = g THEN 1 ELSE 0)
    BY <1>t, <1>0, <2>f, <2>1 DEF RefInv
  <2> QED BY <2>0, <2>1, <2>2 DEF RefInv, CoreKeeps, Waits
<1>48. ASSUME TdInt(Core) PROVE RefInv'
  <2>0. CoreKeeps
    BY <1>t, <1>48, CoreFrame DEF CoreCall, CoreStep, TeardownStep
  <2>1. /\ UNCHANGED <<ref, dv>> /\ pc[Core] # "uPut"
        /\ bound' # 0 \/ pc'[Core] = "uPut"
        /\ misc' = misc \/ \A c \in Clients : pc[c] # "open"
    BY <1>t, <1>48 DEF TdInt, CoreInv, GenInv
  <2> QED BY <2>0, <2>1, RefCore
<1>49. ASSUME TdReset(Core) PROVE RefInv'
  <2>0. CoreKeeps
    BY <1>t, <1>49, CoreFrame DEF CoreCall, CoreStep, TeardownStep
  <2>1. /\ UNCHANGED <<ref, dv>> /\ pc[Core] # "uPut"
        /\ bound' # 0 \/ pc'[Core] = "uPut"
        /\ misc' = misc \/ \A c \in Clients : pc[c] # "open"
    BY <1>t, <1>49 DEF TdReset, CoreInv, GenInv
  <2> QED BY <2>0, <2>1, RefCore
<1>50. ASSUME TdGlobal(Core) PROVE RefInv'
  <2>0. CoreKeeps
    BY <1>t, <1>50, CoreFrame DEF CoreCall, CoreStep, TeardownStep
  <2>1. /\ UNCHANGED <<ref, dv>> /\ pc[Core] # "uPut"
        /\ bound' # 0 \/ pc'[Core] = "uPut"
        /\ misc' = misc \/ \A c \in Clients : pc[c] # "open"
    BY <1>t, <1>50 DEF TdGlobal, CoreInv, GenInv
  <2> QED BY <2>0, <2>1, RefCore
<1>51. ASSUME TdClear(Core) PROVE RefInv'
  <2>0. CoreKeeps
    BY <1>t, <1>51, CoreFrame DEF CoreCall, CoreStep, TeardownStep
  <2>1. /\ UNCHANGED <<ref, dv>> /\ pc[Core] # "uPut"
        /\ bound' # 0 \/ pc'[Core] = "uPut"
        /\ misc' = misc \/ \A c \in Clients : pc[c] # "open"
    BY <1>t, <1>51 DEF TdClear, CoreInv, GenInv
  <2> QED BY <2>0, <2>1, RefCore
<1>52. ASSUME TdCold(Core) PROVE RefInv'
  <2>0. CoreKeeps
    BY <1>t, <1>52, CoreFrame DEF CoreCall, CoreStep, TeardownStep
  <2>1. /\ UNCHANGED <<ref, dv>> /\ pc[Core] # "uPut"
        /\ bound' # 0 \/ pc'[Core] = "uPut"
        /\ misc' = misc \/ \A c \in Clients : pc[c] # "open"
    BY <1>t, <1>52 DEF TdCold, CoreInv, GenInv
  <2> QED BY <2>0, <2>1, RefCore
<1>53. ASSUME TdMaster(Core) PROVE RefInv'
  <2>0. CoreKeeps
    BY <1>t, <1>53, CoreFrame DEF CoreCall, CoreStep, TeardownStep
  <2>1. /\ UNCHANGED <<ref, dv>> /\ pc[Core] # "uPut"
        /\ bound' # 0 \/ pc'[Core] = "uPut"
        /\ misc' = misc \/ \A c \in Clients : pc[c] # "open"
    BY <1>t, <1>53 DEF TdMaster, CoreInv, GenInv
  <2> QED BY <2>0, <2>1, RefCore
<1>54. ASSUME TdCheck(Core) PROVE RefInv'
  <2>0. CoreKeeps
    BY <1>t, <1>54, CoreFrame DEF CoreCall, CoreStep, TeardownStep
  <2>1. /\ UNCHANGED <<ref, dv>> /\ pc[Core] # "uPut"
        /\ bound' # 0 \/ pc'[Core] = "uPut"
        /\ misc' = misc \/ \A c \in Clients : pc[c] # "open"
    BY <1>t, <1>54 DEF TdCheck, CoreInv, GenInv
  <2> QED BY <2>0, <2>1, RefCore
<1>90. ASSUME Card \/ UNCHANGED vars PROVE RefInv'
  <2>1. UNCHANGED <<ref, file, bound, misc, pc, dv>>
    BY <1>90 DEF Card, hostVars, vars
  <2> QED BY <2>1 DEF RefInv, Files
<1> HIDE DEF TypeOK, HostTypeOK, At, Goto, Finish, busVars, devVars, argVars, loopVars, Actors
<1> QED
  BY <1>1, <1>2, <1>3, <1>4, <1>5, <1>6, <1>7, <1>8, <1>9, <1>10, <1>11, <1>12, <1>13, <1>14, <1>15, <1>16, <1>17, <1>18, <1>19, <1>20, <1>21, <1>22, <1>23, <1>24, <1>25, <1>26, <1>27, <1>28, <1>29, <1>30, <1>31, <1>32, <1>33, <1>34, <1>35, <1>36, <1>37, <1>38, <1>39, <1>40, <1>41, <1>42, <1>43, <1>44, <1>45, <1>46, <1>47, <1>48, <1>49, <1>50, <1>51, <1>52, <1>53, <1>54,
     <1>90 DEF Next, ClientCall, ClientStep, StartStep, TeardownStep, ResetStep,
     CoreCall, CoreStep

----------------------------------------------------------------------------
(* The invariant and the theorems.                                         *)

LEMMA InitLifetime == Init => LifetimeInv
<1> SUFFICES ASSUME Init PROVE LifetimeInv
  OBVIOUS
<1> USE CardAssumption, ActorAssumption DEF Init
<1>1. HeldInv
  BY DEF HeldInv
<1>2. CoreOwns
  BY DEF CoreOwns, Actors
<1>3. MasterInv
  BY DEF MasterInv, MasterPCs, StartPCs, TeardownPCs
<1>4. RefInv
  <2>1. \A g \in Gens : Files(g) = {}
    BY DEF Files, Gens
  <2>2. \A g \in Gens : Cardinality(Files(g)) = 0 /\ g # 0
    <3> TAKE g \in Gens
    <3>1. Files(g) = {} /\ g # 0
      BY <2>1 DEF Gens
    <3>2. Cardinality({}) = 0
      BY FS_EmptySet
    <3> QED BY <3>1, <3>2
  <2>3. dv[Core] = 0 /\ \A c \in Clients : pc[c] = "idle"
    BY DEF Actors
  <2> QED BY <2>2, <2>3 DEF RefInv
<1> QED BY <1>1, <1>2, <1>3, <1>4 DEF LifetimeInv

LEMMA NextLifetime == IInv /\ IInv' /\ LifetimeInv /\ [Next]_vars => LifetimeInv'
<1> SUFFICES ASSUME IInv, IInv', LifetimeInv, [Next]_vars PROVE LifetimeInv'
  OBVIOUS
<1>1. Owners /\ Owners' /\ Usage
  BY DEF IInv, Owners, Usage
<1> QED BY <1>1, HeldStep, CoreOwnsStep, MasterStep, RefStep DEF LifetimeInv

\* The lifetimes of the resources, of bus mastering and of the structure follow
\* the control points of probe, remove, start and teardown.
THEOREM Lifetimes == Spec => []LifetimeInv
BY InitLifetime, NextLifetime, Inductive, PTL DEF Spec

\* A register is accessed only by the device that owns the PCI function and only
\* through a mapping that exists: uad2_probe maps BAR0 before its first read and
\* uad2_remove unmaps it after the last write, with the mutex held throughout.
THEOREM MappedAccess == Spec => []MmioWhileMapped
<1>1. ASSUME IInv, LifetimeInv PROVE MmioWhileMapped
  <2> SUFFICES ASSUME NEW a \in Actors, pc[a] \in RegisterPCs
               PROVE  dv[a] = bound /\ "bar" \in held[dv[a]]
    BY DEF MmioWhileMapped
  <2>1. Owners
    BY <1>1 DEF IInv, Owners
  <2>2. CASE a = Core
    <3>1. /\ pc[Core] \in CorePCs /\ pc[Core] \notin {"idle", "rDeregister", "rLock", "uPut"}
          /\ pc[Core] \notin {"pEnable", "pRegion", "pMap", "uRegion", "uDisable", "uPut",
                              "rUnlock"}
      BY <2>1, <2>2 DEF Owners, LoopOK, RegisterPCs, StartPCs, TeardownPCs, ResetPCs
    <3>2. bound # 0 /\ dv[Core] = bound
      BY <2>1, <3>1 DEF Owners, CoreInv
    <3> QED BY <1>1, <2>2, <3>1, <3>2 DEF LifetimeInv, HeldInv
  <2>3. CASE a \in Clients
    <3>1. pc[a] \in ActivePCs
      BY <2>1, <2>3 DEF Owners, LoopOK, ClientPCs, RegisterPCs, StartPCs, TeardownPCs, ResetPCs
    <3>2. dv[a] = bound /\ bound \in Gens /\ pc[Core] \in {"idle", "rDeregister", "rLock"}
      BY <2>1, <2>3, <3>1, ActiveClient DEF Owners
    <3> QED BY <1>1, <3>2, CardAssumption DEF LifetimeInv, HeldInv, Gens
  <2> QED BY <2>2, <2>3 DEF Actors
<1> QED BY <1>1, Inductive, Lifetimes, PTL

\* A generation that uad2_remove has finished with is dead for good: clients that
\* keep its file open find it neither started nor backed by pages or a mapping.
THEOREM DeadAfterRemove == Spec => []RemovedStaysDead
<1>1. ASSUME IInv, LifetimeInv PROVE RemovedStaysDead
  <2> SUFFICES ASSUME NEW g \in Gens, removing[g], owner[g] # Core
               PROVE  ~ started[g] /\ pages[g] = {} /\ held[g] = {}
    BY DEF RemovedStaysDead
  <2>1. g # bound
    <3> SUFFICES ASSUME g = bound PROVE FALSE
      OBVIOUS
    <3>1. bound # 0 /\ dv[Core] = bound
      BY <1>1, CardAssumption DEF IInv, CoreInv, Gens
    <3>2. CoreHolds
      BY <1>1, <3>1 DEF LifetimeInv, CoreOwns
    <3> QED BY <1>1, <3>1, <3>2 DEF IInv, LockInv
  <2> QED BY <1>1, <2>1 DEF LifetimeInv, HeldInv, IInv, StartedInv
<1> QED BY <1>1, Inductive, Lifetimes, PTL

\* After a remove, and after a probe that failed at any acquisition, nothing is
\* left behind: no page, no resource, no device node, no mutex held by the PCI
\* core, bus mastering off and, on an answering card, no engine and no descriptor.
THEOREM CleanUnbind == Spec => []UnboundClean
<1>1. ASSUME IInv, LifetimeInv PROVE UnboundClean
  <2> SUFFICES ASSUME bound = 0, pc[Core] = "idle"
               PROVE  /\ misc = 0 /\ ~ master
                      /\ \A g \in Gens : pages[g] = {} /\ held[g] = {} /\ owner[g] # Core
                      /\ linked => dmaCtl.enable = {} /\ \A s \in DescSlots : desc[s] = 0
    BY DEF UnboundClean
  <2>1. misc = 0
    BY <1>1 DEF IInv, GenInv
  <2>2. \A a \in Actors : pc[a] \notin ActivePCs
    <3>1. ASSUME NEW c \in Clients PROVE pc[c] \notin ActivePCs
      BY <1>1, ActiveClient, CardAssumption DEF IInv, Gens
    <3>2. pc[Core] \notin ActivePCs
      BY DEF ActivePCs, StartPCs, TeardownPCs, ResetPCs
    <3> QED BY <3>1, <3>2 DEF Actors
  <2>3. ~ master
    <3>1. MasterPCs \subseteq ActivePCs
      BY DEF MasterPCs, ActivePCs
    <3> QED BY <1>1, <2>2, <3>1 DEF LifetimeInv, MasterInv
  <2>4. \A g \in Gens : pages[g] = {} /\ held[g] = {} /\ owner[g] # Core
    <3>1. ~ CoreHolds
      BY DEF CoreHolds, TeardownPCs
    <3> QED BY <1>1, <3>1, CardAssumption DEF LifetimeInv, HeldInv, CoreOwns, Gens
  <2>5. ASSUME linked PROVE dmaCtl.enable = {} /\ \A s \in DescSlots : desc[s] = 0
    <3>1. Cleared /\ \A s \in DescSlots : s[1] \notin dmaCtl.enable
      BY <1>1, <2>2, <2>5, QuietCard, ProgressPoints DEF IInv
    <3>2. \A d \in DSPS : <<d, 0, 0, 0>> \in DescSlots
      BY CardAssumption DEF DescSlots, RINGS, PAGES, HALVES
    <3>3. \A d \in DSPS : d \notin dmaCtl.enable
      <4> TAKE d \in DSPS
      <4>1. <<d, 0, 0, 0>>[1] = d
        OBVIOUS
      <4> QED BY <3>1, <3>2, <4>1
    <3>4. dmaCtl.enable \subseteq DSPS
      BY <1>1 DEF IInv, TypeOK, CardTypeOK, DmaWord
    <3> QED BY <3>1, <3>3, <3>4 DEF Cleared
  <2> QED BY <2>1, <2>3, <2>4, <2>5
<1> QED BY <1>1, Inductive, Lifetimes, PTL

\* The kref of uad2_open, uad2_release and uad2_remove is never too low: as long
\* as a file, an open or an ioctl in progress, the device node, a probe or a
\* remove can reach the structure, its count is positive.
THEOREM UseBeforeFree == Spec => []NoUseAfterFree
<1>1. ASSUME IInv, LifetimeInv PROVE NoUseAfterFree
  <2> USE CardAssumption DEF Gens
  <2>1. \A g \in Gens : /\ Cardinality(Files(g)) \in Nat
                        /\ ref[g] = Cardinality(Files(g)) + (IF dv[Core] = g THEN 1 ELSE 0)
    BY <1>1, FilesFinite DEF LifetimeInv, RefInv
  <2>2. ASSUME NEW c \in Clients, file[c] # 0 PROVE ref[file[c]] > 0
    <3>1. file[c] \in Gens
      BY <1>1, <2>2 DEF IInv, TypeOK, HostTypeOK
    <3>2. c \in Files(file[c])
      BY DEF Files
    <3>3. Cardinality(Files(file[c])) > 0
      BY <3>2, FilesFinite
    <3> QED BY <2>1, <3>1, <3>3
  <2>3. dv[Core] # 0 => ref[dv[Core]] > 0
    <3>1. dv[Core] \in 0 .. MaxGen
      BY <1>1, ActorAssumption DEF IInv, TypeOK, HostTypeOK, Actors
    <3> QED BY <2>1, <3>1
  <2>4. misc # 0 => ref[misc] > 0
    BY <1>1, <2>3 DEF IInv, GenInv, CoreInv
  <2>5. ASSUME NEW c \in Clients, pc[c] # "idle" PROVE ref[dv[c]] > 0
    <3>1. CASE pc[c] = "open"
      BY <1>1, <2>4, <3>1 DEF LifetimeInv, RefInv
    <3>2. CASE pc[c] # "open"
      BY <1>1, <2>2, <2>5, <3>2 DEF LifetimeInv, RefInv, IInv, GenInv
    <3> QED BY <3>1, <3>2
  <2>6. pc[Core] # "idle" => ref[dv[Core]] > 0
    BY <1>1, <2>3 DEF IInv, CoreInv
  <2> QED BY <2>2, <2>4, <2>5, <2>6 DEF NoUseAfterFree
<1> QED BY <1>1, Inductive, Lifetimes, PTL

----------------------------------------------------------------------------
(* Part 3: the DMA engines.                                               *)

----------------------------------------------------------------------------
(* The invariant.                                                          *)

\* The transport of the bound device is started.
Running == bound # 0 /\ started[bound]

\* The word uad2_reset_dsp_locked writes to pulse the reset of DSP d.
Pulsed(d) == [Disabled(d) EXCEPT !.reset = {d}]

\* The DMA control register of an answering card at the control points of the
\* actor that runs a register sequence.
DmaAt(a) ==
  /\ pc[a] \in {"setMaster", "quiesce", "resetGlobal"} => dmaCtl = COLD_RESET
  /\ pc[a] = "globalOnly" => dmaCtl = RESET_GLOBAL
  /\ pc[a] \in InitLoop => dmaCtl = EnableUpTo(dsp[a] - 1)
  /\ pc[a] \in {"verify", "tdInt", "tdReset", "pulse", "resetCheck"} => dmaCtl = ALL_DSPS
  /\ pc[a] = "unpulse" => dmaCtl = Pulsed(dsp[a])
  /\ pc[a] = "reenable" => dmaCtl = Disabled(dsp[a])
  /\ pc[a] = "tdGlobal" => dmaCtl = RESET_GLOBAL
  /\ pc[a] \in {"tdClear", "tdCold"} => dmaCtl = GLOBAL_ONLY
  /\ pc[a] = "tdMaster" => dmaCtl = COLD_RESET

\* Control points of a started transport where an engine is off.
MovingPCs == {"unpulse", "reenable", "tdGlobal", "tdClear", "tdCold", "tdMaster"}

DmaInv ==
  linked => /\ \A a \in Actors : DmaAt(a)
            /\ Running /\ (\A a \in Actors : pc[a] \notin MovingPCs) => dmaCtl = ALL_DSPS

\* Control points of the register sequences.
UsingPCs == StartPCs \cup TeardownPCs \cup ResetPCs

ZeroIdx == \A x \in RingIds : idx[x] = [bell |-> 0, write |-> 0, read |-> 0]

\* A start begins with every index at zero, and no step moves one.
IdxInv == linked /\ (Running \/ \E a \in Actors : pc[a] \in UsingPCs) => ZeroIdx

\* What a result about to be returned says about started.
ResultOf(c) ==
  pc[c] = "unlock" /\ ret[c] = "ok" =>
    /\ ~ removing[dv[c]]
    /\ op[c] \in {"start", "reset"} => started[dv[c]]
    /\ op[c] = "stop" => ~ started[dv[c]]

ResultInv == \A c \in Clients : ResultOf(c)

TransportInv == DmaInv /\ IdxInv /\ ResultInv

----------------------------------------------------------------------------
(* The control points and the words of the DMA control register.           *)

LEMMA UsingPoints ==
  /\ UsingPCs \subseteq ActivePCs /\ MovingPCs \subseteq UsingPCs
  /\ ActivePCs = UsingPCs \cup {"switch"} /\ InitLoop \subseteq UsingPCs
BY DEF UsingPCs, MovingPCs, ActivePCs, InitLoop, StartPCs, TeardownPCs, ResetPCs

\* An actor in a locked section is alone and works on the bound generation.
LEMMA Sole ==
  ASSUME Owners, NEW a \in Actors, pc[a] \in ActivePCs
  PROVE  /\ \A b \in Actors \ {a} : pc[b] \notin ActivePCs
         /\ dv[a] = bound /\ bound \in Gens /\ bound # 0
BY Alone, CardAssumption DEF Owners, LoopOK, CorePCs, ActivePCs, StartPCs, TeardownPCs, ResetPCs, Gens,
   Actors

----------------------------------------------------------------------------
(* The DMA control register.                                               *)

\* A step of the only actor in a register sequence.
LEMMA DmaSole ==
  ASSUME NEW a \in Actors,
         \A b \in Actors \ {a} : pc'[b] \notin ActivePCs,
         linked' => DmaAt(a)',
         linked' /\ Running' /\ pc'[a] \notin MovingPCs => dmaCtl' = ALL_DSPS
  PROVE  DmaInv'
<1>1. ASSUME NEW b \in Actors \ {a} PROVE DmaAt(b)'
  <2>1. pc'[b] \notin UsingPCs
    BY UsingPoints
  <2> QED BY <2>1 DEF DmaAt, UsingPCs, InitLoop, StartPCs, TeardownPCs, ResetPCs
<1> QED BY <1>1 DEF DmaInv

\* A step outside the register sequences.
LEMMA DmaQuiet ==
  ASSUME DmaInv, NEW a \in Actors, UNCHANGED dmaCtl, linked' => linked, Running' => Running,
         \A b \in Actors \ {a} : pc'[b] = pc[b] /\ dsp'[b] = dsp[b],
         pc[a] \notin MovingPCs, pc'[a] \notin UsingPCs
  PROVE  DmaInv'
<1>1. ASSUME linked' PROVE \A b \in Actors : DmaAt(b)'
  <2> TAKE b \in Actors
  <2>1. CASE b = a
    BY <2>1 DEF DmaAt, UsingPCs, InitLoop, StartPCs, TeardownPCs, ResetPCs
  <2>2. CASE b # a
    BY <1>1, <2>2 DEF DmaAt, DmaInv
  <2> QED BY <2>1, <2>2
<1>2. ASSUME linked', Running', \A b \in Actors : pc'[b] \notin MovingPCs
      PROVE  dmaCtl' = ALL_DSPS
  BY <1>2 DEF DmaInv
<1> QED BY <1>1, <1>2 DEF DmaInv

\* Each write of the register sequences leaves the register as the control
\* point it goes to says.
LEMMA DmaStep ==
  ASSUME Owners, Usage, DmaInv, [Next]_vars
  PROVE  DmaInv'
<1>t. TypeOK /\ LoopOK
  BY DEF Owners
<1> USE CardAssumption, ActorAssumption DEF TypeOK, HostTypeOK, At, Goto, Finish,
        busVars, devVars, argVars, loopVars, cardVars, Actors, Gens
<1>1. ASSUME NEW c \in Clients, OpenCall(c) PROVE DmaInv'
  <2>1. /\ UNCHANGED <<dmaCtl, linked>> /\ (Running' => Running)
        /\ \A b \in Actors \ {c} : pc'[b] = pc[b] /\ dsp'[b] = dsp[b]
    BY <1>t, <1>1 DEF OpenCall, Running
  <2>2. pc[c] \notin MovingPCs /\ pc'[c] \notin UsingPCs
    BY <1>t, <1>1 DEF OpenCall, UsingPCs, MovingPCs, StartPCs, TeardownPCs, ResetPCs
  <2> QED BY <2>1, <2>2, DmaQuiet DEF Running
<1>2. ASSUME NEW c \in Clients, Open(c) PROVE DmaInv'
  <2>1. /\ UNCHANGED <<dmaCtl, linked>> /\ (Running' => Running)
        /\ \A b \in Actors \ {c} : pc'[b] = pc[b] /\ dsp'[b] = dsp[b]
    BY <1>t, <1>2 DEF Open, Running
  <2>2. pc[c] \notin MovingPCs /\ pc'[c] \notin UsingPCs
    BY <1>t, <1>2 DEF Open, UsingPCs, MovingPCs, StartPCs, TeardownPCs, ResetPCs
  <2> QED BY <2>1, <2>2, DmaQuiet DEF Running
<1>3. ASSUME NEW c \in Clients, Release(c) PROVE DmaInv'
  <2>1. /\ UNCHANGED <<dmaCtl, linked>> /\ (Running' => Running)
        /\ \A b \in Actors \ {c} : pc'[b] = pc[b] /\ dsp'[b] = dsp[b]
    BY <1>t, <1>3 DEF Release, KrefPut, Running
  <2>2. pc[c] \notin MovingPCs /\ pc'[c] \notin UsingPCs
    BY <1>t, <1>3 DEF Release, KrefPut, UsingPCs, MovingPCs, StartPCs, TeardownPCs, ResetPCs
  <2> QED BY <2>1, <2>2, DmaQuiet DEF Running
<1>4. ASSUME NEW c \in Clients, IoctlCall(c) PROVE DmaInv'
  <2>1. /\ UNCHANGED <<dmaCtl, linked>> /\ (Running' => Running)
        /\ \A b \in Actors \ {c} : pc'[b] = pc[b] /\ dsp'[b] = dsp[b]
    BY <1>t, <1>4 DEF IoctlCall, Running
  <2>2. pc[c] \notin MovingPCs /\ pc'[c] \notin UsingPCs
    BY <1>t, <1>4 DEF IoctlCall, UsingPCs, MovingPCs, StartPCs, TeardownPCs, ResetPCs
  <2> QED BY <2>1, <2>2, DmaQuiet DEF Running
<1>5. ASSUME NEW c \in Clients, Lock(c) PROVE DmaInv'
  <2>1. /\ UNCHANGED <<dmaCtl, linked>> /\ (Running' => Running)
        /\ \A b \in Actors \ {c} : pc'[b] = pc[b] /\ dsp'[b] = dsp[b]
    BY <1>t, <1>5 DEF Lock, Running
  <2>2. pc[c] \notin MovingPCs /\ pc'[c] \notin UsingPCs
    BY <1>t, <1>5 DEF Lock, UsingPCs, MovingPCs, StartPCs, TeardownPCs, ResetPCs
  <2> QED BY <2>1, <2>2, DmaQuiet DEF Running
<1>6. ASSUME NEW c \in Clients, Query(c) PROVE DmaInv'
  <2>1. /\ UNCHANGED <<dmaCtl, linked>> /\ (Running' => Running)
        /\ \A b \in Actors \ {c} : pc'[b] = pc[b] /\ dsp'[b] = dsp[b]
    BY <1>t, <1>6 DEF Query, Running
  <2>2. pc[c] \notin MovingPCs /\ pc'[c] \notin UsingPCs
    BY <1>t, <1>6 DEF Query, UsingPCs, MovingPCs, StartPCs, TeardownPCs, ResetPCs
  <2> QED BY <2>1, <2>2, DmaQuiet DEF Running
<1>7. ASSUME NEW c \in Clients, NotCapable(c) PROVE DmaInv'
  <2>1. /\ UNCHANGED <<dmaCtl, linked>> /\ (Running' => Running)
        /\ \A b \in Actors \ {c} : pc'[b] = pc[b] /\ dsp'[b] = dsp[b]
    BY <1>t, <1>7 DEF NotCapable, Running
  <2>2. pc[c] \notin MovingPCs /\ pc'[c] \notin UsingPCs
    BY <1>t, <1>7 DEF NotCapable, UsingPCs, MovingPCs, StartPCs, TeardownPCs, ResetPCs
  <2> QED BY <2>1, <2>2, DmaQuiet DEF Running
<1>8. ASSUME NEW c \in Clients, Unlock(c) PROVE DmaInv'
  <2>1. /\ UNCHANGED <<dmaCtl, linked>> /\ (Running' => Running)
        /\ \A b \in Actors \ {c} : pc'[b] = pc[b] /\ dsp'[b] = dsp[b]
    BY <1>t, <1>8 DEF Unlock, Running
  <2>2. pc[c] \notin MovingPCs /\ pc'[c] \notin UsingPCs
    BY <1>t, <1>8 DEF Unlock, UsingPCs, MovingPCs, StartPCs, TeardownPCs, ResetPCs
  <2> QED BY <2>1, <2>2, DmaQuiet DEF Running
<1>9. ASSUME NEW c \in Clients, StartEnter(c) PROVE DmaInv'
  <2>0. /\ pc[c] \in ActivePCs
        /\ \A b \in Actors \ {c} : pc'[b] = pc[b] /\ pc[b] \notin ActivePCs
        /\ dv[c] = bound /\ bound \in Gens /\ bound # 0
    BY <1>t, <1>9, Sole DEF StartEnter, ActivePCs, StartPCs, TeardownPCs, ResetPCs
  <2>1. UNCHANGED <<dmaCtl, linked, bound, started>> /\ \A b \in Actors : dsp'[b] = dsp[b]
    BY <1>9 DEF StartEnter
  <2>2. CASE pc'[c] = "unlock"
    <3>1. pc[c] \notin MovingPCs /\ pc'[c] \notin UsingPCs
      BY <1>9, <2>2 DEF StartEnter, UsingPCs, MovingPCs, StartPCs, TeardownPCs, ResetPCs
    <3> QED BY <2>0, <2>1, <3>1, DmaQuiet DEF Running
  <2>3. CASE pc'[c] = "setMaster"
    <3>1. ~ started[bound] /\ dmaCtl = COLD_RESET
      BY <1>t, <1>9, <2>0, <2>3 DEF StartEnter, ColdPrecondition, ReadDma
    <3> QED BY <2>0, <2>1, <2>3, <3>1, DmaSole DEF DmaAt, Running, InitLoop
  <2> QED BY <1>t, <1>9, <2>2, <2>3 DEF StartEnter
<1>10. ASSUME NEW c \in Clients, SetMaster(c) PROVE DmaInv'
  <2>0. /\ pc[c] \in ActivePCs
        /\ \A b \in Actors \ {c} : pc'[b] = pc[b] /\ pc[b] \notin ActivePCs
        /\ dv[c] = bound /\ bound \in Gens /\ bound # 0
    BY <1>t, <1>10, Sole DEF SetMaster, ActivePCs, StartPCs, TeardownPCs, ResetPCs
  <2>1. ~ Running'
    BY <1>10, <2>0 DEF SetMaster, Running, Usage, StartedInv, StartPCs
  <2>2. linked' => dmaCtl' = COLD_RESET
    BY <1>10 DEF SetMaster, DisableInterrupts, DmaInv, DmaAt
  <2>3. pc'[c] \in {"quiesce", "resetGlobal"}
    BY <1>t, <1>10 DEF SetMaster
  <2> QED BY <2>0, <2>1, <2>2, <2>3, DmaSole DEF DmaAt, InitLoop
<1>11. ASSUME NEW c \in Clients, Quiesce(c) PROVE DmaInv'
  <2>0. /\ pc[c] \in ActivePCs
        /\ \A b \in Actors \ {c} : pc'[b] = pc[b] /\ pc[b] \notin ActivePCs
        /\ dv[c] = bound /\ bound \in Gens /\ bound # 0
    BY <1>t, <1>11, Sole DEF Quiesce, ActivePCs, StartPCs, TeardownPCs, ResetPCs
  <2>1. ~ Running'
    BY <1>11, <2>0 DEF Quiesce, Running, Usage, StartedInv, StartPCs
  <2>2. linked' => dmaCtl' = COLD_RESET
    BY <1>11 DEF Quiesce, DisableInterrupts, DmaInv, DmaAt
  <2>3. pc'[c] \in {"quiesce", "resetGlobal"}
    BY <1>t, <1>11 DEF Quiesce
  <2> QED BY <2>0, <2>1, <2>2, <2>3, DmaSole DEF DmaAt, InitLoop
<1>12. ASSUME NEW c \in Clients, ResetGlobal(c) PROVE DmaInv'
  <2>0. /\ pc[c] \in ActivePCs
        /\ \A b \in Actors \ {c} : pc'[b] = pc[b] /\ pc[b] \notin ActivePCs
        /\ dv[c] = bound /\ bound \in Gens /\ bound # 0
    BY <1>t, <1>12, Sole DEF ResetGlobal, ActivePCs, StartPCs, TeardownPCs, ResetPCs
  <2>1. ~ Running'
    BY <1>12, <2>0 DEF ResetGlobal, Running, Usage, StartedInv, StartPCs
  <2>2. linked' => dmaCtl' = RESET_GLOBAL
    BY <1>12 DEF ResetGlobal, WriteDma
  <2>3. pc'[c] = "globalOnly"
    BY <1>t, <1>12 DEF ResetGlobal
  <2> QED BY <2>0, <2>1, <2>2, <2>3, DmaSole DEF DmaAt, InitLoop
<1>13. ASSUME NEW c \in Clients, GlobalOnly(c) PROVE DmaInv'
  <2>0. /\ pc[c] \in ActivePCs
        /\ \A b \in Actors \ {c} : pc'[b] = pc[b] /\ pc[b] \notin ActivePCs
        /\ dv[c] = bound /\ bound \in Gens /\ bound # 0
    BY <1>t, <1>13, Sole DEF GlobalOnly, ActivePCs, StartPCs, TeardownPCs, ResetPCs
  <2>1. ~ Running'
    BY <1>13, <2>0 DEF GlobalOnly, Running, Usage, StartedInv, StartPCs
  <2>2. linked' => dmaCtl' = EnableUpTo(0 - 1)
    BY <1>13, Shadows DEF GlobalOnly, WriteDma
  <2>3. pc'[c] = "ringIndex" /\ dsp'[c] = 0
    BY <1>t, <1>13 DEF GlobalOnly
  <2> QED BY <2>0, <2>1, <2>2, <2>3, DmaSole DEF DmaAt, InitLoop
<1>14. ASSUME NEW c \in Clients, RingIndex(c) PROVE DmaInv'
  <2>0. /\ pc[c] \in ActivePCs
        /\ \A b \in Actors \ {c} : pc'[b] = pc[b] /\ pc[b] \notin ActivePCs
        /\ dv[c] = bound /\ bound \in Gens /\ bound # 0
    BY <1>t, <1>14, Sole DEF RingIndex, ActivePCs, StartPCs, TeardownPCs, ResetPCs
  <2>1. ~ Running'
    BY <1>14, <2>0 DEF RingIndex, WriteIndexes, WriteDesc, Running, Usage, StartedInv, StartPCs
  <2>2. UNCHANGED <<dmaCtl, linked, dsp>>
    BY <1>14 DEF RingIndex, WriteIndexes, WriteDesc
  <2>3. pc[c] \in InitLoop /\ pc'[c] \in InitLoop
    BY <1>t, <1>14 DEF RingIndex, InitLoop
  <2>4. linked => dmaCtl = EnableUpTo(dsp[c] - 1)
    BY <2>3 DEF DmaInv, DmaAt
  <2> QED BY <2>0, <2>1, <2>2, <2>3, <2>4, DmaSole DEF DmaAt, InitLoop
<1>15. ASSUME NEW c \in Clients, RingDesc(c) PROVE DmaInv'
  <2>0. /\ pc[c] \in ActivePCs
        /\ \A b \in Actors \ {c} : pc'[b] = pc[b] /\ pc[b] \notin ActivePCs
        /\ dv[c] = bound /\ bound \in Gens /\ bound # 0
    BY <1>t, <1>15, Sole DEF RingDesc, ActivePCs, StartPCs, TeardownPCs, ResetPCs
  <2>1. ~ Running'
    BY <1>15, <2>0 DEF RingDesc, WriteIndexes, WriteDesc, Running, Usage, StartedInv, StartPCs
  <2>2. UNCHANGED <<dmaCtl, linked, dsp>>
    BY <1>15 DEF RingDesc, WriteIndexes, WriteDesc
  <2>3. pc[c] \in InitLoop /\ pc'[c] \in InitLoop
    BY <1>t, <1>15 DEF RingDesc, InitLoop
  <2>4. linked => dmaCtl = EnableUpTo(dsp[c] - 1)
    BY <2>3 DEF DmaInv, DmaAt
  <2> QED BY <2>0, <2>1, <2>2, <2>3, <2>4, DmaSole DEF DmaAt, InitLoop
<1>16. ASSUME NEW c \in Clients, RingDone(c) PROVE DmaInv'
  <2>0. /\ pc[c] \in ActivePCs
        /\ \A b \in Actors \ {c} : pc'[b] = pc[b] /\ pc[b] \notin ActivePCs
        /\ dv[c] = bound /\ bound \in Gens /\ bound # 0
    BY <1>t, <1>16, Sole DEF RingDone, ActivePCs, StartPCs, TeardownPCs, ResetPCs
  <2>1. ~ Running'
    BY <1>16, <2>0 DEF RingDone, WriteIndexes, WriteDesc, Running, Usage, StartedInv, StartPCs
  <2>2. UNCHANGED <<dmaCtl, linked, dsp>>
    BY <1>16 DEF RingDone, WriteIndexes, WriteDesc
  <2>3. pc[c] \in InitLoop /\ pc'[c] \in InitLoop
    BY <1>t, <1>16 DEF RingDone, InitLoop
  <2>4. linked => dmaCtl = EnableUpTo(dsp[c] - 1)
    BY <2>3 DEF DmaInv, DmaAt
  <2> QED BY <2>0, <2>1, <2>2, <2>3, <2>4, DmaSole DEF DmaAt, InitLoop
<1>17. ASSUME NEW c \in Clients, Enable(c) PROVE DmaInv'
  <2>0. /\ pc[c] \in ActivePCs
        /\ \A b \in Actors \ {c} : pc'[b] = pc[b] /\ pc[b] \notin ActivePCs
        /\ dv[c] = bound /\ bound \in Gens /\ bound # 0
    BY <1>t, <1>17, Sole DEF Enable, ActivePCs, StartPCs, TeardownPCs, ResetPCs
  <2>1. ~ Running'
    BY <1>17, <2>0 DEF Enable, Running, Usage, StartedInv, StartPCs
  <2>2. dsp[c] \in DSPS /\ (linked' => dmaCtl' = EnableUpTo(dsp[c]))
    BY <1>t, <1>17 DEF Enable, WriteDma, LoopOK, InitLoop
  <2>3. CASE dsp[c] = NDsp - 1
    <3>1. pc'[c] = "verify"
      BY <1>t, <1>17, <2>3 DEF Enable
    <3>2. linked' => dmaCtl' = ALL_DSPS
      BY <2>2, <2>3, Shadows
    <3> QED BY <2>0, <2>1, <3>1, <3>2, DmaSole DEF DmaAt, InitLoop
  <2>4. CASE dsp[c] # NDsp - 1
    <3>1. pc'[c] = "ringIndex" /\ dsp'[c] = dsp[c] + 1
      BY <1>t, <1>17, <2>4 DEF Enable
    <3>2. dsp'[c] - 1 = dsp[c]
      BY <2>2, <3>1 DEF DSPS
    <3> QED BY <2>0, <2>1, <2>2, <3>1, <3>2, DmaSole DEF DmaAt, InitLoop
  <2> QED BY <2>3, <2>4
<1>18. ASSUME NEW c \in Clients, Verify(c) PROVE DmaInv'
  <2>0. /\ pc[c] \in ActivePCs
        /\ \A b \in Actors \ {c} : pc'[b] = pc[b] /\ pc[b] \notin ActivePCs
        /\ dv[c] = bound /\ bound \in Gens /\ bound # 0
    BY <1>t, <1>18, Sole DEF Verify, ActivePCs, StartPCs, TeardownPCs, ResetPCs
  <2>1. /\ UNCHANGED <<dmaCtl, linked, bound, dsp>> /\ pc'[c] \in {"unlock", "tdInt"}
    BY <1>t, <1>18 DEF Verify
  <2>2. linked => dmaCtl = ALL_DSPS
    BY <1>18 DEF Verify, DmaInv, DmaAt
  <2> QED BY <2>0, <2>1, <2>2, DmaSole DEF DmaAt, InitLoop
<1>19. ASSUME NEW c \in Clients, StopEnter(c) PROVE DmaInv'
  <2>0. /\ pc[c] \in ActivePCs
        /\ \A b \in Actors \ {c} : pc'[b] = pc[b] /\ pc[b] \notin ActivePCs
        /\ dv[c] = bound /\ bound \in Gens /\ bound # 0
    BY <1>t, <1>19, Sole DEF StopEnter, ActivePCs, StartPCs, TeardownPCs, ResetPCs
  <2>1. UNCHANGED <<dmaCtl, linked, bound, started>> /\ \A b \in Actors : dsp'[b] = dsp[b]
    BY <1>19 DEF StopEnter
  <2>2. CASE pc'[c] = "unlock"
    <3>1. pc[c] \notin MovingPCs /\ pc'[c] \notin UsingPCs
      BY <1>19, <2>2 DEF StopEnter, UsingPCs, MovingPCs, StartPCs, TeardownPCs, ResetPCs
    <3> QED BY <2>0, <2>1, <3>1, DmaQuiet DEF Running
  <2>3. CASE pc'[c] = "tdInt"
    <3>1. started[bound] /\ pc[c] \notin MovingPCs
      BY <1>t, <1>19, <2>0, <2>3 DEF StopEnter, MovingPCs
    <3>2. linked => dmaCtl = ALL_DSPS
      BY <2>0, <3>1, UsingPoints DEF DmaInv, Running
    <3> QED BY <2>0, <2>1, <2>3, <3>2, DmaSole DEF DmaAt, InitLoop
  <2> QED BY <1>t, <1>19, <2>2, <2>3 DEF StopEnter
<1>20. ASSUME NEW c \in Clients, ResetEnter(c) PROVE DmaInv'
  <2>0. /\ pc[c] \in ActivePCs
        /\ \A b \in Actors \ {c} : pc'[b] = pc[b] /\ pc[b] \notin ActivePCs
        /\ dv[c] = bound /\ bound \in Gens /\ bound # 0
    BY <1>t, <1>20, Sole DEF ResetEnter, ActivePCs, StartPCs, TeardownPCs, ResetPCs
  <2>1. UNCHANGED <<dmaCtl, linked, bound, started>> /\ \A b \in Actors : dsp'[b] = dsp[b]
    BY <1>20 DEF ResetEnter
  <2>2. CASE pc'[c] = "unlock"
    <3>1. pc[c] \notin MovingPCs /\ pc'[c] \notin UsingPCs
      BY <1>20, <2>2 DEF ResetEnter, UsingPCs, MovingPCs, StartPCs, TeardownPCs, ResetPCs
    <3> QED BY <2>0, <2>1, <3>1, DmaQuiet DEF Running
  <2>3. CASE pc'[c] = "pulse"
    <3>1. linked => dmaCtl = ALL_DSPS
      BY <1>t, <1>20, <2>3 DEF ResetEnter, ReadDma
    <3> QED BY <2>0, <2>1, <2>3, <3>1, DmaSole DEF DmaAt, InitLoop
  <2> QED BY <1>t, <1>20, <2>2, <2>3 DEF ResetEnter
<1>21. ASSUME NEW c \in Clients, Pulse(c) PROVE DmaInv'
  <2>0. /\ pc[c] \in ActivePCs
        /\ \A b \in Actors \ {c} : pc'[b] = pc[b] /\ pc[b] \notin ActivePCs
        /\ dv[c] = bound /\ bound \in Gens /\ bound # 0
    BY <1>t, <1>21, Sole DEF Pulse, ActivePCs, StartPCs, TeardownPCs, ResetPCs
  <2>1. (linked' => dmaCtl' = Pulsed(dsp[c])) /\ pc'[c] = "unpulse" /\ dsp' = dsp
    BY <1>t, <1>21 DEF Pulse, WriteDma, Pulsed
  <2> QED BY <2>0, <2>1, DmaSole DEF DmaAt, InitLoop, MovingPCs
<1>22. ASSUME NEW c \in Clients, Unpulse(c) PROVE DmaInv'
  <2>0. /\ pc[c] \in ActivePCs
        /\ \A b \in Actors \ {c} : pc'[b] = pc[b] /\ pc[b] \notin ActivePCs
        /\ dv[c] = bound /\ bound \in Gens /\ bound # 0
    BY <1>t, <1>22, Sole DEF Unpulse, ActivePCs, StartPCs, TeardownPCs, ResetPCs
  <2>1. (linked' => dmaCtl' = Disabled(dsp[c])) /\ pc'[c] = "reenable" /\ dsp' = dsp
    BY <1>t, <1>22 DEF Unpulse, WriteDma, Pulsed
  <2> QED BY <2>0, <2>1, DmaSole DEF DmaAt, InitLoop, MovingPCs
<1>23. ASSUME NEW c \in Clients, Reenable(c) PROVE DmaInv'
  <2>0. /\ pc[c] \in ActivePCs
        /\ \A b \in Actors \ {c} : pc'[b] = pc[b] /\ pc[b] \notin ActivePCs
        /\ dv[c] = bound /\ bound \in Gens /\ bound # 0
    BY <1>t, <1>23, Sole DEF Reenable, ActivePCs, StartPCs, TeardownPCs, ResetPCs
  <2>1. (linked' => dmaCtl' = ALL_DSPS) /\ pc'[c] = "resetCheck" /\ dsp' = dsp
    BY <1>t, <1>23 DEF Reenable, WriteDma, Pulsed
  <2> QED BY <2>0, <2>1, DmaSole DEF DmaAt, InitLoop, MovingPCs
<1>24. ASSUME NEW c \in Clients, ResetCheck(c) PROVE DmaInv'
  <2>1. /\ UNCHANGED <<dmaCtl, linked>> /\ (Running' => Running)
        /\ \A b \in Actors \ {c} : pc'[b] = pc[b] /\ dsp'[b] = dsp[b]
    BY <1>t, <1>24 DEF ResetCheck, Running
  <2>2. pc[c] \notin MovingPCs /\ pc'[c] \notin UsingPCs
    BY <1>t, <1>24 DEF ResetCheck, UsingPCs, MovingPCs, StartPCs, TeardownPCs, ResetPCs
  <2> QED BY <2>1, <2>2, DmaQuiet DEF Running
<1>25. ASSUME NEW a \in Actors, TdInt(a) PROVE DmaInv'
  <2>0. /\ pc[a] \in ActivePCs
        /\ \A b \in Actors \ {a} : pc'[b] = pc[b] /\ pc[b] \notin ActivePCs
        /\ dv[a] = bound /\ bound \in Gens /\ bound # 0
    BY <1>t, <1>25, Sole DEF TdInt, ActivePCs, StartPCs, TeardownPCs, ResetPCs
  <2>1. UNCHANGED <<dmaCtl, linked>> /\ pc'[a] = "tdReset"
    BY <1>t, <1>25 DEF TdInt, DisableInterrupts
  <2>2. linked => dmaCtl = ALL_DSPS
    BY <1>25 DEF TdInt, DmaInv, DmaAt
  <2> QED BY <2>0, <2>1, <2>2, DmaSole DEF DmaAt, InitLoop
<1>26. ASSUME NEW a \in Actors, TdReset(a) PROVE DmaInv'
  <2>0. /\ pc[a] \in ActivePCs
        /\ \A b \in Actors \ {a} : pc'[b] = pc[b] /\ pc[b] \notin ActivePCs
        /\ dv[a] = bound /\ bound \in Gens /\ bound # 0
    BY <1>t, <1>26, Sole DEF TdReset, ActivePCs, StartPCs, TeardownPCs, ResetPCs
  <2>1. (linked' => dmaCtl' = RESET_GLOBAL) /\ pc'[a] = "tdGlobal"
    BY <1>t, <1>26 DEF TdReset, WriteDma
  <2> QED BY <2>0, <2>1, DmaSole DEF DmaAt, InitLoop, MovingPCs
<1>27. ASSUME NEW a \in Actors, TdGlobal(a) PROVE DmaInv'
  <2>0. /\ pc[a] \in ActivePCs
        /\ \A b \in Actors \ {a} : pc'[b] = pc[b] /\ pc[b] \notin ActivePCs
        /\ dv[a] = bound /\ bound \in Gens /\ bound # 0
    BY <1>t, <1>27, Sole DEF TdGlobal, ActivePCs, StartPCs, TeardownPCs, ResetPCs
  <2>1. (linked' => dmaCtl' = GLOBAL_ONLY) /\ pc'[a] = "tdClear"
    BY <1>t, <1>27 DEF TdGlobal, WriteDma
  <2> QED BY <2>0, <2>1, DmaSole DEF DmaAt, InitLoop, MovingPCs
<1>28. ASSUME NEW a \in Actors, TdClear(a) PROVE DmaInv'
  <2>0. /\ pc[a] \in ActivePCs
        /\ \A b \in Actors \ {a} : pc'[b] = pc[b] /\ pc[b] \notin ActivePCs
        /\ dv[a] = bound /\ bound \in Gens /\ bound # 0
    BY <1>t, <1>28, Sole DEF TdClear, ActivePCs, StartPCs, TeardownPCs, ResetPCs
  <2>1. UNCHANGED <<dmaCtl, linked>> /\ pc'[a] \in {"tdClear", "tdCold"}
    BY <1>t, <1>28 DEF TdClear, ClearRing
  <2>2. linked => dmaCtl = GLOBAL_ONLY
    BY <1>28 DEF TdClear, DmaInv, DmaAt
  <2> QED BY <2>0, <2>1, <2>2, DmaSole DEF DmaAt, InitLoop, MovingPCs
<1>29. ASSUME NEW a \in Actors, TdCold(a) PROVE DmaInv'
  <2>0. /\ pc[a] \in ActivePCs
        /\ \A b \in Actors \ {a} : pc'[b] = pc[b] /\ pc[b] \notin ActivePCs
        /\ dv[a] = bound /\ bound \in Gens /\ bound # 0
    BY <1>t, <1>29, Sole DEF TdCold, ActivePCs, StartPCs, TeardownPCs, ResetPCs
  <2>1. (linked' => dmaCtl' = COLD_RESET) /\ pc'[a] = "tdMaster"
    BY <1>t, <1>29 DEF TdCold, WriteDma
  <2> QED BY <2>0, <2>1, DmaSole DEF DmaAt, InitLoop, MovingPCs
<1>30. ASSUME NEW a \in Actors, TdMaster(a) PROVE DmaInv'
  <2>0. /\ pc[a] \in ActivePCs
        /\ \A b \in Actors \ {a} : pc'[b] = pc[b] /\ pc[b] \notin ActivePCs
        /\ dv[a] = bound /\ bound \in Gens /\ bound # 0
    BY <1>t, <1>30, Sole DEF TdMaster, ActivePCs, StartPCs, TeardownPCs, ResetPCs
  <2>1. pc'[a] \in {"unlock", "tdCheck"}
    BY <1>t, <1>30 DEF TdMaster
  <2>2. ~ Running'
    BY <1>t, <1>30, <2>0 DEF TdMaster, Running, Usage, StartedInv, LoopOK, TeardownPCs
  <2> QED BY <2>0, <2>1, <2>2, DmaSole DEF DmaAt, InitLoop
<1>31. ASSUME NEW a \in Actors, TdCheck(a) PROVE DmaInv'
  <2>1. /\ UNCHANGED <<dmaCtl, linked>> /\ (Running' => Running)
        /\ \A b \in Actors \ {a} : pc'[b] = pc[b] /\ dsp'[b] = dsp[b]
    BY <1>t, <1>31 DEF TdCheck, Running
  <2>2. pc[a] \notin MovingPCs /\ pc'[a] \notin UsingPCs
    BY <1>t, <1>31 DEF TdCheck, UsingPCs, MovingPCs, StartPCs, TeardownPCs, ResetPCs
  <2> QED BY <2>1, <2>2, DmaQuiet DEF Running
<1>32. ASSUME ProbeCall PROVE DmaInv'
  <2>1. /\ UNCHANGED <<dmaCtl, linked, started>> /\ bound = 0 /\ bound' \in Gens
        /\ \A b \in Actors \ {Core} : pc'[b] = pc[b] /\ dsp'[b] = dsp[b]
    BY <1>t, <1>32 DEF ProbeCall
  <2>2. pc[Core] \notin MovingPCs /\ pc'[Core] \notin UsingPCs
    BY <1>t, <1>32 DEF ProbeCall, UsingPCs, MovingPCs, StartPCs, TeardownPCs, ResetPCs
  <2>3. ~ Running'
    BY <2>1 DEF Running, Usage, StartedInv
  <2> QED BY <2>1, <2>2, <2>3, DmaQuiet DEF Running
<1>33. ASSUME ProbeEnable PROVE DmaInv'
  <2>1. /\ UNCHANGED <<dmaCtl, linked>> /\ (Running' => Running)
        /\ \A b \in Actors \ {Core} : pc'[b] = pc[b] /\ dsp'[b] = dsp[b]
    BY <1>t, <1>33 DEF ProbeEnable, Acquire, Running
  <2>2. pc[Core] \notin MovingPCs /\ pc'[Core] \notin UsingPCs
    BY <1>t, <1>33 DEF ProbeEnable, Acquire, UsingPCs, MovingPCs, StartPCs, TeardownPCs, ResetPCs
  <2> QED BY <2>1, <2>2, DmaQuiet DEF Running
<1>34. ASSUME ProbeRegion PROVE DmaInv'
  <2>1. /\ UNCHANGED <<dmaCtl, linked>> /\ (Running' => Running)
        /\ \A b \in Actors \ {Core} : pc'[b] = pc[b] /\ dsp'[b] = dsp[b]
    BY <1>t, <1>34 DEF ProbeRegion, Acquire, Running
  <2>2. pc[Core] \notin MovingPCs /\ pc'[Core] \notin UsingPCs
    BY <1>t, <1>34 DEF ProbeRegion, Acquire, UsingPCs, MovingPCs, StartPCs, TeardownPCs, ResetPCs
  <2> QED BY <2>1, <2>2, DmaQuiet DEF Running
<1>35. ASSUME ProbeMap PROVE DmaInv'
  <2>1. /\ UNCHANGED <<dmaCtl, linked>> /\ (Running' => Running)
        /\ \A b \in Actors \ {Core} : pc'[b] = pc[b] /\ dsp'[b] = dsp[b]
    BY <1>t, <1>35 DEF ProbeMap, Acquire, Running
  <2>2. pc[Core] \notin MovingPCs /\ pc'[Core] \notin UsingPCs
    BY <1>t, <1>35 DEF ProbeMap, Acquire, UsingPCs, MovingPCs, StartPCs, TeardownPCs, ResetPCs
  <2> QED BY <2>1, <2>2, DmaQuiet DEF Running
<1>36. ASSUME ProbeCold PROVE DmaInv'
  <2>1. /\ UNCHANGED <<dmaCtl, linked>> /\ (Running' => Running)
        /\ \A b \in Actors \ {Core} : pc'[b] = pc[b] /\ dsp'[b] = dsp[b]
    BY <1>t, <1>36 DEF ProbeCold, Running
  <2>2. pc[Core] \notin MovingPCs /\ pc'[Core] \notin UsingPCs
    BY <1>t, <1>36 DEF ProbeCold, UsingPCs, MovingPCs, StartPCs, TeardownPCs, ResetPCs
  <2> QED BY <2>1, <2>2, DmaQuiet DEF Running
<1>37. ASSUME ProbeAlloc PROVE DmaInv'
  <2>1. /\ UNCHANGED <<dmaCtl, linked>> /\ (Running' => Running)
        /\ \A b \in Actors \ {Core} : pc'[b] = pc[b] /\ dsp'[b] = dsp[b]
    BY <1>t, <1>37 DEF ProbeAlloc, Running
  <2>2. pc[Core] \notin MovingPCs /\ pc'[Core] \notin UsingPCs
    BY <1>t, <1>37 DEF ProbeAlloc, UsingPCs, MovingPCs, StartPCs, TeardownPCs, ResetPCs
  <2> QED BY <2>1, <2>2, DmaQuiet DEF Running
<1>38. ASSUME ProbeRegister PROVE DmaInv'
  <2>1. /\ UNCHANGED <<dmaCtl, linked>> /\ (Running' => Running)
        /\ \A b \in Actors \ {Core} : pc'[b] = pc[b] /\ dsp'[b] = dsp[b]
    BY <1>t, <1>38 DEF ProbeRegister, Running
  <2>2. pc[Core] \notin MovingPCs /\ pc'[Core] \notin UsingPCs
    BY <1>t, <1>38 DEF ProbeRegister, UsingPCs, MovingPCs, StartPCs, TeardownPCs, ResetPCs
  <2> QED BY <2>1, <2>2, DmaQuiet DEF Running
<1>39. ASSUME RemoveCall PROVE DmaInv'
  <2>1. /\ UNCHANGED <<dmaCtl, linked>> /\ (Running' => Running)
        /\ \A b \in Actors \ {Core} : pc'[b] = pc[b] /\ dsp'[b] = dsp[b]
    BY <1>t, <1>39 DEF RemoveCall, Running
  <2>2. pc[Core] \notin MovingPCs /\ pc'[Core] \notin UsingPCs
    BY <1>t, <1>39 DEF RemoveCall, UsingPCs, MovingPCs, StartPCs, TeardownPCs, ResetPCs
  <2> QED BY <2>1, <2>2, DmaQuiet DEF Running
<1>40. ASSUME RemoveDeregister PROVE DmaInv'
  <2>1. /\ UNCHANGED <<dmaCtl, linked>> /\ (Running' => Running)
        /\ \A b \in Actors \ {Core} : pc'[b] = pc[b] /\ dsp'[b] = dsp[b]
    BY <1>t, <1>40 DEF RemoveDeregister, Running
  <2>2. pc[Core] \notin MovingPCs /\ pc'[Core] \notin UsingPCs
    BY <1>t, <1>40 DEF RemoveDeregister, UsingPCs, MovingPCs, StartPCs, TeardownPCs, ResetPCs
  <2> QED BY <2>1, <2>2, DmaQuiet DEF Running
<1>41. ASSUME RemoveLock PROVE DmaInv'
  <2>1. /\ UNCHANGED <<dmaCtl, linked, bound, started>> /\ pc[Core] = "rLock"
        /\ \A b \in Actors \ {Core} : pc'[b] = pc[b] /\ dsp'[b] = dsp[b]
        /\ dv[Core] = bound /\ owner[bound] = Nobody /\ bound \in Gens
    BY <1>t, <1>41 DEF RemoveLock, Owners, CoreInv
  <2>2. \A c \in Clients : pc[c] \notin ActivePCs
    BY <1>t, <2>1, ActiveClient DEF Owners
  <2>3. CASE started[bound]
    <3>1. pc'[Core] = "tdInt"
      BY <1>t, <1>41, <2>1, <2>3 DEF RemoveLock
    <3>2. linked => dmaCtl = ALL_DSPS
      BY <2>1, <2>2, <2>3, UsingPoints DEF DmaInv, Running, MovingPCs
    <3> QED BY <2>1, <2>2, <3>1, <3>2, DmaSole DEF DmaAt, InitLoop
  <2>4. CASE ~ started[bound]
    <3>1. pc'[Core] = "uFree"
      BY <1>t, <1>41, <2>1, <2>4 DEF RemoveLock
    <3>2. pc[Core] \notin MovingPCs /\ pc'[Core] \notin UsingPCs
      BY <2>1, <3>1 DEF UsingPCs, MovingPCs, StartPCs, TeardownPCs, ResetPCs
    <3> QED BY <2>1, <3>2, DmaQuiet DEF Running
  <2> QED BY <2>3, <2>4
<1>42. ASSUME FreePages PROVE DmaInv'
  <2>1. /\ UNCHANGED <<dmaCtl, linked>> /\ (Running' => Running)
        /\ \A b \in Actors \ {Core} : pc'[b] = pc[b] /\ dsp'[b] = dsp[b]
    BY <1>t, <1>42 DEF FreePages, Running
  <2>2. pc[Core] \notin MovingPCs /\ pc'[Core] \notin UsingPCs
    BY <1>t, <1>42 DEF FreePages, UsingPCs, MovingPCs, StartPCs, TeardownPCs, ResetPCs
  <2> QED BY <2>1, <2>2, DmaQuiet DEF Running
<1>43. ASSUME UnmapBar PROVE DmaInv'
  <2>1. /\ UNCHANGED <<dmaCtl, linked>> /\ (Running' => Running)
        /\ \A b \in Actors \ {Core} : pc'[b] = pc[b] /\ dsp'[b] = dsp[b]
    BY <1>t, <1>43 DEF UnmapBar, ReleaseResource, Running
  <2>2. pc[Core] \notin MovingPCs /\ pc'[Core] \notin UsingPCs
    BY <1>t, <1>43 DEF UnmapBar, ReleaseResource, UsingPCs, MovingPCs, StartPCs, TeardownPCs, ResetPCs
  <2> QED BY <2>1, <2>2, DmaQuiet DEF Running
<1>44. ASSUME ReleaseRegion PROVE DmaInv'
  <2>1. /\ UNCHANGED <<dmaCtl, linked>> /\ (Running' => Running)
        /\ \A b \in Actors \ {Core} : pc'[b] = pc[b] /\ dsp'[b] = dsp[b]
    BY <1>t, <1>44 DEF ReleaseRegion, ReleaseResource, Running
  <2>2. pc[Core] \notin MovingPCs /\ pc'[Core] \notin UsingPCs
    BY <1>t, <1>44 DEF ReleaseRegion, ReleaseResource, UsingPCs, MovingPCs, StartPCs, TeardownPCs, ResetPCs
  <2> QED BY <2>1, <2>2, DmaQuiet DEF Running
<1>45. ASSUME DisableDevice PROVE DmaInv'
  <2>1. /\ UNCHANGED <<dmaCtl, linked>> /\ (Running' => Running)
        /\ \A b \in Actors \ {Core} : pc'[b] = pc[b] /\ dsp'[b] = dsp[b]
    BY <1>t, <1>45 DEF DisableDevice, ReleaseResource, Running
  <2>2. pc[Core] \notin MovingPCs /\ pc'[Core] \notin UsingPCs
    BY <1>t, <1>45 DEF DisableDevice, ReleaseResource, UsingPCs, MovingPCs, StartPCs, TeardownPCs, ResetPCs
  <2> QED BY <2>1, <2>2, DmaQuiet DEF Running
<1>46. ASSUME RemoveUnlock PROVE DmaInv'
  <2>1. /\ UNCHANGED <<dmaCtl, linked>> /\ (Running' => Running)
        /\ \A b \in Actors \ {Core} : pc'[b] = pc[b] /\ dsp'[b] = dsp[b]
    BY <1>t, <1>46 DEF RemoveUnlock, Running
  <2>2. pc[Core] \notin MovingPCs /\ pc'[Core] \notin UsingPCs
    BY <1>t, <1>46 DEF RemoveUnlock, UsingPCs, MovingPCs, StartPCs, TeardownPCs, ResetPCs
  <2> QED BY <2>1, <2>2, DmaQuiet DEF Running
<1>47. ASSUME PutDevice PROVE DmaInv'
  <2>1. /\ UNCHANGED <<dmaCtl, linked>> /\ (Running' => Running)
        /\ \A b \in Actors \ {Core} : pc'[b] = pc[b] /\ dsp'[b] = dsp[b]
    BY <1>t, <1>47 DEF PutDevice, KrefPut, Running
  <2>2. pc[Core] \notin MovingPCs /\ pc'[Core] \notin UsingPCs
    BY <1>t, <1>47 DEF PutDevice, KrefPut, UsingPCs, MovingPCs, StartPCs, TeardownPCs, ResetPCs
  <2> QED BY <2>1, <2>2, DmaQuiet DEF Running
<1>90. ASSUME Card PROVE DmaInv'
  <2>1. UNCHANGED <<dmaCtl, pc, dsp, bound, started>> /\ (linked' => linked)
    BY <1>90 DEF Card, hostVars, CardStep, ReadyFlip, LinkLoss
  <2> QED BY <2>1 DEF DmaInv, DmaAt, Running
<1>91. ASSUME UNCHANGED vars PROVE DmaInv'
  BY <1>91 DEF vars, DmaInv, DmaAt, Running
<1> HIDE DEF TypeOK, HostTypeOK, At, Goto, Finish, busVars, devVars, argVars, loopVars, cardVars, Actors
<1> QED
  BY <1>1, <1>2, <1>3, <1>4, <1>5, <1>6, <1>7, <1>8, <1>9, <1>10, <1>11, <1>12, <1>13, <1>14, <1>15, <1>16, <1>17, <1>18, <1>19, <1>20, <1>21, <1>22, <1>23, <1>24, <1>25, <1>26, <1>27, <1>28, <1>29, <1>30, <1>31, <1>32, <1>33, <1>34, <1>35, <1>36, <1>37, <1>38, <1>39, <1>40, <1>41, <1>42, <1>43, <1>44, <1>45, <1>46, <1>47,
     <1>90, <1>91 DEF Next, ClientCall, ClientStep, StartStep, TeardownStep, ResetStep,
     CoreCall, CoreStep, Actors

----------------------------------------------------------------------------
(* The ring indexes.                                                       *)

\* No write of the driver moves an index away from zero.
LEMMA IdxWrites ==
  ASSUME CardTypeOK, ZeroIdx
  PROVE  /\ \A v : WriteDma(v) => ZeroIdx'
         /\ \A s, g : WriteDesc(s, g) => ZeroIdx'
         /\ \A x \in RingIds : WriteIndexes(x, 0) \/ ClearRing(x) => ZeroIdx'
         /\ DisableInterrupts \/ CardStep \/ UNCHANGED idx => ZeroIdx'
<1>1. ASSUME NEW v, WriteDma(v) PROVE ZeroIdx'
  <2> SUFFICES ASSUME NEW x \in RingIds
               PROVE  idx'[x] = [bell |-> 0, write |-> 0, read |-> 0]
    BY DEF ZeroIdx
  <2>1. idx[x] = [bell |-> 0, write |-> 0, read |-> 0]
    BY DEF ZeroIdx
  <2>2. idx'[x] = idx[x] \/ idx'[x] = [idx[x] EXCEPT !.read = 0]
    BY <1>1 DEF WriteDma
  <2> QED BY <2>1, <2>2
<1>2. ASSUME NEW x \in RingIds, WriteIndexes(x, 0) \/ ClearRing(x) PROVE ZeroIdx'
  <2> SUFFICES ASSUME NEW y \in RingIds
               PROVE  idx'[y] = [bell |-> 0, write |-> 0, read |-> 0]
    BY DEF ZeroIdx
  <2>0. idx \in [RingIds -> IdxWord]
    BY DEF CardTypeOK
  <2>1. \A z \in RingIds : idx[z] = [bell |-> 0, write |-> 0, read |-> 0]
    BY DEF ZeroIdx
  <2>2. \/ idx' = idx
        \/ idx' = [idx EXCEPT ![x].bell = 0, ![x].write = 0]
    BY <1>2 DEF WriteIndexes, ClearRing
  <2> QED BY <2>0, <2>1, <2>2
<1>3. \A s, g : WriteDesc(s, g) => ZeroIdx'
  BY DEF WriteDesc, ZeroIdx
<1>4. DisableInterrupts \/ CardStep \/ UNCHANGED idx => ZeroIdx'
  BY DEF DisableInterrupts, CardStep, ReadyFlip, LinkLoss, ZeroIdx
<1> QED BY <1>1, <1>2, <1>3, <1>4

\* A register sequence is entered with the indexes at zero, and left only as a
\* running transport or with nothing said about them.
LEMMA IdxKeep ==
  ASSUME IdxInv, NEW a \in Actors, linked' => linked,
         \A b \in Actors \ {a} : pc'[b] = pc[b],
         Running' => Running \/ pc[a] \in UsingPCs,
         pc'[a] \in UsingPCs => pc[a] \in UsingPCs \/ Running \/ ZeroIdx,
         linked /\ ZeroIdx => ZeroIdx'
  PROVE  IdxInv'
<1> SUFFICES ASSUME linked', Running' \/ \E b \in Actors : pc'[b] \in UsingPCs
             PROVE  ZeroIdx'
  BY DEF IdxInv
<1>1. linked /\ (Running \/ (\E b \in Actors : pc[b] \in UsingPCs) \/ ZeroIdx)
  OBVIOUS
<1> QED BY <1>1 DEF IdxInv

LEMMA IdxStep ==
  ASSUME Owners, Usage, IdxInv, [Next]_vars
  PROVE  IdxInv'
<1>t. TypeOK /\ CardTypeOK /\ LoopOK
  BY DEF Owners, TypeOK
<1> USE CardAssumption, ActorAssumption DEF TypeOK, HostTypeOK, At, Goto, Finish,
        busVars, devVars, argVars, loopVars, Actors, Gens
<1>1. ASSUME NEW c \in Clients, OpenCall(c) PROVE IdxInv'
  <2>1. UNCHANGED <<linked, idx>> /\ \A b \in Actors \ {c} : pc'[b] = pc[b]
    BY <1>t, <1>1 DEF OpenCall, cardVars
  <2>2. linked /\ ZeroIdx => ZeroIdx'
    BY <2>1 DEF ZeroIdx
  <2>3. Running' => Running \/ pc[c] \in UsingPCs
    BY <1>1 DEF OpenCall, Running
  <2>4. pc'[c] \in UsingPCs => pc[c] \in UsingPCs \/ Running \/ ZeroIdx
    BY <1>t, <1>1 DEF OpenCall, UsingPCs, StartPCs, TeardownPCs, ResetPCs
  <2> QED BY <2>1, <2>2, <2>3, <2>4, IdxKeep
<1>2. ASSUME NEW c \in Clients, Open(c) PROVE IdxInv'
  <2>1. UNCHANGED <<linked, idx>> /\ \A b \in Actors \ {c} : pc'[b] = pc[b]
    BY <1>t, <1>2 DEF Open, cardVars
  <2>2. linked /\ ZeroIdx => ZeroIdx'
    BY <2>1 DEF ZeroIdx
  <2>3. Running' => Running \/ pc[c] \in UsingPCs
    BY <1>2 DEF Open, Running
  <2>4. pc'[c] \in UsingPCs => pc[c] \in UsingPCs \/ Running \/ ZeroIdx
    BY <1>t, <1>2 DEF Open, UsingPCs, StartPCs, TeardownPCs, ResetPCs
  <2> QED BY <2>1, <2>2, <2>3, <2>4, IdxKeep
<1>3. ASSUME NEW c \in Clients, Release(c) PROVE IdxInv'
  <2>1. UNCHANGED <<linked, idx>> /\ \A b \in Actors \ {c} : pc'[b] = pc[b]
    BY <1>t, <1>3 DEF Release, KrefPut, cardVars
  <2>2. linked /\ ZeroIdx => ZeroIdx'
    BY <2>1 DEF ZeroIdx
  <2>3. Running' => Running \/ pc[c] \in UsingPCs
    BY <1>3 DEF Release, KrefPut, Running
  <2>4. pc'[c] \in UsingPCs => pc[c] \in UsingPCs \/ Running \/ ZeroIdx
    BY <1>t, <1>3 DEF Release, KrefPut, UsingPCs, StartPCs, TeardownPCs, ResetPCs
  <2> QED BY <2>1, <2>2, <2>3, <2>4, IdxKeep
<1>4. ASSUME NEW c \in Clients, IoctlCall(c) PROVE IdxInv'
  <2>1. UNCHANGED <<linked, idx>> /\ \A b \in Actors \ {c} : pc'[b] = pc[b]
    BY <1>t, <1>4 DEF IoctlCall, cardVars
  <2>2. linked /\ ZeroIdx => ZeroIdx'
    BY <2>1 DEF ZeroIdx
  <2>3. Running' => Running \/ pc[c] \in UsingPCs
    BY <1>4 DEF IoctlCall, Running
  <2>4. pc'[c] \in UsingPCs => pc[c] \in UsingPCs \/ Running \/ ZeroIdx
    BY <1>t, <1>4 DEF IoctlCall, UsingPCs, StartPCs, TeardownPCs, ResetPCs
  <2> QED BY <2>1, <2>2, <2>3, <2>4, IdxKeep
<1>5. ASSUME NEW c \in Clients, Lock(c) PROVE IdxInv'
  <2>1. UNCHANGED <<linked, idx>> /\ \A b \in Actors \ {c} : pc'[b] = pc[b]
    BY <1>t, <1>5 DEF Lock, cardVars
  <2>2. linked /\ ZeroIdx => ZeroIdx'
    BY <2>1 DEF ZeroIdx
  <2>3. Running' => Running \/ pc[c] \in UsingPCs
    BY <1>5 DEF Lock, Running
  <2>4. pc'[c] \in UsingPCs => pc[c] \in UsingPCs \/ Running \/ ZeroIdx
    BY <1>t, <1>5 DEF Lock, UsingPCs, StartPCs, TeardownPCs, ResetPCs
  <2> QED BY <2>1, <2>2, <2>3, <2>4, IdxKeep
<1>6. ASSUME NEW c \in Clients, Query(c) PROVE IdxInv'
  <2>1. UNCHANGED <<linked, idx>> /\ \A b \in Actors \ {c} : pc'[b] = pc[b]
    BY <1>t, <1>6 DEF Query, cardVars
  <2>2. linked /\ ZeroIdx => ZeroIdx'
    BY <2>1 DEF ZeroIdx
  <2>3. Running' => Running \/ pc[c] \in UsingPCs
    BY <1>6 DEF Query, Running
  <2>4. pc'[c] \in UsingPCs => pc[c] \in UsingPCs \/ Running \/ ZeroIdx
    BY <1>t, <1>6 DEF Query, UsingPCs, StartPCs, TeardownPCs, ResetPCs
  <2> QED BY <2>1, <2>2, <2>3, <2>4, IdxKeep
<1>7. ASSUME NEW c \in Clients, NotCapable(c) PROVE IdxInv'
  <2>1. UNCHANGED <<linked, idx>> /\ \A b \in Actors \ {c} : pc'[b] = pc[b]
    BY <1>t, <1>7 DEF NotCapable, cardVars
  <2>2. linked /\ ZeroIdx => ZeroIdx'
    BY <2>1 DEF ZeroIdx
  <2>3. Running' => Running \/ pc[c] \in UsingPCs
    BY <1>7 DEF NotCapable, Running
  <2>4. pc'[c] \in UsingPCs => pc[c] \in UsingPCs \/ Running \/ ZeroIdx
    BY <1>t, <1>7 DEF NotCapable, UsingPCs, StartPCs, TeardownPCs, ResetPCs
  <2> QED BY <2>1, <2>2, <2>3, <2>4, IdxKeep
<1>8. ASSUME NEW c \in Clients, Unlock(c) PROVE IdxInv'
  <2>1. UNCHANGED <<linked, idx>> /\ \A b \in Actors \ {c} : pc'[b] = pc[b]
    BY <1>t, <1>8 DEF Unlock, cardVars
  <2>2. linked /\ ZeroIdx => ZeroIdx'
    BY <2>1 DEF ZeroIdx
  <2>3. Running' => Running \/ pc[c] \in UsingPCs
    BY <1>8 DEF Unlock, Running
  <2>4. pc'[c] \in UsingPCs => pc[c] \in UsingPCs \/ Running \/ ZeroIdx
    BY <1>t, <1>8 DEF Unlock, UsingPCs, StartPCs, TeardownPCs, ResetPCs
  <2> QED BY <2>1, <2>2, <2>3, <2>4, IdxKeep
<1>9. ASSUME NEW c \in Clients, StartEnter(c) PROVE IdxInv'
  <2>1. UNCHANGED <<linked, idx>> /\ \A b \in Actors \ {c} : pc'[b] = pc[b]
    BY <1>t, <1>9 DEF StartEnter, cardVars
  <2>2. linked /\ ZeroIdx => ZeroIdx'
    BY <2>1 DEF ZeroIdx
  <2>3. Running' => Running \/ pc[c] \in UsingPCs
    BY <1>9 DEF StartEnter, Running
  <2>5. dv[c] = bound /\ bound # 0
    BY <1>9, Sole DEF StartEnter, ActivePCs
  <2>4. pc'[c] \in UsingPCs => pc[c] \in UsingPCs \/ Running \/ ZeroIdx
    BY <1>t, <1>9, <2>5 DEF StartEnter, UsingPCs, StartPCs, TeardownPCs, ResetPCs, Running, ColdPrecondition, AllRingWordsZero, ZeroIdx
  <2> QED BY <2>1, <2>2, <2>3, <2>4, IdxKeep
<1>10. ASSUME NEW c \in Clients, SetMaster(c) PROVE IdxInv'
  <2>1. UNCHANGED <<linked, idx>> /\ \A b \in Actors \ {c} : pc'[b] = pc[b]
    BY <1>t, <1>10 DEF SetMaster, cardVars
  <2>2. linked /\ ZeroIdx => ZeroIdx'
    BY <2>1 DEF ZeroIdx
  <2>3. Running' => Running \/ pc[c] \in UsingPCs
    BY <1>10 DEF SetMaster, Running
  <2>4. pc'[c] \in UsingPCs => pc[c] \in UsingPCs \/ Running \/ ZeroIdx
    BY <1>t, <1>10 DEF SetMaster, UsingPCs, StartPCs, TeardownPCs, ResetPCs
  <2> QED BY <2>1, <2>2, <2>3, <2>4, IdxKeep
<1>11. ASSUME NEW c \in Clients, Quiesce(c) PROVE IdxInv'
  <2>1. UNCHANGED linked /\ \A b \in Actors \ {c} : pc'[b] = pc[b]
    BY <1>t, <1>11 DEF Quiesce, WriteDma, WriteDesc, WriteIndexes, ClearRing, DisableInterrupts
  <2>2. linked /\ ZeroIdx => ZeroIdx'
    BY <1>t, <1>11, IdxWrites DEF Quiesce
  <2>3. Running' => Running \/ pc[c] \in UsingPCs
    BY <1>11 DEF Quiesce, Running
  <2>4. pc'[c] \in UsingPCs => pc[c] \in UsingPCs \/ Running \/ ZeroIdx
    BY <1>t, <1>11 DEF Quiesce, UsingPCs, StartPCs, TeardownPCs, ResetPCs
  <2> QED BY <2>1, <2>2, <2>3, <2>4, IdxKeep
<1>12. ASSUME NEW c \in Clients, ResetGlobal(c) PROVE IdxInv'
  <2>1. UNCHANGED linked /\ \A b \in Actors \ {c} : pc'[b] = pc[b]
    BY <1>t, <1>12 DEF ResetGlobal, WriteDma, WriteDesc, WriteIndexes, ClearRing, DisableInterrupts
  <2>2. linked /\ ZeroIdx => ZeroIdx'
    BY <1>t, <1>12, IdxWrites DEF ResetGlobal
  <2>3. Running' => Running \/ pc[c] \in UsingPCs
    BY <1>12 DEF ResetGlobal, Running
  <2>4. pc'[c] \in UsingPCs => pc[c] \in UsingPCs \/ Running \/ ZeroIdx
    BY <1>t, <1>12 DEF ResetGlobal, UsingPCs, StartPCs, TeardownPCs, ResetPCs
  <2> QED BY <2>1, <2>2, <2>3, <2>4, IdxKeep
<1>13. ASSUME NEW c \in Clients, GlobalOnly(c) PROVE IdxInv'
  <2>1. UNCHANGED linked /\ \A b \in Actors \ {c} : pc'[b] = pc[b]
    BY <1>t, <1>13 DEF GlobalOnly, WriteDma, WriteDesc, WriteIndexes, ClearRing, DisableInterrupts
  <2>2. linked /\ ZeroIdx => ZeroIdx'
    BY <1>t, <1>13, IdxWrites DEF GlobalOnly
  <2>3. Running' => Running \/ pc[c] \in UsingPCs
    BY <1>13 DEF GlobalOnly, Running
  <2>4. pc'[c] \in UsingPCs => pc[c] \in UsingPCs \/ Running \/ ZeroIdx
    BY <1>t, <1>13 DEF GlobalOnly, UsingPCs, StartPCs, TeardownPCs, ResetPCs
  <2> QED BY <2>1, <2>2, <2>3, <2>4, IdxKeep
<1>14. ASSUME NEW c \in Clients, RingIndex(c) PROVE IdxInv'
  <2>1. UNCHANGED linked /\ \A b \in Actors \ {c} : pc'[b] = pc[b]
    BY <1>t, <1>14 DEF RingIndex, WriteDma, WriteDesc, WriteIndexes, ClearRing, DisableInterrupts
  <2>2. ASSUME linked, ZeroIdx PROVE ZeroIdx'
    <3>1. <<dsp[c], ring[c]>> \in RingIds
      BY <1>t, <1>14 DEF RingIndex, LoopOK, InitLoop, RingIds
    <3>2. ReadIndex(<<dsp[c], ring[c]>>) = 0
      BY <2>2, <3>1 DEF ReadIndex, ZeroIdx
    <3>3. WriteIndexes(<<dsp[c], ring[c]>>, 0)
      BY <1>14, <3>2 DEF RingIndex
    <3> QED BY <1>t, <2>2, <3>1, <3>3, IdxWrites
  <2>3. Running' => Running \/ pc[c] \in UsingPCs
    BY <1>14 DEF RingIndex, Running
  <2>4. pc'[c] \in UsingPCs => pc[c] \in UsingPCs \/ Running \/ ZeroIdx
    BY <1>t, <1>14 DEF RingIndex, UsingPCs, StartPCs, TeardownPCs, ResetPCs
  <2> QED BY <2>1, <2>2, <2>3, <2>4, IdxKeep
<1>15. ASSUME NEW c \in Clients, RingDesc(c) PROVE IdxInv'
  <2>1. UNCHANGED linked /\ \A b \in Actors \ {c} : pc'[b] = pc[b]
    BY <1>t, <1>15 DEF RingDesc, WriteDma, WriteDesc, WriteIndexes, ClearRing, DisableInterrupts
  <2>2. linked /\ ZeroIdx => ZeroIdx'
    BY <1>t, <1>15, IdxWrites DEF RingDesc
  <2>3. Running' => Running \/ pc[c] \in UsingPCs
    BY <1>15 DEF RingDesc, Running
  <2>4. pc'[c] \in UsingPCs => pc[c] \in UsingPCs \/ Running \/ ZeroIdx
    BY <1>t, <1>15 DEF RingDesc, UsingPCs, StartPCs, TeardownPCs, ResetPCs
  <2> QED BY <2>1, <2>2, <2>3, <2>4, IdxKeep
<1>16. ASSUME NEW c \in Clients, RingDone(c) PROVE IdxInv'
  <2>1. UNCHANGED <<linked, idx>> /\ \A b \in Actors \ {c} : pc'[b] = pc[b]
    BY <1>t, <1>16 DEF RingDone, cardVars
  <2>2. linked /\ ZeroIdx => ZeroIdx'
    BY <2>1 DEF ZeroIdx
  <2>3. Running' => Running \/ pc[c] \in UsingPCs
    BY <1>16 DEF RingDone, Running
  <2>4. pc'[c] \in UsingPCs => pc[c] \in UsingPCs \/ Running \/ ZeroIdx
    BY <1>t, <1>16 DEF RingDone, UsingPCs, StartPCs, TeardownPCs, ResetPCs
  <2> QED BY <2>1, <2>2, <2>3, <2>4, IdxKeep
<1>17. ASSUME NEW c \in Clients, Enable(c) PROVE IdxInv'
  <2>1. UNCHANGED linked /\ \A b \in Actors \ {c} : pc'[b] = pc[b]
    BY <1>t, <1>17 DEF Enable, WriteDma, WriteDesc, WriteIndexes, ClearRing, DisableInterrupts
  <2>2. linked /\ ZeroIdx => ZeroIdx'
    BY <1>t, <1>17, IdxWrites DEF Enable
  <2>3. Running' => Running \/ pc[c] \in UsingPCs
    BY <1>17 DEF Enable, Running
  <2>4. pc'[c] \in UsingPCs => pc[c] \in UsingPCs \/ Running \/ ZeroIdx
    BY <1>t, <1>17 DEF Enable, UsingPCs, StartPCs, TeardownPCs, ResetPCs
  <2> QED BY <2>1, <2>2, <2>3, <2>4, IdxKeep
<1>18. ASSUME NEW c \in Clients, Verify(c) PROVE IdxInv'
  <2>1. UNCHANGED <<linked, idx>> /\ \A b \in Actors \ {c} : pc'[b] = pc[b]
    BY <1>t, <1>18 DEF Verify, cardVars
  <2>2. linked /\ ZeroIdx => ZeroIdx'
    BY <2>1 DEF ZeroIdx
  <2>3. Running' => Running \/ pc[c] \in UsingPCs
    BY <1>18 DEF Verify, UsingPCs, StartPCs, TeardownPCs, ResetPCs
  <2>4. pc'[c] \in UsingPCs => pc[c] \in UsingPCs \/ Running \/ ZeroIdx
    BY <1>t, <1>18 DEF Verify, UsingPCs, StartPCs, TeardownPCs, ResetPCs
  <2> QED BY <2>1, <2>2, <2>3, <2>4, IdxKeep
<1>19. ASSUME NEW c \in Clients, StopEnter(c) PROVE IdxInv'
  <2>1. UNCHANGED <<linked, idx>> /\ \A b \in Actors \ {c} : pc'[b] = pc[b]
    BY <1>t, <1>19 DEF StopEnter, cardVars
  <2>2. linked /\ ZeroIdx => ZeroIdx'
    BY <2>1 DEF ZeroIdx
  <2>3. Running' => Running \/ pc[c] \in UsingPCs
    BY <1>19 DEF StopEnter, Running
  <2>5. dv[c] = bound /\ bound # 0
    BY <1>19, Sole DEF StopEnter, ActivePCs
  <2>4. pc'[c] \in UsingPCs => pc[c] \in UsingPCs \/ Running \/ ZeroIdx
    BY <1>t, <1>19, <2>5 DEF StopEnter, UsingPCs, StartPCs, TeardownPCs, ResetPCs, Running, ColdPrecondition, AllRingWordsZero, ZeroIdx
  <2> QED BY <2>1, <2>2, <2>3, <2>4, IdxKeep
<1>20. ASSUME NEW c \in Clients, ResetEnter(c) PROVE IdxInv'
  <2>1. UNCHANGED <<linked, idx>> /\ \A b \in Actors \ {c} : pc'[b] = pc[b]
    BY <1>t, <1>20 DEF ResetEnter, cardVars
  <2>2. linked /\ ZeroIdx => ZeroIdx'
    BY <2>1 DEF ZeroIdx
  <2>3. Running' => Running \/ pc[c] \in UsingPCs
    BY <1>20 DEF ResetEnter, Running
  <2>5. dv[c] = bound /\ bound # 0
    BY <1>20, Sole DEF ResetEnter, ActivePCs
  <2>4. pc'[c] \in UsingPCs => pc[c] \in UsingPCs \/ Running \/ ZeroIdx
    BY <1>t, <1>20, <2>5 DEF ResetEnter, UsingPCs, StartPCs, TeardownPCs, ResetPCs, Running, ColdPrecondition, AllRingWordsZero, ZeroIdx
  <2> QED BY <2>1, <2>2, <2>3, <2>4, IdxKeep
<1>21. ASSUME NEW c \in Clients, Pulse(c) PROVE IdxInv'
  <2>1. UNCHANGED linked /\ \A b \in Actors \ {c} : pc'[b] = pc[b]
    BY <1>t, <1>21 DEF Pulse, WriteDma, WriteDesc, WriteIndexes, ClearRing, DisableInterrupts
  <2>2. linked /\ ZeroIdx => ZeroIdx'
    BY <1>t, <1>21, IdxWrites DEF Pulse
  <2>3. Running' => Running \/ pc[c] \in UsingPCs
    BY <1>21 DEF Pulse, Running
  <2>4. pc'[c] \in UsingPCs => pc[c] \in UsingPCs \/ Running \/ ZeroIdx
    BY <1>t, <1>21 DEF Pulse, UsingPCs, StartPCs, TeardownPCs, ResetPCs
  <2> QED BY <2>1, <2>2, <2>3, <2>4, IdxKeep
<1>22. ASSUME NEW c \in Clients, Unpulse(c) PROVE IdxInv'
  <2>1. UNCHANGED linked /\ \A b \in Actors \ {c} : pc'[b] = pc[b]
    BY <1>t, <1>22 DEF Unpulse, WriteDma, WriteDesc, WriteIndexes, ClearRing, DisableInterrupts
  <2>2. linked /\ ZeroIdx => ZeroIdx'
    BY <1>t, <1>22, IdxWrites DEF Unpulse
  <2>3. Running' => Running \/ pc[c] \in UsingPCs
    BY <1>22 DEF Unpulse, Running
  <2>4. pc'[c] \in UsingPCs => pc[c] \in UsingPCs \/ Running \/ ZeroIdx
    BY <1>t, <1>22 DEF Unpulse, UsingPCs, StartPCs, TeardownPCs, ResetPCs
  <2> QED BY <2>1, <2>2, <2>3, <2>4, IdxKeep
<1>23. ASSUME NEW c \in Clients, Reenable(c) PROVE IdxInv'
  <2>1. UNCHANGED linked /\ \A b \in Actors \ {c} : pc'[b] = pc[b]
    BY <1>t, <1>23 DEF Reenable, WriteDma, WriteDesc, WriteIndexes, ClearRing, DisableInterrupts
  <2>2. linked /\ ZeroIdx => ZeroIdx'
    BY <1>t, <1>23, IdxWrites DEF Reenable
  <2>3. Running' => Running \/ pc[c] \in UsingPCs
    BY <1>23 DEF Reenable, Running
  <2>4. pc'[c] \in UsingPCs => pc[c] \in UsingPCs \/ Running \/ ZeroIdx
    BY <1>t, <1>23 DEF Reenable, UsingPCs, StartPCs, TeardownPCs, ResetPCs
  <2> QED BY <2>1, <2>2, <2>3, <2>4, IdxKeep
<1>24. ASSUME NEW c \in Clients, ResetCheck(c) PROVE IdxInv'
  <2>1. UNCHANGED <<linked, idx>> /\ \A b \in Actors \ {c} : pc'[b] = pc[b]
    BY <1>t, <1>24 DEF ResetCheck, cardVars
  <2>2. linked /\ ZeroIdx => ZeroIdx'
    BY <2>1 DEF ZeroIdx
  <2>3. Running' => Running \/ pc[c] \in UsingPCs
    BY <1>24 DEF ResetCheck, Running
  <2>4. pc'[c] \in UsingPCs => pc[c] \in UsingPCs \/ Running \/ ZeroIdx
    BY <1>t, <1>24 DEF ResetCheck, UsingPCs, StartPCs, TeardownPCs, ResetPCs
  <2> QED BY <2>1, <2>2, <2>3, <2>4, IdxKeep
<1>25. ASSUME NEW a \in Actors, TdInt(a) PROVE IdxInv'
  <2>1. UNCHANGED linked /\ \A b \in Actors \ {a} : pc'[b] = pc[b]
    BY <1>t, <1>25 DEF TdInt, WriteDma, WriteDesc, WriteIndexes, ClearRing, DisableInterrupts
  <2>2. linked /\ ZeroIdx => ZeroIdx'
    BY <1>t, <1>25, IdxWrites DEF TdInt
  <2>3. Running' => Running \/ pc[a] \in UsingPCs
    BY <1>25 DEF TdInt, Running
  <2>4. pc'[a] \in UsingPCs => pc[a] \in UsingPCs \/ Running \/ ZeroIdx
    BY <1>t, <1>25 DEF TdInt, UsingPCs, StartPCs, TeardownPCs, ResetPCs
  <2> QED BY <2>1, <2>2, <2>3, <2>4, IdxKeep
<1>26. ASSUME NEW a \in Actors, TdReset(a) PROVE IdxInv'
  <2>1. UNCHANGED linked /\ \A b \in Actors \ {a} : pc'[b] = pc[b]
    BY <1>t, <1>26 DEF TdReset, WriteDma, WriteDesc, WriteIndexes, ClearRing, DisableInterrupts
  <2>2. linked /\ ZeroIdx => ZeroIdx'
    BY <1>t, <1>26, IdxWrites DEF TdReset
  <2>3. Running' => Running \/ pc[a] \in UsingPCs
    BY <1>26 DEF TdReset, Running
  <2>4. pc'[a] \in UsingPCs => pc[a] \in UsingPCs \/ Running \/ ZeroIdx
    BY <1>t, <1>26 DEF TdReset, UsingPCs, StartPCs, TeardownPCs, ResetPCs
  <2> QED BY <2>1, <2>2, <2>3, <2>4, IdxKeep
<1>27. ASSUME NEW a \in Actors, TdGlobal(a) PROVE IdxInv'
  <2>1. UNCHANGED linked /\ \A b \in Actors \ {a} : pc'[b] = pc[b]
    BY <1>t, <1>27 DEF TdGlobal, WriteDma, WriteDesc, WriteIndexes, ClearRing, DisableInterrupts
  <2>2. linked /\ ZeroIdx => ZeroIdx'
    BY <1>t, <1>27, IdxWrites DEF TdGlobal
  <2>3. Running' => Running \/ pc[a] \in UsingPCs
    BY <1>27 DEF TdGlobal, Running
  <2>4. pc'[a] \in UsingPCs => pc[a] \in UsingPCs \/ Running \/ ZeroIdx
    BY <1>t, <1>27 DEF TdGlobal, UsingPCs, StartPCs, TeardownPCs, ResetPCs
  <2> QED BY <2>1, <2>2, <2>3, <2>4, IdxKeep
<1>28. ASSUME NEW a \in Actors, TdClear(a) PROVE IdxInv'
  <2>1. UNCHANGED linked /\ \A b \in Actors \ {a} : pc'[b] = pc[b]
    BY <1>t, <1>28 DEF TdClear, WriteDma, WriteDesc, WriteIndexes, ClearRing, DisableInterrupts
  <2>2. ASSUME linked, ZeroIdx PROVE ZeroIdx'
    <3>1. PICK x \in RingIds : ClearRing(x)
      BY <1>t, <1>28 DEF TdClear
    <3> QED BY <1>t, <2>2, <3>1, IdxWrites
  <2>3. Running' => Running \/ pc[a] \in UsingPCs
    BY <1>28 DEF TdClear, Running
  <2>4. pc'[a] \in UsingPCs => pc[a] \in UsingPCs \/ Running \/ ZeroIdx
    BY <1>t, <1>28 DEF TdClear, UsingPCs, StartPCs, TeardownPCs, ResetPCs
  <2> QED BY <2>1, <2>2, <2>3, <2>4, IdxKeep
<1>29. ASSUME NEW a \in Actors, TdCold(a) PROVE IdxInv'
  <2>1. UNCHANGED linked /\ \A b \in Actors \ {a} : pc'[b] = pc[b]
    BY <1>t, <1>29 DEF TdCold, WriteDma, WriteDesc, WriteIndexes, ClearRing, DisableInterrupts
  <2>2. linked /\ ZeroIdx => ZeroIdx'
    BY <1>t, <1>29, IdxWrites DEF TdCold
  <2>3. Running' => Running \/ pc[a] \in UsingPCs
    BY <1>29 DEF TdCold, Running
  <2>4. pc'[a] \in UsingPCs => pc[a] \in UsingPCs \/ Running \/ ZeroIdx
    BY <1>t, <1>29 DEF TdCold, UsingPCs, StartPCs, TeardownPCs, ResetPCs
  <2> QED BY <2>1, <2>2, <2>3, <2>4, IdxKeep
<1>30. ASSUME NEW a \in Actors, TdMaster(a) PROVE IdxInv'
  <2>1. UNCHANGED <<linked, idx>> /\ \A b \in Actors \ {a} : pc'[b] = pc[b]
    BY <1>t, <1>30 DEF TdMaster, cardVars
  <2>2. linked /\ ZeroIdx => ZeroIdx'
    BY <2>1 DEF ZeroIdx
  <2>3. Running' => Running \/ pc[a] \in UsingPCs
    BY <1>30 DEF TdMaster, UsingPCs, StartPCs, TeardownPCs, ResetPCs
  <2>4. pc'[a] \in UsingPCs => pc[a] \in UsingPCs \/ Running \/ ZeroIdx
    BY <1>t, <1>30 DEF TdMaster, UsingPCs, StartPCs, TeardownPCs, ResetPCs
  <2> QED BY <2>1, <2>2, <2>3, <2>4, IdxKeep
<1>31. ASSUME NEW a \in Actors, TdCheck(a) PROVE IdxInv'
  <2>1. UNCHANGED <<linked, idx>> /\ \A b \in Actors \ {a} : pc'[b] = pc[b]
    BY <1>t, <1>31 DEF TdCheck, cardVars
  <2>2. linked /\ ZeroIdx => ZeroIdx'
    BY <2>1 DEF ZeroIdx
  <2>3. Running' => Running \/ pc[a] \in UsingPCs
    BY <1>31 DEF TdCheck, Running
  <2>4. pc'[a] \in UsingPCs => pc[a] \in UsingPCs \/ Running \/ ZeroIdx
    BY <1>t, <1>31 DEF TdCheck, UsingPCs, StartPCs, TeardownPCs, ResetPCs
  <2> QED BY <2>1, <2>2, <2>3, <2>4, IdxKeep
<1>32. ASSUME ProbeCall PROVE IdxInv'
  <2>1. UNCHANGED <<linked, idx>> /\ \A b \in Actors \ {Core} : pc'[b] = pc[b]
    BY <1>t, <1>32 DEF ProbeCall, cardVars
  <2>2. linked /\ ZeroIdx => ZeroIdx'
    BY <2>1 DEF ZeroIdx
  <2>3. Running' => Running \/ pc[Core] \in UsingPCs
    BY <1>t, <1>32 DEF ProbeCall, Running, Usage, StartedInv
  <2>4. pc'[Core] \in UsingPCs => pc[Core] \in UsingPCs \/ Running \/ ZeroIdx
    BY <1>t, <1>32 DEF ProbeCall, UsingPCs, StartPCs, TeardownPCs, ResetPCs
  <2> QED BY <2>1, <2>2, <2>3, <2>4, IdxKeep
<1>33. ASSUME ProbeEnable PROVE IdxInv'
  <2>1. UNCHANGED <<linked, idx>> /\ \A b \in Actors \ {Core} : pc'[b] = pc[b]
    BY <1>t, <1>33 DEF ProbeEnable, Acquire, cardVars
  <2>2. linked /\ ZeroIdx => ZeroIdx'
    BY <2>1 DEF ZeroIdx
  <2>3. Running' => Running \/ pc[Core] \in UsingPCs
    BY <1>33 DEF ProbeEnable, Acquire, Running
  <2>4. pc'[Core] \in UsingPCs => pc[Core] \in UsingPCs \/ Running \/ ZeroIdx
    BY <1>t, <1>33 DEF ProbeEnable, Acquire, UsingPCs, StartPCs, TeardownPCs, ResetPCs
  <2> QED BY <2>1, <2>2, <2>3, <2>4, IdxKeep
<1>34. ASSUME ProbeRegion PROVE IdxInv'
  <2>1. UNCHANGED <<linked, idx>> /\ \A b \in Actors \ {Core} : pc'[b] = pc[b]
    BY <1>t, <1>34 DEF ProbeRegion, Acquire, cardVars
  <2>2. linked /\ ZeroIdx => ZeroIdx'
    BY <2>1 DEF ZeroIdx
  <2>3. Running' => Running \/ pc[Core] \in UsingPCs
    BY <1>34 DEF ProbeRegion, Acquire, Running
  <2>4. pc'[Core] \in UsingPCs => pc[Core] \in UsingPCs \/ Running \/ ZeroIdx
    BY <1>t, <1>34 DEF ProbeRegion, Acquire, UsingPCs, StartPCs, TeardownPCs, ResetPCs
  <2> QED BY <2>1, <2>2, <2>3, <2>4, IdxKeep
<1>35. ASSUME ProbeMap PROVE IdxInv'
  <2>1. UNCHANGED <<linked, idx>> /\ \A b \in Actors \ {Core} : pc'[b] = pc[b]
    BY <1>t, <1>35 DEF ProbeMap, Acquire, cardVars
  <2>2. linked /\ ZeroIdx => ZeroIdx'
    BY <2>1 DEF ZeroIdx
  <2>3. Running' => Running \/ pc[Core] \in UsingPCs
    BY <1>35 DEF ProbeMap, Acquire, Running
  <2>4. pc'[Core] \in UsingPCs => pc[Core] \in UsingPCs \/ Running \/ ZeroIdx
    BY <1>t, <1>35 DEF ProbeMap, Acquire, UsingPCs, StartPCs, TeardownPCs, ResetPCs
  <2> QED BY <2>1, <2>2, <2>3, <2>4, IdxKeep
<1>36. ASSUME ProbeCold PROVE IdxInv'
  <2>1. UNCHANGED <<linked, idx>> /\ \A b \in Actors \ {Core} : pc'[b] = pc[b]
    BY <1>t, <1>36 DEF ProbeCold, cardVars
  <2>2. linked /\ ZeroIdx => ZeroIdx'
    BY <2>1 DEF ZeroIdx
  <2>3. Running' => Running \/ pc[Core] \in UsingPCs
    BY <1>36 DEF ProbeCold, Running
  <2>4. pc'[Core] \in UsingPCs => pc[Core] \in UsingPCs \/ Running \/ ZeroIdx
    BY <1>t, <1>36 DEF ProbeCold, UsingPCs, StartPCs, TeardownPCs, ResetPCs
  <2> QED BY <2>1, <2>2, <2>3, <2>4, IdxKeep
<1>37. ASSUME ProbeAlloc PROVE IdxInv'
  <2>1. UNCHANGED <<linked, idx>> /\ \A b \in Actors \ {Core} : pc'[b] = pc[b]
    BY <1>t, <1>37 DEF ProbeAlloc, cardVars
  <2>2. linked /\ ZeroIdx => ZeroIdx'
    BY <2>1 DEF ZeroIdx
  <2>3. Running' => Running \/ pc[Core] \in UsingPCs
    BY <1>37 DEF ProbeAlloc, Running
  <2>4. pc'[Core] \in UsingPCs => pc[Core] \in UsingPCs \/ Running \/ ZeroIdx
    BY <1>t, <1>37 DEF ProbeAlloc, UsingPCs, StartPCs, TeardownPCs, ResetPCs
  <2> QED BY <2>1, <2>2, <2>3, <2>4, IdxKeep
<1>38. ASSUME ProbeRegister PROVE IdxInv'
  <2>1. UNCHANGED <<linked, idx>> /\ \A b \in Actors \ {Core} : pc'[b] = pc[b]
    BY <1>t, <1>38 DEF ProbeRegister, cardVars
  <2>2. linked /\ ZeroIdx => ZeroIdx'
    BY <2>1 DEF ZeroIdx
  <2>3. Running' => Running \/ pc[Core] \in UsingPCs
    BY <1>38 DEF ProbeRegister, Running
  <2>4. pc'[Core] \in UsingPCs => pc[Core] \in UsingPCs \/ Running \/ ZeroIdx
    BY <1>t, <1>38 DEF ProbeRegister, UsingPCs, StartPCs, TeardownPCs, ResetPCs
  <2> QED BY <2>1, <2>2, <2>3, <2>4, IdxKeep
<1>39. ASSUME RemoveCall PROVE IdxInv'
  <2>1. UNCHANGED <<linked, idx>> /\ \A b \in Actors \ {Core} : pc'[b] = pc[b]
    BY <1>t, <1>39 DEF RemoveCall, cardVars
  <2>2. linked /\ ZeroIdx => ZeroIdx'
    BY <2>1 DEF ZeroIdx
  <2>3. Running' => Running \/ pc[Core] \in UsingPCs
    BY <1>39 DEF RemoveCall, Running
  <2>4. pc'[Core] \in UsingPCs => pc[Core] \in UsingPCs \/ Running \/ ZeroIdx
    BY <1>t, <1>39 DEF RemoveCall, UsingPCs, StartPCs, TeardownPCs, ResetPCs
  <2> QED BY <2>1, <2>2, <2>3, <2>4, IdxKeep
<1>40. ASSUME RemoveDeregister PROVE IdxInv'
  <2>1. UNCHANGED <<linked, idx>> /\ \A b \in Actors \ {Core} : pc'[b] = pc[b]
    BY <1>t, <1>40 DEF RemoveDeregister, cardVars
  <2>2. linked /\ ZeroIdx => ZeroIdx'
    BY <2>1 DEF ZeroIdx
  <2>3. Running' => Running \/ pc[Core] \in UsingPCs
    BY <1>40 DEF RemoveDeregister, Running
  <2>4. pc'[Core] \in UsingPCs => pc[Core] \in UsingPCs \/ Running \/ ZeroIdx
    BY <1>t, <1>40 DEF RemoveDeregister, UsingPCs, StartPCs, TeardownPCs, ResetPCs
  <2> QED BY <2>1, <2>2, <2>3, <2>4, IdxKeep
<1>41. ASSUME RemoveLock PROVE IdxInv'
  <2>1. UNCHANGED <<linked, idx>> /\ \A b \in Actors \ {Core} : pc'[b] = pc[b]
    BY <1>t, <1>41 DEF RemoveLock, cardVars
  <2>2. linked /\ ZeroIdx => ZeroIdx'
    BY <2>1 DEF ZeroIdx
  <2>3. Running' => Running \/ pc[Core] \in UsingPCs
    BY <1>41 DEF RemoveLock, Running
  <2>4. pc'[Core] \in UsingPCs => pc[Core] \in UsingPCs \/ Running \/ ZeroIdx
    BY <1>t, <1>41 DEF RemoveLock, UsingPCs, StartPCs, TeardownPCs, ResetPCs, Running, Owners, CoreInv
  <2> QED BY <2>1, <2>2, <2>3, <2>4, IdxKeep
<1>42. ASSUME FreePages PROVE IdxInv'
  <2>1. UNCHANGED <<linked, idx>> /\ \A b \in Actors \ {Core} : pc'[b] = pc[b]
    BY <1>t, <1>42 DEF FreePages, cardVars
  <2>2. linked /\ ZeroIdx => ZeroIdx'
    BY <2>1 DEF ZeroIdx
  <2>3. Running' => Running \/ pc[Core] \in UsingPCs
    BY <1>42 DEF FreePages, Running
  <2>4. pc'[Core] \in UsingPCs => pc[Core] \in UsingPCs \/ Running \/ ZeroIdx
    BY <1>t, <1>42 DEF FreePages, UsingPCs, StartPCs, TeardownPCs, ResetPCs
  <2> QED BY <2>1, <2>2, <2>3, <2>4, IdxKeep
<1>43. ASSUME UnmapBar PROVE IdxInv'
  <2>1. UNCHANGED <<linked, idx>> /\ \A b \in Actors \ {Core} : pc'[b] = pc[b]
    BY <1>t, <1>43 DEF UnmapBar, ReleaseResource, cardVars
  <2>2. linked /\ ZeroIdx => ZeroIdx'
    BY <2>1 DEF ZeroIdx
  <2>3. Running' => Running \/ pc[Core] \in UsingPCs
    BY <1>43 DEF UnmapBar, ReleaseResource, Running
  <2>4. pc'[Core] \in UsingPCs => pc[Core] \in UsingPCs \/ Running \/ ZeroIdx
    BY <1>t, <1>43 DEF UnmapBar, ReleaseResource, UsingPCs, StartPCs, TeardownPCs, ResetPCs
  <2> QED BY <2>1, <2>2, <2>3, <2>4, IdxKeep
<1>44. ASSUME ReleaseRegion PROVE IdxInv'
  <2>1. UNCHANGED <<linked, idx>> /\ \A b \in Actors \ {Core} : pc'[b] = pc[b]
    BY <1>t, <1>44 DEF ReleaseRegion, ReleaseResource, cardVars
  <2>2. linked /\ ZeroIdx => ZeroIdx'
    BY <2>1 DEF ZeroIdx
  <2>3. Running' => Running \/ pc[Core] \in UsingPCs
    BY <1>44 DEF ReleaseRegion, ReleaseResource, Running
  <2>4. pc'[Core] \in UsingPCs => pc[Core] \in UsingPCs \/ Running \/ ZeroIdx
    BY <1>t, <1>44 DEF ReleaseRegion, ReleaseResource, UsingPCs, StartPCs, TeardownPCs, ResetPCs
  <2> QED BY <2>1, <2>2, <2>3, <2>4, IdxKeep
<1>45. ASSUME DisableDevice PROVE IdxInv'
  <2>1. UNCHANGED <<linked, idx>> /\ \A b \in Actors \ {Core} : pc'[b] = pc[b]
    BY <1>t, <1>45 DEF DisableDevice, ReleaseResource, cardVars
  <2>2. linked /\ ZeroIdx => ZeroIdx'
    BY <2>1 DEF ZeroIdx
  <2>3. Running' => Running \/ pc[Core] \in UsingPCs
    BY <1>45 DEF DisableDevice, ReleaseResource, Running
  <2>4. pc'[Core] \in UsingPCs => pc[Core] \in UsingPCs \/ Running \/ ZeroIdx
    BY <1>t, <1>45 DEF DisableDevice, ReleaseResource, UsingPCs, StartPCs, TeardownPCs, ResetPCs
  <2> QED BY <2>1, <2>2, <2>3, <2>4, IdxKeep
<1>46. ASSUME RemoveUnlock PROVE IdxInv'
  <2>1. UNCHANGED <<linked, idx>> /\ \A b \in Actors \ {Core} : pc'[b] = pc[b]
    BY <1>t, <1>46 DEF RemoveUnlock, cardVars
  <2>2. linked /\ ZeroIdx => ZeroIdx'
    BY <2>1 DEF ZeroIdx
  <2>3. Running' => Running \/ pc[Core] \in UsingPCs
    BY <1>46 DEF RemoveUnlock, Running
  <2>4. pc'[Core] \in UsingPCs => pc[Core] \in UsingPCs \/ Running \/ ZeroIdx
    BY <1>t, <1>46 DEF RemoveUnlock, UsingPCs, StartPCs, TeardownPCs, ResetPCs
  <2> QED BY <2>1, <2>2, <2>3, <2>4, IdxKeep
<1>47. ASSUME PutDevice PROVE IdxInv'
  <2>1. UNCHANGED <<linked, idx>> /\ \A b \in Actors \ {Core} : pc'[b] = pc[b]
    BY <1>t, <1>47 DEF PutDevice, KrefPut, cardVars
  <2>2. linked /\ ZeroIdx => ZeroIdx'
    BY <2>1 DEF ZeroIdx
  <2>3. Running' => Running \/ pc[Core] \in UsingPCs
    BY <1>47 DEF PutDevice, KrefPut, Running
  <2>4. pc'[Core] \in UsingPCs => pc[Core] \in UsingPCs \/ Running \/ ZeroIdx
    BY <1>t, <1>47 DEF PutDevice, KrefPut, UsingPCs, StartPCs, TeardownPCs, ResetPCs
  <2> QED BY <2>1, <2>2, <2>3, <2>4, IdxKeep
<1>90. ASSUME Card PROVE IdxInv'
  <2>1. UNCHANGED <<idx, pc, bound, started>> /\ (linked' => linked)
    BY <1>90 DEF Card, hostVars, CardStep, ReadyFlip, LinkLoss
  <2> QED BY <2>1 DEF IdxInv, ZeroIdx, Running
<1>91. ASSUME UNCHANGED vars PROVE IdxInv'
  BY <1>91 DEF vars, cardVars, IdxInv, ZeroIdx, Running
<1> HIDE DEF TypeOK, HostTypeOK, At, Goto, Finish, busVars, devVars, argVars, loopVars, Actors
<1> QED
  BY <1>1, <1>2, <1>3, <1>4, <1>5, <1>6, <1>7, <1>8, <1>9, <1>10, <1>11, <1>12, <1>13, <1>14, <1>15, <1>16, <1>17, <1>18, <1>19, <1>20, <1>21, <1>22, <1>23, <1>24, <1>25, <1>26, <1>27, <1>28, <1>29, <1>30, <1>31, <1>32, <1>33, <1>34, <1>35, <1>36, <1>37, <1>38, <1>39, <1>40, <1>41, <1>42, <1>43, <1>44, <1>45, <1>46, <1>47,
     <1>90, <1>91 DEF Next, ClientCall, ClientStep, StartStep, TeardownStep, ResetStep,
     CoreCall, CoreStep, Actors

----------------------------------------------------------------------------
(* The results.                                                            *)

\* The result of a client that waits stands, unless started or removing of its
\* generation changes under it.
LEMMA ResultWaits ==
  ASSUME NEW c \in Clients, ResultOf(c), Waits(c),
         pc[c] = "unlock" => /\ started'[dv[c]] = started[dv[c]]
                             /\ removing'[dv[c]] = removing[dv[c]]
  PROVE  ResultOf(c)'
BY DEF ResultOf, Waits

\* A system call that leaves started alone.
LEMMA ResultKeep ==
  ASSUME ResultInv, NEW c \in Clients, ClientKeeps(c), UNCHANGED started, ResultOf(c)'
  PROVE  ResultInv'
<1>1. ASSUME NEW b \in Clients \ {c} PROVE ResultOf(b)'
  <2>1. ResultOf(b) /\ Waits(b) /\ UNCHANGED <<started, removing>>
    BY DEF ResultInv, ClientKeeps, Actors
  <2> QED BY <2>1, ResultWaits
<1> QED BY <1>1 DEF ResultInv

\* The owner of the bound generation changes nothing that the result of another
\* client is about: that client still has the mutex of another generation.
LEMMA OtherGeneration ==
  ASSUME Owners, NEW a \in Actors, pc[a] \in ActivePCs, NEW b \in Clients \ {a},
         pc[b] = "unlock"
  PROVE  dv[b] # dv[a]
<1>1. owner[dv[b]] = b
  BY DEF Owners, LockInv
<1>2. owner[dv[a]] = a
  <2>1. CASE a \in Clients
    BY <2>1 DEF Owners, LockInv
  <2>2. CASE a = Core
    <3>1. CoreHolds
      BY <2>2 DEF CoreHolds, Owners, LoopOK, CorePCs, ActivePCs, StartPCs, TeardownPCs, ResetPCs,
                  ProbePCs, UnwindPCs
    <3> QED BY <2>2, <3>1 DEF Owners, LockInv
  <2> QED BY <2>1, <2>2 DEF Actors
<1> QED BY <1>1, <1>2

LEMMA ResultStep ==
  ASSUME Owners, Usage, ResultInv, [Next]_vars
  PROVE  ResultInv'
<1>t. TypeOK /\ LoopOK
  BY DEF Owners
<1> USE CardAssumption, ActorAssumption DEF TypeOK, HostTypeOK, At, Goto, Finish,
        busVars, devVars, argVars, loopVars, Actors, Gens
<1>1. ASSUME NEW c \in Clients, OpenCall(c) PROVE ResultInv'
  <2>0. ClientKeeps(c)
    BY <1>t, <1>1, ClientFrame DEF ClientCall, ClientStep, StartStep, TeardownStep, ResetStep
  <2>1. UNCHANGED started
    BY <1>1 DEF OpenCall
  <2>3. ResultOf(c)'
    BY <1>t, <1>1 DEF OpenCall, ResultOf
  <2> QED BY <2>0, <2>1, <2>3, ResultKeep
<1>2. ASSUME NEW c \in Clients, Open(c) PROVE ResultInv'
  <2>0. ClientKeeps(c)
    BY <1>t, <1>2, ClientFrame DEF ClientCall, ClientStep, StartStep, TeardownStep, ResetStep
  <2>1. UNCHANGED started
    BY <1>2 DEF Open
  <2>3. ResultOf(c)'
    BY <1>t, <1>2 DEF Open, ResultOf
  <2> QED BY <2>0, <2>1, <2>3, ResultKeep
<1>3. ASSUME NEW c \in Clients, Release(c) PROVE ResultInv'
  <2>0. ClientKeeps(c)
    BY <1>t, <1>3, ClientFrame DEF ClientCall, ClientStep, StartStep, TeardownStep, ResetStep
  <2>1. UNCHANGED started
    BY <1>3 DEF Release, KrefPut
  <2>3. ResultOf(c)'
    BY <1>3 DEF Release, KrefPut, ResultOf
  <2> QED BY <2>0, <2>1, <2>3, ResultKeep
<1>4. ASSUME NEW c \in Clients, IoctlCall(c) PROVE ResultInv'
  <2>0. ClientKeeps(c)
    BY <1>t, <1>4, ClientFrame DEF ClientCall, ClientStep, StartStep, TeardownStep, ResetStep
  <2>1. UNCHANGED started
    BY <1>4 DEF IoctlCall
  <2>3. ResultOf(c)'
    BY <1>t, <1>4 DEF IoctlCall, ResultOf
  <2> QED BY <2>0, <2>1, <2>3, ResultKeep
<1>5. ASSUME NEW c \in Clients, Lock(c) PROVE ResultInv'
  <2>0. ClientKeeps(c)
    BY <1>t, <1>5, ClientFrame DEF ClientCall, ClientStep, StartStep, TeardownStep, ResetStep
  <2>1. UNCHANGED started
    BY <1>5 DEF Lock
  <2>3. ResultOf(c)'
    BY <1>t, <1>5 DEF Lock, ResultOf
  <2> QED BY <2>0, <2>1, <2>3, ResultKeep
<1>6. ASSUME NEW c \in Clients, Query(c) PROVE ResultInv'
  <2>0. ClientKeeps(c)
    BY <1>t, <1>6, ClientFrame DEF ClientCall, ClientStep, StartStep, TeardownStep, ResetStep
  <2>1. UNCHANGED started
    BY <1>6 DEF Query
  <2>2. /\ dv[c] = bound /\ ~ removing[bound] /\ bound \in Gens
        /\ UNCHANGED <<dv, op, removing>>
    BY <1>6, Sole DEF Query, ActivePCs, TeardownPCs, ResetPCs, Owners, GenInv
  <2>3. ResultOf(c)'
    BY <1>t, <1>6, <2>1, <2>2 DEF Query, ResultOf, LoopOK, Usage, StartedInv, ResetPCs, TeardownPCs
  <2> QED BY <2>0, <2>1, <2>3, ResultKeep
<1>7. ASSUME NEW c \in Clients, NotCapable(c) PROVE ResultInv'
  <2>0. ClientKeeps(c)
    BY <1>t, <1>7, ClientFrame DEF ClientCall, ClientStep, StartStep, TeardownStep, ResetStep
  <2>1. UNCHANGED started
    BY <1>7 DEF NotCapable
  <2>2. /\ dv[c] = bound /\ ~ removing[bound] /\ bound \in Gens
        /\ UNCHANGED <<dv, op, removing>>
    BY <1>7, Sole DEF NotCapable, ActivePCs, TeardownPCs, ResetPCs, Owners, GenInv
  <2>3. ResultOf(c)'
    BY <1>t, <1>7, <2>1, <2>2 DEF NotCapable, ResultOf, LoopOK, Usage, StartedInv, ResetPCs, TeardownPCs
  <2> QED BY <2>0, <2>1, <2>3, ResultKeep
<1>8. ASSUME NEW c \in Clients, Unlock(c) PROVE ResultInv'
  <2>0. ClientKeeps(c)
    BY <1>t, <1>8, ClientFrame DEF ClientCall, ClientStep, StartStep, TeardownStep, ResetStep
  <2>1. UNCHANGED started
    BY <1>8 DEF Unlock
  <2>3. ResultOf(c)'
    BY <1>t, <1>8 DEF Unlock, ResultOf
  <2> QED BY <2>0, <2>1, <2>3, ResultKeep
<1>9. ASSUME NEW c \in Clients, StartEnter(c) PROVE ResultInv'
  <2>0. ClientKeeps(c)
    BY <1>t, <1>9, ClientFrame DEF ClientCall, ClientStep, StartStep, TeardownStep, ResetStep
  <2>1. UNCHANGED started
    BY <1>9 DEF StartEnter
  <2>2. /\ dv[c] = bound /\ ~ removing[bound] /\ bound \in Gens
        /\ UNCHANGED <<dv, op, removing>>
    BY <1>9, Sole DEF StartEnter, ActivePCs, TeardownPCs, ResetPCs, Owners, GenInv
  <2>3. ResultOf(c)'
    BY <1>t, <1>9, <2>1, <2>2 DEF StartEnter, ResultOf, LoopOK, Usage, StartedInv, ResetPCs, TeardownPCs
  <2> QED BY <2>0, <2>1, <2>3, ResultKeep
<1>10. ASSUME NEW c \in Clients, SetMaster(c) PROVE ResultInv'
  <2>0. ClientKeeps(c)
    BY <1>t, <1>10, ClientFrame DEF ClientCall, ClientStep, StartStep, TeardownStep, ResetStep
  <2>1. UNCHANGED started
    BY <1>10 DEF SetMaster
  <2>3. ResultOf(c)'
    BY <1>t, <1>10 DEF SetMaster, ResultOf
  <2> QED BY <2>0, <2>1, <2>3, ResultKeep
<1>11. ASSUME NEW c \in Clients, Quiesce(c) PROVE ResultInv'
  <2>0. ClientKeeps(c)
    BY <1>t, <1>11, ClientFrame DEF ClientCall, ClientStep, StartStep, TeardownStep, ResetStep
  <2>1. UNCHANGED started
    BY <1>11 DEF Quiesce
  <2>3. ResultOf(c)'
    BY <1>t, <1>11 DEF Quiesce, ResultOf
  <2> QED BY <2>0, <2>1, <2>3, ResultKeep
<1>12. ASSUME NEW c \in Clients, ResetGlobal(c) PROVE ResultInv'
  <2>0. ClientKeeps(c)
    BY <1>t, <1>12, ClientFrame DEF ClientCall, ClientStep, StartStep, TeardownStep, ResetStep
  <2>1. UNCHANGED started
    BY <1>12 DEF ResetGlobal
  <2>3. ResultOf(c)'
    BY <1>t, <1>12 DEF ResetGlobal, ResultOf
  <2> QED BY <2>0, <2>1, <2>3, ResultKeep
<1>13. ASSUME NEW c \in Clients, GlobalOnly(c) PROVE ResultInv'
  <2>0. ClientKeeps(c)
    BY <1>t, <1>13, ClientFrame DEF ClientCall, ClientStep, StartStep, TeardownStep, ResetStep
  <2>1. UNCHANGED started
    BY <1>13 DEF GlobalOnly
  <2>3. ResultOf(c)'
    BY <1>t, <1>13 DEF GlobalOnly, ResultOf
  <2> QED BY <2>0, <2>1, <2>3, ResultKeep
<1>14. ASSUME NEW c \in Clients, RingIndex(c) PROVE ResultInv'
  <2>0. ClientKeeps(c)
    BY <1>t, <1>14, ClientFrame DEF ClientCall, ClientStep, StartStep, TeardownStep, ResetStep
  <2>1. UNCHANGED started
    BY <1>14 DEF RingIndex
  <2>3. ResultOf(c)'
    BY <1>t, <1>14 DEF RingIndex, ResultOf
  <2> QED BY <2>0, <2>1, <2>3, ResultKeep
<1>15. ASSUME NEW c \in Clients, RingDesc(c) PROVE ResultInv'
  <2>0. ClientKeeps(c)
    BY <1>t, <1>15, ClientFrame DEF ClientCall, ClientStep, StartStep, TeardownStep, ResetStep
  <2>1. UNCHANGED started
    BY <1>15 DEF RingDesc
  <2>3. ResultOf(c)'
    BY <1>t, <1>15 DEF RingDesc, ResultOf
  <2> QED BY <2>0, <2>1, <2>3, ResultKeep
<1>16. ASSUME NEW c \in Clients, RingDone(c) PROVE ResultInv'
  <2>0. ClientKeeps(c)
    BY <1>t, <1>16, ClientFrame DEF ClientCall, ClientStep, StartStep, TeardownStep, ResetStep
  <2>1. UNCHANGED started
    BY <1>16 DEF RingDone
  <2>3. ResultOf(c)'
    BY <1>t, <1>16 DEF RingDone, ResultOf
  <2> QED BY <2>0, <2>1, <2>3, ResultKeep
<1>17. ASSUME NEW c \in Clients, Enable(c) PROVE ResultInv'
  <2>0. ClientKeeps(c)
    BY <1>t, <1>17, ClientFrame DEF ClientCall, ClientStep, StartStep, TeardownStep, ResetStep
  <2>1. UNCHANGED started
    BY <1>17 DEF Enable
  <2>3. ResultOf(c)'
    BY <1>t, <1>17 DEF Enable, ResultOf
  <2> QED BY <2>0, <2>1, <2>3, ResultKeep
<1>18. ASSUME NEW c \in Clients, Verify(c) PROVE ResultInv'
  <2>0. ClientKeeps(c)
    BY <1>t, <1>18, ClientFrame DEF ClientCall, ClientStep, StartStep, TeardownStep, ResetStep
  <2>1. /\ pc[c] \in ActivePCs /\ dv[c] = bound /\ bound \in Gens /\ ~ removing[bound]
    BY <1>18, Sole DEF Verify, ActivePCs, StartPCs, TeardownPCs, Owners, GenInv
  <2>2. ASSUME NEW b \in Clients \ {c} PROVE ResultOf(b)'
    <3>1. ResultOf(b) /\ Waits(b) /\ removing' = removing
      BY <2>0 DEF ResultInv, ClientKeeps
    <3>2. pc[b] = "unlock" => started'[dv[b]] = started[dv[b]]
      <4> SUFFICES ASSUME pc[b] = "unlock" PROVE started'[dv[b]] = started[dv[b]]
        OBVIOUS
      <4>1. dv[b] \in Gens
        BY <1>t DEF Owners, GenInv
      <4>2. dv[b] # dv[c]
        BY <2>1, OtherGeneration
      <4> QED BY <1>t, <1>18, <4>1, <4>2 DEF Verify
    <3> QED BY <3>1, <3>2, ResultWaits
  <2>3. ResultOf(c)'
    <3>1. UNCHANGED <<dv, op, removing>> /\ op[c] = "start"
      BY <1>t, <1>18 DEF Verify, LoopOK, StartPCs
    <3>2. pc'[c] = "unlock" => started'[dv[c]]
      BY <1>t, <1>18, <2>1 DEF Verify
    <3> QED BY <2>1, <3>1, <3>2 DEF ResultOf
  <2> QED BY <2>2, <2>3 DEF ResultInv
<1>19. ASSUME NEW c \in Clients, StopEnter(c) PROVE ResultInv'
  <2>0. ClientKeeps(c)
    BY <1>t, <1>19, ClientFrame DEF ClientCall, ClientStep, StartStep, TeardownStep, ResetStep
  <2>1. UNCHANGED started
    BY <1>19 DEF StopEnter
  <2>2. /\ dv[c] = bound /\ ~ removing[bound] /\ bound \in Gens
        /\ UNCHANGED <<dv, op, removing>>
    BY <1>19, Sole DEF StopEnter, ActivePCs, TeardownPCs, ResetPCs, Owners, GenInv
  <2>3. ResultOf(c)'
    BY <1>t, <1>19, <2>1, <2>2 DEF StopEnter, ResultOf, LoopOK, Usage, StartedInv, ResetPCs, TeardownPCs
  <2> QED BY <2>0, <2>1, <2>3, ResultKeep
<1>20. ASSUME NEW c \in Clients, TdInt(c) PROVE ResultInv'
  <2>0. ClientKeeps(c)
    BY <1>t, <1>20, ClientFrame DEF ClientCall, ClientStep, StartStep, TeardownStep, ResetStep
  <2>1. UNCHANGED started
    BY <1>20 DEF TdInt
  <2>3. ResultOf(c)'
    BY <1>t, <1>20 DEF TdInt, ResultOf
  <2> QED BY <2>0, <2>1, <2>3, ResultKeep
<1>21. ASSUME NEW c \in Clients, TdReset(c) PROVE ResultInv'
  <2>0. ClientKeeps(c)
    BY <1>t, <1>21, ClientFrame DEF ClientCall, ClientStep, StartStep, TeardownStep, ResetStep
  <2>1. UNCHANGED started
    BY <1>21 DEF TdReset
  <2>3. ResultOf(c)'
    BY <1>t, <1>21 DEF TdReset, ResultOf
  <2> QED BY <2>0, <2>1, <2>3, ResultKeep
<1>22. ASSUME NEW c \in Clients, TdGlobal(c) PROVE ResultInv'
  <2>0. ClientKeeps(c)
    BY <1>t, <1>22, ClientFrame DEF ClientCall, ClientStep, StartStep, TeardownStep, ResetStep
  <2>1. UNCHANGED started
    BY <1>22 DEF TdGlobal
  <2>3. ResultOf(c)'
    BY <1>t, <1>22 DEF TdGlobal, ResultOf
  <2> QED BY <2>0, <2>1, <2>3, ResultKeep
<1>23. ASSUME NEW c \in Clients, TdClear(c) PROVE ResultInv'
  <2>0. ClientKeeps(c)
    BY <1>t, <1>23, ClientFrame DEF ClientCall, ClientStep, StartStep, TeardownStep, ResetStep
  <2>1. UNCHANGED started
    BY <1>23 DEF TdClear
  <2>3. ResultOf(c)'
    BY <1>t, <1>23 DEF TdClear, ResultOf
  <2> QED BY <2>0, <2>1, <2>3, ResultKeep
<1>24. ASSUME NEW c \in Clients, TdCold(c) PROVE ResultInv'
  <2>0. ClientKeeps(c)
    BY <1>t, <1>24, ClientFrame DEF ClientCall, ClientStep, StartStep, TeardownStep, ResetStep
  <2>1. UNCHANGED started
    BY <1>24 DEF TdCold
  <2>3. ResultOf(c)'
    BY <1>t, <1>24 DEF TdCold, ResultOf
  <2> QED BY <2>0, <2>1, <2>3, ResultKeep
<1>25. ASSUME NEW c \in Clients, TdMaster(c) PROVE ResultInv'
  <2>0. ClientKeeps(c)
    BY <1>t, <1>25, ClientFrame DEF ClientCall, ClientStep, StartStep, TeardownStep, ResetStep
  <2>1. /\ pc[c] \in ActivePCs /\ dv[c] = bound /\ bound \in Gens /\ ~ removing[bound]
    BY <1>25, Sole DEF TdMaster, ActivePCs, StartPCs, TeardownPCs, Owners, GenInv
  <2>2. ASSUME NEW b \in Clients \ {c} PROVE ResultOf(b)'
    <3>1. ResultOf(b) /\ Waits(b) /\ removing' = removing
      BY <2>0 DEF ResultInv, ClientKeeps
    <3>2. pc[b] = "unlock" => started'[dv[b]] = started[dv[b]]
      <4> SUFFICES ASSUME pc[b] = "unlock" PROVE started'[dv[b]] = started[dv[b]]
        OBVIOUS
      <4>1. dv[b] \in Gens
        BY <1>t DEF Owners, GenInv
      <4>2. dv[b] # dv[c]
        BY <2>1, OtherGeneration
      <4> QED BY <1>t, <1>25, <4>1, <4>2 DEF TdMaster
    <3> QED BY <3>1, <3>2, ResultWaits
  <2>3. ResultOf(c)'
    BY <1>t, <1>25 DEF TdMaster, ResultOf
  <2> QED BY <2>2, <2>3 DEF ResultInv
<1>26. ASSUME NEW c \in Clients, TdCheck(c) PROVE ResultInv'
  <2>0. ClientKeeps(c)
    BY <1>t, <1>26, ClientFrame DEF ClientCall, ClientStep, StartStep, TeardownStep, ResetStep
  <2>1. UNCHANGED started
    BY <1>26 DEF TdCheck
  <2>2. /\ dv[c] = bound /\ ~ removing[bound] /\ bound \in Gens
        /\ UNCHANGED <<dv, op, removing>>
    BY <1>26, Sole DEF TdCheck, ActivePCs, TeardownPCs, ResetPCs, Owners, GenInv
  <2>3. ResultOf(c)'
    BY <1>t, <1>26, <2>1, <2>2 DEF TdCheck, ResultOf, LoopOK, Usage, StartedInv, ResetPCs, TeardownPCs
  <2> QED BY <2>0, <2>1, <2>3, ResultKeep
<1>27. ASSUME NEW c \in Clients, ResetEnter(c) PROVE ResultInv'
  <2>0. ClientKeeps(c)
    BY <1>t, <1>27, ClientFrame DEF ClientCall, ClientStep, StartStep, TeardownStep, ResetStep
  <2>1. UNCHANGED started
    BY <1>27 DEF ResetEnter
  <2>2. /\ dv[c] = bound /\ ~ removing[bound] /\ bound \in Gens
        /\ UNCHANGED <<dv, op, removing>>
    BY <1>27, Sole DEF ResetEnter, ActivePCs, TeardownPCs, ResetPCs, Owners, GenInv
  <2>3. ResultOf(c)'
    BY <1>t, <1>27, <2>1, <2>2 DEF ResetEnter, ResultOf, LoopOK, Usage, StartedInv, ResetPCs, TeardownPCs
  <2> QED BY <2>0, <2>1, <2>3, ResultKeep
<1>28. ASSUME NEW c \in Clients, Pulse(c) PROVE ResultInv'
  <2>0. ClientKeeps(c)
    BY <1>t, <1>28, ClientFrame DEF ClientCall, ClientStep, StartStep, TeardownStep, ResetStep
  <2>1. UNCHANGED started
    BY <1>28 DEF Pulse
  <2>3. ResultOf(c)'
    BY <1>t, <1>28 DEF Pulse, ResultOf
  <2> QED BY <2>0, <2>1, <2>3, ResultKeep
<1>29. ASSUME NEW c \in Clients, Unpulse(c) PROVE ResultInv'
  <2>0. ClientKeeps(c)
    BY <1>t, <1>29, ClientFrame DEF ClientCall, ClientStep, StartStep, TeardownStep, ResetStep
  <2>1. UNCHANGED started
    BY <1>29 DEF Unpulse
  <2>3. ResultOf(c)'
    BY <1>t, <1>29 DEF Unpulse, ResultOf
  <2> QED BY <2>0, <2>1, <2>3, ResultKeep
<1>30. ASSUME NEW c \in Clients, Reenable(c) PROVE ResultInv'
  <2>0. ClientKeeps(c)
    BY <1>t, <1>30, ClientFrame DEF ClientCall, ClientStep, StartStep, TeardownStep, ResetStep
  <2>1. UNCHANGED started
    BY <1>30 DEF Reenable
  <2>3. ResultOf(c)'
    BY <1>t, <1>30 DEF Reenable, ResultOf
  <2> QED BY <2>0, <2>1, <2>3, ResultKeep
<1>31. ASSUME NEW c \in Clients, ResetCheck(c) PROVE ResultInv'
  <2>0. ClientKeeps(c)
    BY <1>t, <1>31, ClientFrame DEF ClientCall, ClientStep, StartStep, TeardownStep, ResetStep
  <2>1. UNCHANGED started
    BY <1>31 DEF ResetCheck
  <2>2. /\ dv[c] = bound /\ ~ removing[bound] /\ bound \in Gens
        /\ UNCHANGED <<dv, op, removing>>
    BY <1>31, Sole DEF ResetCheck, ActivePCs, TeardownPCs, ResetPCs, Owners, GenInv
  <2>3. ResultOf(c)'
    BY <1>t, <1>31, <2>1, <2>2 DEF ResetCheck, ResultOf, LoopOK, Usage, StartedInv, ResetPCs, TeardownPCs
  <2> QED BY <2>0, <2>1, <2>3, ResultKeep
<1>32. ASSUME ProbeCall PROVE ResultInv'
  <2>0. CoreKeeps
    BY <1>t, <1>32, CoreFrame DEF CoreCall, CoreStep, TeardownStep
  <2>1. UNCHANGED <<started, removing>>
    BY <1>32 DEF ProbeCall
  <2> QED BY <2>0, <2>1, ResultWaits DEF ResultInv, CoreKeeps
<1>33. ASSUME ProbeEnable PROVE ResultInv'
  <2>0. CoreKeeps
    BY <1>t, <1>33, CoreFrame DEF CoreCall, CoreStep, TeardownStep
  <2>1. UNCHANGED <<started, removing>>
    BY <1>33 DEF ProbeEnable, Acquire
  <2> QED BY <2>0, <2>1, ResultWaits DEF ResultInv, CoreKeeps
<1>34. ASSUME ProbeRegion PROVE ResultInv'
  <2>0. CoreKeeps
    BY <1>t, <1>34, CoreFrame DEF CoreCall, CoreStep, TeardownStep
  <2>1. UNCHANGED <<started, removing>>
    BY <1>34 DEF ProbeRegion, Acquire
  <2> QED BY <2>0, <2>1, ResultWaits DEF ResultInv, CoreKeeps
<1>35. ASSUME ProbeMap PROVE ResultInv'
  <2>0. CoreKeeps
    BY <1>t, <1>35, CoreFrame DEF CoreCall, CoreStep, TeardownStep
  <2>1. UNCHANGED <<started, removing>>
    BY <1>35 DEF ProbeMap, Acquire
  <2> QED BY <2>0, <2>1, ResultWaits DEF ResultInv, CoreKeeps
<1>36. ASSUME ProbeCold PROVE ResultInv'
  <2>0. CoreKeeps
    BY <1>t, <1>36, CoreFrame DEF CoreCall, CoreStep, TeardownStep
  <2>1. UNCHANGED <<started, removing>>
    BY <1>36 DEF ProbeCold
  <2> QED BY <2>0, <2>1, ResultWaits DEF ResultInv, CoreKeeps
<1>37. ASSUME ProbeAlloc PROVE ResultInv'
  <2>0. CoreKeeps
    BY <1>t, <1>37, CoreFrame DEF CoreCall, CoreStep, TeardownStep
  <2>1. UNCHANGED <<started, removing>>
    BY <1>37 DEF ProbeAlloc
  <2> QED BY <2>0, <2>1, ResultWaits DEF ResultInv, CoreKeeps
<1>38. ASSUME ProbeRegister PROVE ResultInv'
  <2>0. CoreKeeps
    BY <1>t, <1>38, CoreFrame DEF CoreCall, CoreStep, TeardownStep
  <2>1. UNCHANGED <<started, removing>>
    BY <1>38 DEF ProbeRegister
  <2> QED BY <2>0, <2>1, ResultWaits DEF ResultInv, CoreKeeps
<1>39. ASSUME RemoveCall PROVE ResultInv'
  <2>0. CoreKeeps
    BY <1>t, <1>39, CoreFrame DEF CoreCall, CoreStep, TeardownStep
  <2>1. UNCHANGED <<started, removing>>
    BY <1>39 DEF RemoveCall
  <2> QED BY <2>0, <2>1, ResultWaits DEF ResultInv, CoreKeeps
<1>40. ASSUME RemoveDeregister PROVE ResultInv'
  <2>0. CoreKeeps
    BY <1>t, <1>40, CoreFrame DEF CoreCall, CoreStep, TeardownStep
  <2>1. UNCHANGED <<started, removing>>
    BY <1>40 DEF RemoveDeregister
  <2> QED BY <2>0, <2>1, ResultWaits DEF ResultInv, CoreKeeps
<1>41. ASSUME RemoveLock PROVE ResultInv'
  <2>0. CoreKeeps
    BY <1>t, <1>41, CoreFrame DEF CoreCall, CoreStep, TeardownStep
  <2>1. ASSUME NEW c \in Clients, pc[c] = "unlock"
        PROVE  started'[dv[c]] = started[dv[c]] /\ removing'[dv[c]] = removing[dv[c]]
    <3>1. owner[dv[c]] = c /\ dv[c] \in Gens
      BY <1>t, <2>1 DEF Owners, LockInv, GenInv
    <3> QED BY <1>t, <1>41, <3>1 DEF RemoveLock
  <2> QED BY <2>0, <2>1, ResultWaits DEF ResultInv, CoreKeeps
<1>42. ASSUME FreePages PROVE ResultInv'
  <2>0. CoreKeeps
    BY <1>t, <1>42, CoreFrame DEF CoreCall, CoreStep, TeardownStep
  <2>1. UNCHANGED <<started, removing>>
    BY <1>42 DEF FreePages
  <2> QED BY <2>0, <2>1, ResultWaits DEF ResultInv, CoreKeeps
<1>43. ASSUME UnmapBar PROVE ResultInv'
  <2>0. CoreKeeps
    BY <1>t, <1>43, CoreFrame DEF CoreCall, CoreStep, TeardownStep
  <2>1. UNCHANGED <<started, removing>>
    BY <1>43 DEF UnmapBar, ReleaseResource
  <2> QED BY <2>0, <2>1, ResultWaits DEF ResultInv, CoreKeeps
<1>44. ASSUME ReleaseRegion PROVE ResultInv'
  <2>0. CoreKeeps
    BY <1>t, <1>44, CoreFrame DEF CoreCall, CoreStep, TeardownStep
  <2>1. UNCHANGED <<started, removing>>
    BY <1>44 DEF ReleaseRegion, ReleaseResource
  <2> QED BY <2>0, <2>1, ResultWaits DEF ResultInv, CoreKeeps
<1>45. ASSUME DisableDevice PROVE ResultInv'
  <2>0. CoreKeeps
    BY <1>t, <1>45, CoreFrame DEF CoreCall, CoreStep, TeardownStep
  <2>1. UNCHANGED <<started, removing>>
    BY <1>45 DEF DisableDevice, ReleaseResource
  <2> QED BY <2>0, <2>1, ResultWaits DEF ResultInv, CoreKeeps
<1>46. ASSUME RemoveUnlock PROVE ResultInv'
  <2>0. CoreKeeps
    BY <1>t, <1>46, CoreFrame DEF CoreCall, CoreStep, TeardownStep
  <2>1. UNCHANGED <<started, removing>>
    BY <1>46 DEF RemoveUnlock
  <2> QED BY <2>0, <2>1, ResultWaits DEF ResultInv, CoreKeeps
<1>47. ASSUME PutDevice PROVE ResultInv'
  <2>0. CoreKeeps
    BY <1>t, <1>47, CoreFrame DEF CoreCall, CoreStep, TeardownStep
  <2>1. UNCHANGED <<started, removing>>
    BY <1>47 DEF PutDevice, KrefPut
  <2> QED BY <2>0, <2>1, ResultWaits DEF ResultInv, CoreKeeps
<1>48. ASSUME TdInt(Core) PROVE ResultInv'
  <2>0. CoreKeeps
    BY <1>t, <1>48, CoreFrame DEF CoreCall, CoreStep, TeardownStep
  <2>1. UNCHANGED <<started, removing>>
    BY <1>48 DEF TdInt
  <2> QED BY <2>0, <2>1, ResultWaits DEF ResultInv, CoreKeeps
<1>49. ASSUME TdReset(Core) PROVE ResultInv'
  <2>0. CoreKeeps
    BY <1>t, <1>49, CoreFrame DEF CoreCall, CoreStep, TeardownStep
  <2>1. UNCHANGED <<started, removing>>
    BY <1>49 DEF TdReset
  <2> QED BY <2>0, <2>1, ResultWaits DEF ResultInv, CoreKeeps
<1>50. ASSUME TdGlobal(Core) PROVE ResultInv'
  <2>0. CoreKeeps
    BY <1>t, <1>50, CoreFrame DEF CoreCall, CoreStep, TeardownStep
  <2>1. UNCHANGED <<started, removing>>
    BY <1>50 DEF TdGlobal
  <2> QED BY <2>0, <2>1, ResultWaits DEF ResultInv, CoreKeeps
<1>51. ASSUME TdClear(Core) PROVE ResultInv'
  <2>0. CoreKeeps
    BY <1>t, <1>51, CoreFrame DEF CoreCall, CoreStep, TeardownStep
  <2>1. UNCHANGED <<started, removing>>
    BY <1>51 DEF TdClear
  <2> QED BY <2>0, <2>1, ResultWaits DEF ResultInv, CoreKeeps
<1>52. ASSUME TdCold(Core) PROVE ResultInv'
  <2>0. CoreKeeps
    BY <1>t, <1>52, CoreFrame DEF CoreCall, CoreStep, TeardownStep
  <2>1. UNCHANGED <<started, removing>>
    BY <1>52 DEF TdCold
  <2> QED BY <2>0, <2>1, ResultWaits DEF ResultInv, CoreKeeps
<1>53. ASSUME TdMaster(Core) PROVE ResultInv'
  <2>0. CoreKeeps
    BY <1>t, <1>53, CoreFrame DEF CoreCall, CoreStep, TeardownStep
  <2>1. ASSUME NEW c \in Clients, pc[c] = "unlock"
        PROVE  started'[dv[c]] = started[dv[c]] /\ removing'[dv[c]] = removing[dv[c]]
    <3>1. dv[c] \in Gens
      BY <1>t, <2>1 DEF Owners, GenInv
    <3>2. pc[Core] \in ActivePCs
      BY <1>53 DEF TdMaster, ActivePCs, TeardownPCs
    <3>3. dv[c] # dv[Core]
      BY <2>1, <3>2, OtherGeneration
    <3> QED BY <1>t, <1>53, <3>1, <3>3 DEF TdMaster
  <2> QED BY <2>0, <2>1, ResultWaits DEF ResultInv, CoreKeeps
<1>54. ASSUME TdCheck(Core) PROVE ResultInv'
  <2>0. CoreKeeps
    BY <1>t, <1>54, CoreFrame DEF CoreCall, CoreStep, TeardownStep
  <2>1. UNCHANGED <<started, removing>>
    BY <1>54 DEF TdCheck
  <2> QED BY <2>0, <2>1, ResultWaits DEF ResultInv, CoreKeeps
<1>90. ASSUME Card \/ UNCHANGED vars PROVE ResultInv'
  <2>1. UNCHANGED <<pc, ret, removing, dv, op, started>>
    BY <1>90 DEF Card, hostVars, vars
  <2> QED BY <2>1 DEF ResultInv, ResultOf
<1> HIDE DEF TypeOK, HostTypeOK, At, Goto, Finish, busVars, devVars, argVars, loopVars, Actors
<1> QED
  BY <1>1, <1>2, <1>3, <1>4, <1>5, <1>6, <1>7, <1>8, <1>9, <1>10, <1>11, <1>12, <1>13, <1>14, <1>15, <1>16, <1>17, <1>18, <1>19, <1>20, <1>21, <1>22, <1>23, <1>24, <1>25, <1>26, <1>27, <1>28, <1>29, <1>30, <1>31, <1>32, <1>33, <1>34, <1>35, <1>36, <1>37, <1>38, <1>39, <1>40, <1>41, <1>42, <1>43, <1>44, <1>45, <1>46, <1>47, <1>48, <1>49, <1>50, <1>51, <1>52, <1>53, <1>54,
     <1>90 DEF Next, ClientCall, ClientStep, StartStep, TeardownStep, ResetStep,
     CoreCall, CoreStep

----------------------------------------------------------------------------
(* The invariant and the state theorems.                                   *)

LEMMA InitTransport == Init => TransportInv
<1> SUFFICES ASSUME Init PROVE TransportInv
  OBVIOUS
<1>1. ~ Running /\ \A a \in Actors : pc[a] \notin UsingPCs
  BY DEF Init, Running, UsingPCs, StartPCs, TeardownPCs, ResetPCs
<1>2. \A a \in Actors : DmaAt(a)
  BY <1>1 DEF DmaAt, UsingPCs, InitLoop, StartPCs, TeardownPCs, ResetPCs
<1>3. ResultInv
  BY DEF Init, ResultInv, ResultOf, Actors
<1> QED BY <1>1, <1>2, <1>3 DEF TransportInv, DmaInv, IdxInv

LEMMA NextTransport == IInv /\ TransportInv /\ [Next]_vars => TransportInv'
<1> SUFFICES ASSUME IInv, TransportInv, [Next]_vars PROVE TransportInv'
  OBVIOUS
<1>1. Owners /\ Usage
  BY DEF IInv, Owners, Usage
<1> QED BY <1>1, DmaStep, IdxStep, ResultStep DEF TransportInv

\* The DMA control register, the ring indexes and the pending results are what
\* the control points of the register sequences say.
THEOREM TransportInductive == Spec => []TransportInv
BY InitTransport, NextTransport, Inductive, PTL DEF Spec

\* Outside the locked sections the card is either fully up or fully quiet.
LEMMA Quiescent ==
  ASSUME IInv, LifetimeInv, TransportInv, linked,
         \A a \in Actors : pc[a] \notin ActivePCs
  PROVE  IF Running THEN dmaCtl = ALL_DSPS /\ master /\ RingsPublished(bound)
                    ELSE dmaCtl.enable = {} /\ ~ master /\ \A s \in DescSlots : desc[s] = 0
<1>1. CASE Running
  <2>1. dmaCtl = ALL_DSPS
    BY <1>1, UsingPoints DEF TransportInv, DmaInv
  <2>2. master
    BY <1>1 DEF LifetimeInv, MasterInv, Running
  <2>3. RingsPublished(bound)
    BY <1>1, ProgressPoints DEF IInv, CardInv, RingsPublished, Running
  <2> QED BY <1>1, <2>1, <2>2, <2>3
<1>2. CASE ~ Running
  <2>1. Cleared /\ \A s \in DescSlots : s[1] \notin dmaCtl.enable
    BY <1>2, QuietCard, ProgressPoints DEF IInv, Running
  <2>2. dmaCtl.enable = {}
    <3>1. dmaCtl.enable \subseteq DSPS
      BY DEF IInv, TypeOK, CardTypeOK, DmaWord
    <3> QED BY <2>1, <3>1, SomeSlot
  <2>3. ~ master
    <3>1. MasterPCs \subseteq ActivePCs
      BY DEF MasterPCs, ActivePCs
    <3> QED BY <1>2, <3>1 DEF LifetimeInv, MasterInv, Running
  <2> QED BY <1>2, <2>1, <2>2, <2>3 DEF Cleared
<1> QED BY <1>1, <1>2

\* Whenever the mutex is free, started is the truth about an answering card:
\* uad2_start_locked sets it only after the read-back, the rollback of a failed
\* start undoes everything, uad2_stop_locked clears it after the last write.
THEOREM StartedTruth == Spec => []StartedIsTruth
<1>1. ASSUME IInv, LifetimeInv, TransportInv PROVE StartedIsTruth
  <2> SUFFICES ASSUME AtRest, linked
               PROVE  IF started[bound]
                      THEN dmaCtl = ALL_DSPS /\ master /\ RingsPublished(bound)
                      ELSE dmaCtl.enable = {} /\ ~ master /\ \A s \in DescSlots : desc[s] = 0
    BY DEF StartedIsTruth
  <2>1. ASSUME NEW a \in Actors PROVE pc[a] \notin ActivePCs
    <3>1. CASE a \in Clients
      <4>1. owner[bound] # a
        BY <3>1, ActorAssumption DEF AtRest, Actors
      <4> QED BY <1>1, <3>1, <4>1, ActiveClient DEF IInv
    <3>2. CASE a = Core
      BY <3>2 DEF AtRest, ActivePCs, StartPCs, TeardownPCs, ResetPCs
    <3> QED BY <3>1, <3>2 DEF Actors
  <2>2. Running <=> started[bound]
    BY DEF AtRest, Running
  <2>3. started[bound] \in BOOLEAN
    BY <1>1, CardAssumption DEF AtRest, IInv, TypeOK, HostTypeOK, Gens
  <2> QED BY <1>1, <2>1, <2>2, <2>3, Quiescent
<1> QED BY <1>1, Inductive, Lifetimes, TransportInductive, PTL

\* A result of 0 is the truth when the ioctl returns: nobody else can have
\* touched the transport between the last step of the command and its unlock.
THEOREM ResultTruth == Spec => []ResultIsTruth
<1>1. ASSUME IInv, LifetimeInv, TransportInv PROVE ResultIsTruth
  <2> SUFFICES ASSUME NEW c \in Clients, pc[c] = "unlock", ret[c] = "ok", linked
               PROVE  /\ op[c] \in {"start", "reset"} => started[dv[c]] /\ dmaCtl = ALL_DSPS
                      /\ op[c] = "stop" => /\ ~ started[dv[c]] /\ dmaCtl.enable = {}
                                           /\ ~ master
    BY DEF ResultIsTruth
  <2>1. ResultOf(c)
    BY <1>1 DEF TransportInv, ResultInv
  <2>2. dv[c] = bound /\ bound # 0 /\ owner[bound] = c /\ ~ removing[bound]
    BY <1>1, <2>1 DEF ResultOf, IInv, GenInv, LockInv
  <2>3. ASSUME NEW a \in Actors PROVE pc[a] \notin ActivePCs
    <3>1. CASE a \in Clients
      <4>1. "unlock" \notin ActivePCs
        BY DEF ActivePCs, StartPCs, TeardownPCs, ResetPCs
      <4> QED BY <1>1, <2>2, <3>1, <4>1, ActiveClient DEF IInv
    <3>2. CASE a = Core
      <4>1. ~ CoreHolds
        BY <1>1, <2>2, ActorAssumption DEF IInv, LockInv, CoreInv
      <4> QED BY <1>1, <3>2, <4>1 DEF CoreHolds, IInv, LoopOK, CorePCs, ActivePCs, StartPCs,
                  TeardownPCs, ResetPCs, ProbePCs, UnwindPCs
    <3> QED BY <3>1, <3>2 DEF Actors
  <2>4. Running <=> started[dv[c]]
    BY <2>2 DEF Running
  <2> QED BY <1>1, <2>1, <2>3, <2>4, Quiescent DEF ResultOf
<1> QED BY <1>1, Inductive, Lifetimes, TransportInductive, PTL

\* A running engine finds its rings empty: uad2_initialize_ring writes the
\* hardware index to both host words, and the reset pulse, which returns the
\* hardware index to zero, finds the host words at zero already.
THEOREM RingsEmpty == Spec => []EnabledRingsEmpty
<1>1. ASSUME IInv, TransportInv PROVE EnabledRingsEmpty
  <2> SUFFICES ASSUME NEW x \in RingIds, EngineLive(x[1])
               PROVE  idx[x].write = idx[x].read /\ idx[x].bell = idx[x].read
    BY DEF EnabledRingsEmpty
  <2>1. linked /\ x[1] \in dmaCtl.enable /\ x[1] \in DSPS
    BY DEF EngineLive, RingIds
  <2>2. Running \/ \E a \in Actors : pc[a] \in UsingPCs
    <3> SUFFICES ASSUME ~ Running, \A a \in Actors : pc[a] \notin UsingPCs PROVE FALSE
      OBVIOUS
    <3>1. DirtyPCs \subseteq UsingPCs
      BY DEF DirtyPCs, UsingPCs, InitLoop, StartPCs, TeardownPCs
    <3>2. \A s \in DescSlots : s[1] \notin dmaCtl.enable
      BY <1>1, <2>1, <3>1, QuietCard DEF IInv, Running
    <3> QED BY <2>1, <3>2, SomeSlot
  <2>3. idx[x] = [bell |-> 0, write |-> 0, read |-> 0]
    BY <1>1, <2>1, <2>2 DEF TransportInv, IdxInv, ZeroIdx
  <2> QED BY <2>3
<1> QED BY <1>1, Inductive, TransportInductive, PTL
----------------------------------------------------------------------------
(* The action property.                                                    *)

\* The word the register holds and the word a reset step writes differ in the
\* bits of one DSP.
LEMMA ResetWords ==
  ASSUME NEW d \in DSPS, NEW e \in DSPS \ {d}
  PROVE  /\ e \in ALL_DSPS.enable /\ e \notin ALL_DSPS.reset /\ ALL_DSPS.global
         /\ e \in Pulsed(d).enable /\ e \notin Pulsed(d).reset /\ Pulsed(d).global
         /\ e \in Disabled(d).enable /\ e \notin Disabled(d).reset /\ Disabled(d).global
BY DEF ALL_DSPS, Pulsed, Disabled

\* A write of the reset sequence over a word of the reset sequence.
LEMMA ResetWrite ==
  ASSUME NEW d \in DSPS, NEW v \in {ALL_DSPS, Pulsed(d), Disabled(d)},
         linked => dmaCtl \in {ALL_DSPS, Pulsed(d), Disabled(d)}, WriteDma(v)
  PROVE  /\ \A e \in DSPS \ {d} : /\ e \in dmaCtl'.enable <=> e \in dmaCtl.enable
                                  /\ e \in dmaCtl'.reset <=> e \in dmaCtl.reset
         /\ dmaCtl'.global = dmaCtl.global
         /\ desc' = desc
<1>1. CASE linked
  <2>1. dmaCtl' = v /\ desc' = desc
    BY <1>1 DEF WriteDma
  <2>2. dmaCtl.global = dmaCtl'.global
    BY <1>1, <2>1 DEF ALL_DSPS, Pulsed, Disabled
  <2> QED BY <1>1, <2>1, <2>2, ResetWords
<1>2. CASE ~ linked
  BY <1>2 DEF WriteDma
<1> QED BY <1>1, <1>2

\* Reset isolation: uad2_reset_dsp_locked finds ALL_DSPS, or refuses, and each
\* word it then writes differs from the word before in the bits of its own DSP
\* only.  No other actor can write the register in between.
THEOREM IsolatedReset == Spec => ResetIsolation
<1> DEFINE Isolated(c) ==
      /\ \A d \in DSPS \ {dsp[c]} : /\ d \in dmaCtl'.enable <=> d \in dmaCtl.enable
                                    /\ d \in dmaCtl'.reset <=> d \in dmaCtl.reset
      /\ dmaCtl'.global = dmaCtl.global
      /\ desc' = desc
<1>1. ASSUME IInv, TransportInv, [Next]_vars, NEW c \in Clients,
             pc[c] \in ResetPCs, pc'[c] # pc[c]
      PROVE  Isolated(c)
  <2>t. TypeOK /\ LoopOK
    BY <1>1 DEF IInv
  <2>1. ClientCall(c) \/ ClientStep(c)
    <3>1. ASSUME NEW b \in Clients \ {c}, ClientCall(b) \/ ClientStep(b) PROVE FALSE
      <4>1. ClientKeeps(b)
        BY <2>t, <3>1, ClientFrame
      <4> QED BY <1>1, <4>1 DEF ClientKeeps, Waits, Actors
    <3>2. ASSUME CoreCall \/ CoreStep PROVE FALSE
      BY <1>1, <2>t, <3>2, CoreFrame DEF CoreKeeps, Waits
    <3>3. ASSUME Card \/ UNCHANGED vars PROVE FALSE
      BY <1>1, <3>3 DEF Card, hostVars, vars
    <3> QED BY <1>1, <3>1, <3>2, <3>3 DEF Next
  <2>2. \/ Pulse(c) \/ Unpulse(c) \/ Reenable(c) \/ ResetCheck(c)
    BY <1>1, <2>1 DEF ResetPCs, At, ClientCall, ClientStep, StartStep, TeardownStep, ResetStep,
       OpenCall, Open, Release, IoctlCall, Lock, Query, NotCapable, Unlock, StartEnter, SetMaster,
       Quiesce, ResetGlobal, GlobalOnly, RingIndex, RingDesc, RingDone, Enable, Verify, StopEnter,
       TdInt, TdReset, TdGlobal, TdClear, TdCold, TdMaster, TdCheck, ResetEnter
  <2>3. dsp[c] \in DSPS
    BY <1>1, <2>t DEF LoopOK, Actors
  <2>4. linked => dmaCtl \in {ALL_DSPS, Pulsed(dsp[c]), Disabled(dsp[c])}
    BY <1>1 DEF TransportInv, DmaInv, DmaAt, ResetPCs, Actors
  <2>5. CASE ResetCheck(c)
    BY <2>5 DEF ResetCheck, cardVars
  <2>6. CASE Pulse(c) \/ Unpulse(c) \/ Reenable(c)
    <3>1. \E v \in {ALL_DSPS, Pulsed(dsp[c]), Disabled(dsp[c])} : WriteDma(v)
      BY <2>6 DEF Pulse, Unpulse, Reenable, Pulsed
    <3> QED BY <2>3, <2>4, <3>1, ResetWrite
  <2> QED BY <2>2, <2>5, <2>6
<1>2. IInv /\ TransportInv /\ [Next]_vars =>
        [\A c \in Clients : pc[c] \in ResetPCs /\ pc'[c] # pc[c] => Isolated(c)]_vars
  BY <1>1
<1> QED BY <1>2, Inductive, TransportInductive, PTL DEF Spec, ResetIsolation

----------------------------------------------------------------------------
(* The refinement: every step of the driver is a step of Transport, or     *)
(* leaves its state alone.                                                 *)

TState == IF bound = 0 THEN "absent" ELSE IF started[bound] THEN "running" ELSE "stopped"
AbstractStep == [Abstract!Next]_(Abstract!tvars)

\* The engines that the words of the driver let run.
LEMMA WordEngines ==
  /\ EnginesOf(COLD_RESET) = {} /\ EnginesOf(RESET_GLOBAL) = {}
  /\ EnginesOf(GLOBAL_ONLY) = {} /\ EnginesOf(ALL_DSPS) = DSPS
  /\ \A d \in DSPS : /\ EnginesOf(EnableUpTo(d)) = 0 .. d
                     /\ EnginesOf(EnableUpTo(d - 1)) = 0 .. d - 1
                     /\ EnginesOf(Pulsed(d)) = DSPS \ {d}
                     /\ EnginesOf(Disabled(d)) = DSPS \ {d}
BY CardEngines DEF Pulsed, Disabled

\* How a change of TState, Engines and linked is a step of Transport.
LEMMA AsStutter ==
  ASSUME TState' = TState, Engines' = Engines, linked' = linked PROVE AbstractStep
<1>1. UNCHANGED {d \in DSPS : EngineLive(d)}
  BY MappedEngines DEF Engines, EnginesOf, EngineLive
<1> QED BY <1>1 DEF AbstractStep, Abstract!tvars, TState
LEMMA AsAllOff ==
  ASSUME TState' = TState, Engines' = {}, linked' = linked PROVE AbstractStep
<1>1. {d \in DSPS : EngineLive(d)}' = {}
  BY MappedEngines DEF Engines, EnginesOf, EngineLive
<1> QED BY <1>1 DEF AbstractStep, Abstract!Next, Abstract!AllOff, TState
LEMMA AsOther ==
  ASSUME \/ /\ TState = "absent" /\ TState' = "stopped"
            /\ Engines' = Engines /\ linked' = linked
         \/ /\ TState = "stopped" /\ TState' = "running"
            /\ Engines = DSPS /\ Engines' = DSPS /\ linked /\ linked'
         \/ /\ TState = "running" /\ TState' = "stopped"
            /\ Engines = {} /\ Engines' = {} /\ linked' = linked
         \/ /\ TState = "stopped" /\ TState' = "absent"
            /\ Engines = {} /\ Engines' = {} /\ linked' = linked
         \/ /\ TState' = TState /\ Engines' = {} /\ linked /\ ~ linked'
  PROVE  AbstractStep
<1>1. {d \in DSPS : EngineLive(d)} = Engines /\ {d \in DSPS : EngineLive(d)}' = Engines'
  BY MappedEngines DEF Engines, EnginesOf, EngineLive
<1>2. CASE TState = "absent" /\ TState' = "stopped" /\ Engines' = Engines /\ linked' = linked
  <2>1. Abstract!Attach
    BY <1>1, <1>2 DEF Abstract!Attach, TState
  <2> QED BY <2>1 DEF AbstractStep, Abstract!Next
<1>3. CASE TState' = "running" /\ TState = "stopped"
  <2>1. Abstract!Commit
    BY <1>1, <1>3 DEF Abstract!Commit, Abstract!All, TState, DSPS
  <2> QED BY <2>1 DEF AbstractStep, Abstract!Next
<1>4. CASE TState' = "stopped" /\ TState = "running"
  <2>1. Abstract!Stopped
    BY <1>1, <1>4 DEF Abstract!Stopped, TState
  <2> QED BY <2>1 DEF AbstractStep, Abstract!Next
<1>5. CASE TState' = "absent" /\ TState = "stopped"
  <2>1. Abstract!Detach
    BY <1>1, <1>5 DEF Abstract!Detach, TState
  <2> QED BY <2>1 DEF AbstractStep, Abstract!Next
<1>6. CASE TState' = TState /\ Engines' = {} /\ linked /\ ~ linked'
  <2>1. Abstract!Vanish
    BY <1>1, <1>6 DEF Abstract!Vanish, TState
  <2> QED BY <2>1 DEF AbstractStep, Abstract!Next
<1> QED BY <1>2, <1>3, <1>4, <1>5, <1>6
LEMMA AsEngine ==
  ASSUME NEW d \in DSPS, TState' = TState, linked, linked',
         \/ TState = "stopped" /\ Engines = 0 .. d - 1 /\ Engines' = 0 .. d
         \/ TState = "running" /\ Engines = DSPS /\ Engines' = DSPS \ {d}
         \/ TState = "running" /\ Engines = DSPS \ {d} /\ Engines' = DSPS
  PROVE  AbstractStep
<1>1. {d1 \in DSPS : EngineLive(d1)} = Engines /\ {d1 \in DSPS : EngineLive(d1)}' = Engines'
  BY MappedEngines DEF Engines, EnginesOf, EngineLive
<1>2. d \in Abstract!All
  BY DEF Abstract!All, DSPS
<1> QED BY <1>1, <1>2 DEF AbstractStep, Abstract!Next, Abstract!EngineOn, Abstract!ResetOff,
           Abstract!ResetOn, Abstract!All, TState, DSPS

\* A step that writes no enable bit and neither binds nor starts.
LEMMA AbstractKeep ==
  ASSUME UNCHANGED <<dmaCtl, linked, bound, started>> PROVE AbstractStep
BY AsStutter DEF TState, Engines

\* A write of a word that lets no engine run turns all of them off.
LEMMA AbstractOff ==
  ASSUME NEW w \in {COLD_RESET, RESET_GLOBAL, GLOBAL_ONLY}, WriteDma(w),
         UNCHANGED <<bound, started>>
  PROVE  AbstractStep
<1>1. TState' = TState /\ linked' = linked /\ (linked => dmaCtl' = w)
  BY DEF TState, WriteDma
<1>2. Engines' = {}
  BY <1>1, WordEngines DEF Engines
<1> QED BY <1>1, <1>2, AsAllOff

\* A write to a lost card.
LEMMA AbstractLost ==
  ASSUME ~ linked, UNCHANGED <<linked, bound, started>> PROVE AbstractStep
BY AsAllOff DEF TState, Engines

\* The device goes away: nothing is enabled.
LEMMA AbstractGone ==
  ASSUME Owners, Usage, CardInv, pc[Core] \in {"rUnlock", "uPut"},
         UNCHANGED <<dmaCtl, linked, started>>, bound' = 0
  PROVE  AbstractStep
<1>1. CASE bound = 0
  BY <1>1, AbstractKeep
<1>2. CASE bound # 0
  <2>1. dv[Core] = bound /\ ~ started[bound]
    BY <1>2 DEF Owners, CoreInv, Usage, StartedInv, UnwindPCs
  <2>2. \A a \in Actors : pc[a] \notin DirtyPCs
    BY ActiveCore, ProgressPoints DEF Actors, DirtyPCs, InitLoop
  <2>3. linked => Engines = {}
    BY <2>1, <2>2, QuietCard, SomeSlot DEF Engines, EnginesOf
  <2>4. TState = "stopped" /\ TState' = "absent" /\ Engines = {} /\ Engines' = {} /\ linked' = linked
    BY <1>2, <2>1, <2>3 DEF TState, Engines
  <2> QED BY <2>4, AsOther
<1> QED BY <1>1, <1>2

LEMMA AbstractNext ==
  ASSUME IInv, TransportInv, [Next]_vars PROVE AbstractStep
<1>t. TypeOK /\ LoopOK /\ Owners /\ Usage /\ CardInv /\ DmaInv
  BY DEF IInv, Owners, Usage, TransportInv
<1> USE CardAssumption, ActorAssumption DEF At, Goto, Finish, busVars, devVars, argVars, loopVars,
        cardVars
<1>1. ASSUME NEW c \in Clients, OpenCall(c) PROVE AbstractStep
  BY <1>1, AbstractKeep DEF OpenCall
<1>2. ASSUME NEW c \in Clients, Open(c) PROVE AbstractStep
  BY <1>2, AbstractKeep DEF Open
<1>3. ASSUME NEW c \in Clients, Release(c) PROVE AbstractStep
  BY <1>3, AbstractKeep DEF Release, KrefPut
<1>4. ASSUME NEW c \in Clients, IoctlCall(c) PROVE AbstractStep
  BY <1>4, AbstractKeep DEF IoctlCall
<1>5. ASSUME NEW c \in Clients, Lock(c) PROVE AbstractStep
  BY <1>5, AbstractKeep DEF Lock
<1>6. ASSUME NEW c \in Clients, Query(c) PROVE AbstractStep
  BY <1>6, AbstractKeep DEF Query
<1>7. ASSUME NEW c \in Clients, NotCapable(c) PROVE AbstractStep
  BY <1>7, AbstractKeep DEF NotCapable
<1>8. ASSUME NEW c \in Clients, Unlock(c) PROVE AbstractStep
  BY <1>8, AbstractKeep DEF Unlock
<1>9. ASSUME NEW c \in Clients, StartEnter(c) PROVE AbstractStep
  BY <1>9, AbstractKeep DEF StartEnter
<1>10. ASSUME NEW c \in Clients, SetMaster(c) PROVE AbstractStep
  BY <1>10, AbstractKeep DEF SetMaster
<1>11. ASSUME NEW c \in Clients, Quiesce(c) PROVE AbstractStep
  BY <1>11, AbstractKeep DEF Quiesce, DisableInterrupts
<1>12. ASSUME NEW c \in Clients, RingIndex(c) PROVE AbstractStep
  BY <1>12, AbstractKeep DEF RingIndex, WriteIndexes
<1>13. ASSUME NEW c \in Clients, RingDesc(c) PROVE AbstractStep
  BY <1>13, AbstractKeep DEF RingDesc, WriteDesc
<1>14. ASSUME NEW c \in Clients, RingDone(c) PROVE AbstractStep
  BY <1>14, AbstractKeep DEF RingDone
<1>15. ASSUME NEW c \in Clients, StopEnter(c) PROVE AbstractStep
  BY <1>15, AbstractKeep DEF StopEnter
<1>16. ASSUME NEW c \in Clients, ResetEnter(c) PROVE AbstractStep
  BY <1>16, AbstractKeep DEF ResetEnter
<1>17. ASSUME NEW c \in Clients, ResetCheck(c) PROVE AbstractStep
  BY <1>17, AbstractKeep DEF ResetCheck
<1>18. ASSUME NEW a \in Actors, TdInt(a) PROVE AbstractStep
  BY <1>18, AbstractKeep DEF TdInt, DisableInterrupts
<1>19. ASSUME NEW a \in Actors, TdClear(a) PROVE AbstractStep
  BY <1>19, AbstractKeep DEF TdClear, ClearRing
<1>20. ASSUME NEW a \in Actors, TdCheck(a) PROVE AbstractStep
  BY <1>20, AbstractKeep DEF TdCheck
<1>21. ASSUME ProbeEnable PROVE AbstractStep
  BY <1>21, AbstractKeep DEF ProbeEnable, Acquire
<1>22. ASSUME ProbeRegion PROVE AbstractStep
  BY <1>22, AbstractKeep DEF ProbeRegion, Acquire
<1>23. ASSUME ProbeMap PROVE AbstractStep
  BY <1>23, AbstractKeep DEF ProbeMap, Acquire
<1>24. ASSUME ProbeCold PROVE AbstractStep
  BY <1>24, AbstractKeep DEF ProbeCold
<1>25. ASSUME ProbeAlloc PROVE AbstractStep
  BY <1>25, AbstractKeep DEF ProbeAlloc
<1>26. ASSUME ProbeRegister PROVE AbstractStep
  BY <1>26, AbstractKeep DEF ProbeRegister
<1>27. ASSUME RemoveCall PROVE AbstractStep
  BY <1>27, AbstractKeep DEF RemoveCall
<1>28. ASSUME RemoveDeregister PROVE AbstractStep
  BY <1>28, AbstractKeep DEF RemoveDeregister
<1>29. ASSUME RemoveLock PROVE AbstractStep
  BY <1>29, AbstractKeep DEF RemoveLock
<1>30. ASSUME FreePages PROVE AbstractStep
  BY <1>30, AbstractKeep DEF FreePages
<1>31. ASSUME UnmapBar PROVE AbstractStep
  BY <1>31, AbstractKeep DEF UnmapBar, ReleaseResource
<1>32. ASSUME ReleaseRegion PROVE AbstractStep
  BY <1>32, AbstractKeep DEF ReleaseRegion, ReleaseResource
<1>33. ASSUME DisableDevice PROVE AbstractStep
  BY <1>33, AbstractKeep DEF DisableDevice, ReleaseResource
<1>34. ASSUME NEW c \in Clients, ResetGlobal(c) PROVE AbstractStep
  BY <1>34, AbstractOff DEF ResetGlobal
<1>35. ASSUME NEW c \in Clients, GlobalOnly(c) PROVE AbstractStep
  BY <1>35, AbstractOff DEF GlobalOnly
<1>36. ASSUME NEW a \in Actors, TdReset(a) PROVE AbstractStep
  BY <1>36, AbstractOff DEF TdReset
<1>37. ASSUME NEW a \in Actors, TdGlobal(a) PROVE AbstractStep
  BY <1>37, AbstractOff DEF TdGlobal
<1>38. ASSUME NEW a \in Actors, TdCold(a) PROVE AbstractStep
  BY <1>38, AbstractOff DEF TdCold
<1>39. ASSUME NEW c \in Clients, Enable(c) PROVE AbstractStep
  <2>1. dv[c] = bound /\ bound \in Gens /\ bound # 0 /\ ~ started[bound] /\ dsp[c] \in DSPS
    BY <1>t, <1>39, Sole DEF Enable, ActivePCs, StartPCs, Actors, Usage, StartedInv, LoopOK, InitLoop
  <2>2. UNCHANGED <<bound, started, linked>> /\ (linked => dmaCtl' = EnableUpTo(dsp[c]))
    BY <1>39 DEF Enable, WriteDma
  <2>3. linked => dmaCtl = EnableUpTo(dsp[c] - 1)
    BY <1>t, <1>39 DEF Enable, DmaInv, DmaAt, InitLoop, Actors
  <2>4. CASE linked
    <3>1. TState = "stopped" /\ TState' = TState
      BY <2>1, <2>2 DEF TState
    <3>2. Engines = 0 .. dsp[c] - 1 /\ Engines' = 0 .. dsp[c]
      BY <2>1, <2>2, <2>3, <2>4, WordEngines DEF Engines
    <3> QED BY <2>1, <2>2, <2>4, <3>1, <3>2, AsEngine
  <2>5. CASE ~ linked
    BY <2>2, <2>5, AbstractLost
  <2> QED BY <2>4, <2>5
<1>40. ASSUME NEW c \in Clients, Verify(c) PROVE AbstractStep
  <2>1. dv[c] = bound /\ bound \in Gens /\ bound # 0 /\ ~ started[bound]
    BY <1>t, <1>40, Sole DEF Verify, ActivePCs, StartPCs, Actors, Usage, StartedInv
  <2>2. UNCHANGED <<dmaCtl, linked, bound>>
    BY <1>40 DEF Verify
  <2>3. CASE UNCHANGED started
    BY <2>2, <2>3, AbstractKeep
  <2>4. CASE started' # started
    <3>1. linked /\ dmaCtl = ALL_DSPS /\ started'[bound]
      BY <1>t, <1>40, <2>1, <2>4 DEF Verify, RingsPublished, ReadDma, TypeOK, HostTypeOK
    <3>2. TState = "stopped" /\ TState' = "running" /\ Engines = DSPS /\ Engines' = DSPS
      BY <2>1, <2>2, <3>1, WordEngines DEF TState, Engines
    <3> QED BY <2>2, <3>1, <3>2, AsOther
  <2> QED BY <2>3, <2>4
<1>41. ASSUME NEW a \in Actors, TdMaster(a) PROVE AbstractStep
  <2>1. dv[a] = bound /\ bound \in Gens /\ bound # 0
    BY <1>t, <1>41, Sole DEF TdMaster, ActivePCs, TeardownPCs
  <2>2. UNCHANGED <<dmaCtl, linked, bound>>
    BY <1>41 DEF TdMaster
  <2>3. CASE UNCHANGED started
    BY <2>2, <2>3, AbstractKeep
  <2>4. CASE started' # started
    <3>0. started' = [started EXCEPT ![bound] = FALSE] /\ started \in [Gens -> BOOLEAN]
      BY <1>t, <1>41, <2>1, <2>4 DEF TdMaster, TypeOK, HostTypeOK
    <3>1. started[bound] /\ ~ started'[bound]
      BY <2>1, <2>4, <3>0
    <3>2. linked => dmaCtl = COLD_RESET
      BY <1>t, <1>41 DEF TdMaster, DmaInv, DmaAt
    <3>3. Engines = {} /\ Engines' = {}
      BY <2>2, <3>2, WordEngines DEF Engines
    <3>4. TState = "running" /\ TState' = "stopped"
      BY <2>1, <2>2, <3>1 DEF TState
    <3> QED BY <2>2, <3>3, <3>4, AsOther
  <2> QED BY <2>3, <2>4
<1>42. ASSUME NEW c \in Clients, Pulse(c) PROVE AbstractStep
  <2>1. dv[c] = bound /\ bound \in Gens /\ bound # 0 /\ started[bound] /\ dsp[c] \in DSPS
    BY <1>t, <1>42, Sole DEF Pulse, ActivePCs, ResetPCs, Actors, Usage, StartedInv, LoopOK
  <2>2. UNCHANGED <<bound, started, linked>> /\ (linked => dmaCtl' = Pulsed(dsp[c]))
    BY <1>42 DEF Pulse, WriteDma, Pulsed
  <2>3. linked => dmaCtl = ALL_DSPS
    BY <1>t, <1>42 DEF Pulse, DmaInv, DmaAt, Actors
  <2>4. CASE linked
    <3>1. TState = "running" /\ TState' = TState
      BY <2>1, <2>2 DEF TState
    <3>2. Engines = DSPS /\ Engines' = DSPS \ {dsp[c]}
      BY <2>1, <2>2, <2>3, <2>4, WordEngines DEF Engines
    <3> QED BY <2>1, <2>2, <2>4, <3>1, <3>2, AsEngine
  <2>5. CASE ~ linked
    BY <2>2, <2>5, AbstractLost
  <2> QED BY <2>4, <2>5
<1>43. ASSUME NEW c \in Clients, Unpulse(c) PROVE AbstractStep
  <2>1. dv[c] = bound /\ bound \in Gens /\ bound # 0 /\ started[bound] /\ dsp[c] \in DSPS
    BY <1>t, <1>43, Sole DEF Unpulse, ActivePCs, ResetPCs, Actors, Usage, StartedInv, LoopOK
  <2>2. UNCHANGED <<bound, started, linked>> /\ (linked => dmaCtl' = Disabled(dsp[c]))
    BY <1>43 DEF Unpulse, WriteDma, Pulsed
  <2>3. linked => dmaCtl = Pulsed(dsp[c])
    BY <1>t, <1>43 DEF Unpulse, DmaInv, DmaAt, Actors
  <2>4. CASE linked
    <3>1. TState = "running" /\ TState' = TState
      BY <2>1, <2>2 DEF TState
    <3>2. Engines' = Engines
      <4>1. Engines = DSPS \ {dsp[c]}
        BY <2>1, <2>3, <2>4, WordEngines DEF Engines
      <4>2. Engines' = DSPS \ {dsp[c]}
        BY <2>1, <2>2, <2>4, WordEngines DEF Engines
      <4> QED BY <4>1, <4>2
    <3> QED BY <2>1, <2>2, <2>4, <3>1, <3>2, AsStutter
  <2>5. CASE ~ linked
    BY <2>2, <2>5, AbstractLost
  <2> QED BY <2>4, <2>5
<1>44. ASSUME NEW c \in Clients, Reenable(c) PROVE AbstractStep
  <2>1. dv[c] = bound /\ bound \in Gens /\ bound # 0 /\ started[bound] /\ dsp[c] \in DSPS
    BY <1>t, <1>44, Sole DEF Reenable, ActivePCs, ResetPCs, Actors, Usage, StartedInv, LoopOK
  <2>2. UNCHANGED <<bound, started, linked>> /\ (linked => dmaCtl' = ALL_DSPS)
    BY <1>44 DEF Reenable, WriteDma, Pulsed
  <2>3. linked => dmaCtl = Disabled(dsp[c])
    BY <1>t, <1>44 DEF Reenable, DmaInv, DmaAt, Actors
  <2>4. CASE linked
    <3>1. TState = "running" /\ TState' = TState
      BY <2>1, <2>2 DEF TState
    <3>2. Engines = DSPS \ {dsp[c]} /\ Engines' = DSPS
      BY <2>1, <2>2, <2>3, <2>4, WordEngines DEF Engines
    <3> QED BY <2>1, <2>2, <2>4, <3>1, <3>2, AsEngine
  <2>5. CASE ~ linked
    BY <2>2, <2>5, AbstractLost
  <2> QED BY <2>4, <2>5
<1>45. ASSUME ProbeCall PROVE AbstractStep
  <2>1. bound = 0 /\ bound' # 0 /\ bound' \in Gens /\ ~ started[bound']
    BY <1>t, <1>45 DEF ProbeCall, Usage, StartedInv, Gens, TypeOK, HostTypeOK
  <2>2. UNCHANGED <<dmaCtl, linked, started>>
    BY <1>45 DEF ProbeCall
  <2>3. TState = "absent" /\ TState' = "stopped" /\ Engines' = Engines
    BY <2>1, <2>2 DEF TState, Engines
  <2> QED BY <2>2, <2>3, AsOther
<1>46. ASSUME RemoveUnlock PROVE AbstractStep
  BY <1>t, <1>46, AbstractGone DEF RemoveUnlock
<1>47. ASSUME PutDevice PROVE AbstractStep
  BY <1>t, <1>47, AbstractGone DEF PutDevice, KrefPut
<1>48. ASSUME Card PROVE AbstractStep
  <2>1. UNCHANGED <<dmaCtl, bound, started>>
    BY <1>48 DEF Card, CardStep, ReadyFlip, LinkLoss, hostVars
  <2>2. CASE linked' = linked
    BY <2>1, <2>2, AbstractKeep
  <2>3. CASE linked' # linked
    <3>1. linked /\ ~ linked'
      BY <1>48, <2>3 DEF Card, CardStep, ReadyFlip, LinkLoss
    <3>2. TState' = TState /\ Engines' = {}
      BY <2>1, <3>1 DEF TState, Engines
    <3> QED BY <3>1, <3>2, AsOther
  <2> QED BY <2>2, <2>3
<1>49. ASSUME UNCHANGED vars PROVE AbstractStep
  BY <1>49, AbstractKeep DEF vars
<1>a. \A c \in Clients : c \in Actors
  BY DEF Actors
<1>b. Core \in Actors
  BY DEF Actors
<1> HIDE DEF At, Goto, Finish, busVars, devVars, argVars, loopVars, cardVars
<1> QED
  BY <1>1, <1>2, <1>3, <1>4, <1>5, <1>6, <1>7, <1>8, <1>9, <1>10, <1>11, <1>12, <1>13, <1>14,
     <1>15, <1>16, <1>17, <1>18, <1>19, <1>20, <1>21, <1>22, <1>23, <1>24, <1>25, <1>26, <1>27,
     <1>28, <1>29, <1>30, <1>31, <1>32, <1>33, <1>34, <1>35, <1>36, <1>37, <1>38, <1>39, <1>40,
     <1>41, <1>42, <1>43, <1>44, <1>45, <1>46, <1>47, <1>48, <1>49, <1>a, <1>b
     DEF Next, ClientCall, ClientStep, StartStep, TeardownStep, ResetStep, CoreCall, CoreStep

\* The driver implements the abstract transport: every register write and every
\* change of started or of the binding is a step Transport allows, with engines
\* coming up one by one on a stopped transport, all of them on before it runs,
\* and none of them on when it is stopped or given up.
THEOREM TransportRefined == Spec => ImplementsTransport
<1>1. ASSUME Init PROVE Abstract!Init
  <2>1. bound = 0 /\ linked \in BOOLEAN /\ dmaCtl.enable = {}
    BY <1>1 DEF Init, CardInit, COLD_RESET, GLOBAL_ONLY
  <2>2. {d \in DSPS : EngineLive(d)} = {}
    BY <2>1 DEF EngineLive
  <2> QED BY <2>1, <2>2 DEF Abstract!Init
<1>2. IInv /\ TransportInv /\ [Next]_vars => [Abstract!Next]_(Abstract!tvars)
  BY AbstractNext DEF AbstractStep
<1> QED BY <1>1, <1>2, Inductive, TransportInductive, PTL DEF Spec, ImplementsTransport, Abstract!Spec
=============================================================================
