---------------------------- MODULE BenchProofs ----------------------------
(***************************************************************************)
(* TLAPS proofs about Bench, for any number of DSPs, ring pages, ring      *)
(* entries, polls, answer words and processes: what any history of runs of *)
(* the small VFIO tools, killed ones included, leaves in the card and lets *)
(* the next run find, and that the bench implements Experiment.            *)
(*                                                                         *)
(* The tools are instances: each brings a copy of the steps that they      *)
(* share.  The first part says what the steps of each tool are in terms of *)
(* this module's own names; everything else is proved from that.           *)
(***************************************************************************)
EXTENDS Bench, DirectSession, UadCardProofs

----------------------------------------------------------------------------
(* The inductive invariant.                                                *)

Dsp0Tools == {"query", "descriptors"}

\* Where a tool for DSP 0 is: descriptors published, control register on its
\* way to an enabled engine, engine observed, cleanup up to the first cleared
\* word, and the steps of any tool after the last cleared word.
PublishedPCs == {"readback", "resetGlobal"}
EnablingPCs  == {"resetRead", "globalOnly", "globalRead", "enable"} \cup JustEnabled
ObservingPCs == {"postCommand", "poll", "copy", "judge", "zeroRead", "observe"}
RestorePCs   == {"cCold", "cGates", "cGatesRead", "cControls"}
OverPCs      == {"cVfioReset", "cRecovered", "release", "report", "exit",
                 "afterRestore", "reset", "recovered"}
ExitPCs      == {"cClear", "cVfioReset", "cRecovered", "release", "report", "exit", "killed"}
Dsp0PCs == {"idle", "setup", "baseline", "publish", "cleanup"} \cup PublishedPCs
             \cup EnablingPCs \cup ObservingPCs \cup RestorePCs \cup ExitPCs

Mapped  == "dma" \in has
Zero(x) == idx[x] = [bell |-> 0, write |-> 0, read |-> 0]
Low(x)  == idx[x].bell = 0 /\ idx[x].write = 0
Blank   == \A s \in DescSlots : desc[s] = 0
AllZero == \A x \in RingIds : Zero(x)
LowBut(S) == \A x \in RingIds \ S : Low(x)
SetOnly(S) == \A s \in DescSlots : desc[s] # 0 => s \in S

\* No engine runs: experiment 001 leaves the control register as it found it.
Off == dmaCtl = COLD_RESET \/ (In001 /\ dmaCtl # GLOBAL_DSP0)
WholeFive == \A s \in FiveDescriptors : desc[s] # 0
\* Rings whose index words the cleanup of a tool for DSP 0 clears.
Rings == IF tool = "query" THEN {Cmd0, Resp0} ELSE {Cmd0}
Offered == IF "controls" \in modified THEN Rings ELSE {}

\* The flags of the control register, the descriptors and the rings.
WordFlags == {"dma", "descriptors", "controls"}
NoFlag == \A f \in WordFlags : f \notin modified

CardTypes ==
  /\ dmaCtl \in {COLD_RESET, RESET_GLOBAL, GLOBAL_ONLY, GLOBAL_DSP0}
  /\ desc \in [DescSlots -> 0 .. MaxGen] /\ IdxOK
TypeInv ==
  /\ CardTypes
  /\ run \in 0 .. MaxGen /\ (pc # "idle" => run # 0)
  /\ toWrite \in SUBSET DescSlots /\ toClear \in SUBSET RingIds
  /\ tool \in Dsp0Tools \cup {"official", "control", "recovery", "reader"}
  /\ pc = "idle" => ~ started

\* What every tool leaves: an enabled engine has the five descriptors it was
\* enabled over, whoever comes next; and after the last cleared word no engine
\* runs, no descriptor is set and no index.
CardInv ==
  linked =>
    /\ dmaCtl = GLOBAL_DSP0 => WholeFive
    /\ started /\ pc \in OverPCs => Off /\ Blank /\ LowBut({})

\* Where a tool for DSP 0 is, what it holds and what its flags say.
Dsp0Stage ==
  tool \in Dsp0Tools =>
    /\ pc \in Dsp0PCs
    /\ pc = "copy" => n \in Words
    /\ pc \notin {"copy", "killed"} => n \in 1 .. 7
    /\ pc \in {"setup", "baseline"} => ~ started
    /\ pc \in {"setup", "baseline", "publish"} => NoFlag
    /\ pc = "publish" => /\ toWrite \subseteq FiveDescriptors
                         /\ ~ started => toWrite = FiveDescriptors
    /\ pc \in PublishedPCs \cup EnablingPCs \cup ObservingPCs =>
         started /\ "descriptors" \in modified
    /\ pc \in {"cleanup"} \cup RestorePCs =>
         IF started THEN "descriptors" \in modified ELSE NoFlag
    /\ pc \notin {"publish", "cClear", "killed"} => toWrite = {} /\ toClear = {}
    /\ pc = "cClear" /\ ~ started => toWrite = {} /\ toClear = {}
    /\ pc = "publish" => toClear = {}
    /\ pc = "setup" /\ n > 5 => Mapped
    /\ pc \in {"baseline", "publish"} \cup PublishedPCs \cup (EnablingPCs \ JustEnabled) => Mapped
    /\ In001 => "dma" \notin modified /\ pc \notin EnablingPCs \cup {"resetGlobal"}
    /\ pc = "report" => ~ Mapped

\* What a tool for DSP 0 has done to an answering card.
Dsp0Card ==
  tool \in Dsp0Tools /\ linked =>
    /\ pc = "publish" => /\ Off /\ AllZero
                         /\ \A s \in DescSlots : desc[s] # 0 <=> s \in FiveDescriptors \ toWrite
    /\ pc \in PublishedPCs => Off
    /\ pc \in PublishedPCs \cup EnablingPCs => AllZero
    /\ pc \in PublishedPCs \cup EnablingPCs \cup ObservingPCs => WholeFive
    /\ started /\ pc \in PublishedPCs \cup EnablingPCs \cup ObservingPCs
                          \cup RestorePCs \cup {"cleanup"} =>
         /\ SetOnly(FiveDescriptors) /\ LowBut(Offered)
         /\ "dma" \in modified \/ Off
    /\ started /\ pc \in RestorePCs => Off
    /\ started /\ pc = "cClear" => Off /\ LowBut(toClear) /\ SetOnly(toWrite)

Dsp0Words == {s \in DescSlots : s[1] = 0}
InitPCs == {"ringIndex", "ringDesc", "enable", "observe"}
OfficialPCs == {"setup", "baseline", "indexes", "cleanup", "cClear", "cVfioReset",
                "cRecovered", "release", "exit", "killed"} \cup InitPCs

\* The official ring initializer never leaves the cold state.
OfficialInv ==
  tool = "official" =>
    /\ pc \in OfficialPCs /\ (pc # "killed" => n \in 1 .. 7)
    /\ indexes = [r \in RINGS |-> 0] /\ dsp = 0 /\ ring \in RINGS
    /\ pc \in {"setup", "baseline", "indexes"} => ~ started
    /\ pc \in InitPCs => started
    /\ ~ started => toWrite = {} /\ toClear = {}
    /\ toWrite \subseteq Dsp0Words
    /\ linked =>
         /\ pc = "indexes" => Blank /\ AllZero
         /\ pc \in {"indexes"} \cup InitPCs \/ (started /\ pc \in {"cleanup", "cClear"}) =>
              dmaCtl = COLD_RESET /\ LowBut({})
         /\ pc \in InitPCs \/ (started /\ pc = "cleanup") => SetOnly(Dsp0Words)
         /\ started /\ pc = "cClear" => SetOnly(toWrite)

WrittenPCs == {"afterWrite", "afterWait", "writeZero"}
ControlPCs == {"setup", "baseline", "writeOne", "afterRestore", "reset", "recovered",
               "release", "exit", "killed"} \cup WrittenPCs
OtherWord == IF target = "bell" THEN idx[Cmd0].write = 0 ELSE idx[Cmd0].bell = 0

\* The ring control tool sets one index word and clears it.
ControlInv ==
  tool = "control" =>
    /\ pc \in ControlPCs /\ (pc # "killed" => n \in 1 .. 5) /\ target \in {"bell", "write"}
    /\ pc \in {"setup", "baseline", "writeOne"} => ~ started
    /\ pc \in WrittenPCs \cup {"afterRestore", "reset", "recovered"} => started
    /\ linked =>
         /\ pc \in {"writeOne"} \cup WrittenPCs =>
              dmaCtl = COLD_RESET /\ Blank /\ LowBut({Cmd0}) /\ OtherWord
         /\ pc = "writeOne" => LowBut({})

\* The other tools write no register.
ReaderInv ==
  tool \in {"recovery", "reader"} =>
    /\ ~ started /\ (pc # "killed" => n \in 1 .. 5)
    /\ tool = "recovery" =>
         pc \in {"setup", "baseline", "reset", "recovery", "release", "exit", "killed"}
    /\ tool = "reader" =>
         /\ pc \in {"setup", "read", "canary", "unmap", "release", "exit", "killed"}
         /\ kind = "map" /\ pc \notin {"setup", "killed"} => n \in 1 .. 4

Full == \A w \in Words : buf[w] # "canary"
Answered == cmdDone /\ respDone
WordKinds == {"canary", "expected", "other"}

\* The positions of the last poll say that the answer is complete: the card
\* moves the response index once, after the last word.
AnswerInv ==
  tool = "query" =>
    /\ buf \in [Words -> WordKinds] /\ resp \in [Words -> WordKinds]
    /\ pc \in {"postCommand", "poll"} /\ linked =>
         /\ idx[Resp0].bell = 1
         /\ idx[Resp0].read = 0 \/ (idx[Resp0].read = 1 /\ Full)
    /\ pc \in {"setup", "baseline", "publish", "postCommand", "poll"} \cup PublishedPCs
               \cup EnablingPCs => ~ Answered
    /\ pc \in {"copy", "judge"} /\ Answered => poll < Polls /\ Full
    /\ pc = "copy" /\ Answered => \A w \in 1 .. n - 1 : resp[w] = buf[w]
    /\ pc = "judge" /\ Answered => resp = buf
    /\ success => /\ pc \in {"cleanup"} \cup RestorePCs \cup ExitPCs
                  /\ poll < Polls /\ resp = buf /\ Full

BenchInv ==
  /\ TypeInv /\ CardInv /\ Dsp0Stage /\ Dsp0Card
  /\ OfficialInv /\ ControlInv /\ ReaderInv /\ AnswerInv

----------------------------------------------------------------------------
(* The steps of the tools, as far as the invariant and the refinement tell *)
(* them apart.                                                             *)

Order7 == <<"container", "group", "set", "memory", "dma", "device", "bar">>
Undo7  == <<"bar", "device", "dma", "memory", "set", "group", "container">>
Order5 == <<"container", "group", "set", "device", "bar">>
MapOrder == <<"container", "group", "set", "memory", "dma">>
MapUndo  == <<"memory", "set", "group", "container">>

WordsKept == UNCHANGED <<dmaCtl, desc, idx, linked>>
LoopsKept == UNCHANGED <<toWrite, toClear>>
MapKept   == Mapped' <=> Mapped
FlagsKept == \A f \in WordFlags : f \in modified' <=> f \in modified

\* One stage of the setup of a tool that maps pages.
OpenStep ==
  /\ pc = "setup" /\ WordsKept /\ LoopsKept /\ FlagsKept
  /\ UNCHANGED <<started, modified>>
  /\ \/ pc' = "setup" /\ n # 7 /\ n' = n + 1 /\ (Mapped' <=> Mapped \/ n = 5)
     \/ pc' = "baseline" /\ n = 7 /\ n' = 1 /\ MapKept
     \/ pc' = "cleanup" /\ n' = 1 /\ MapKept

\* One stage of the release, in k stages.
CloseStep(k, last) ==
  /\ pc = "release" /\ LoopsKept /\ UNCHANGED <<started, modified>>
  /\ \/ WordsKept /\ (MapKept \/ ~ Mapped')
     \/ KernelCloses /\ MapKept /\ n # k
  /\ \/ pc' = "release" /\ n # k /\ n' = n + 1
     \/ pc' = last /\ n = k /\ n' = 1 /\ ~ Mapped'

\* VFIO_DEVICE_RESET and the test after it.
ResetStep ==
  /\ LoopsKept /\ MapKept /\ UNCHANGED <<started, modified, n>>
  /\ \/ pc = "cVfioReset" /\ pc' = "cRecovered" /\ KernelCloses
     \/ pc \in {"cVfioReset", "cRecovered"} /\ pc' = "release" /\ WordsKept

\* The process is gone, killed or by die(), and the kernel may reset the card.
GoneStep(last) ==
  /\ pc \notin Stopped /\ pc' = last /\ ~ Mapped' /\ LoopsKept
  /\ UNCHANGED <<started, modified>> /\ (last = "exit" => n' = 1)
  /\ KernelCloses \/ WordsKept

\* The card moves the hardware index of a ring with entries in it.
AdvanceStep ==
  /\ UNCHANGED <<dmaCtl, desc, linked, pc, n, has, started, modified>> /\ LoopsKept
  /\ \E x \in RingIds : /\ EngineLive(x[1]) /\ idx[x].read # idx[x].bell
                        /\ idx' = [idx EXCEPT ![x].read = (@ + 1) % Entries]

\* The card changes a ready word or is lost, or nothing seen here happens.
IdleStep ==
  /\ UNCHANGED <<dmaCtl, desc, idx, pc, n, has, started, modified>> /\ LoopsKept
  /\ linked' => linked

\* A tool for DSP 0 goes on without a word written.
LookStep ==
  /\ WordsKept /\ LoopsKept /\ MapKept /\ FlagsKept /\ UNCHANGED started
  /\ \/ n' = n /\ (pc = "copy" <=> pc' = "copy")
     \/ n' = 1 /\ pc \in {"poll", "copy"}
     \/ pc = "copy" /\ pc' = "copy" /\ n # RespWords /\ n' = n + 1
  /\ \/ pc = "baseline" /\ pc' = "cleanup"
     \/ pc = "readback" /\ pc' = "cleanup"
     \/ pc = "readback" /\ pc' = (IF In001 THEN "observe" ELSE "resetGlobal")
     \/ pc = "resetRead" /\ pc' \in {"globalOnly", "cleanup"}
     \/ pc = "globalRead" /\ pc' \in {"enable", "cleanup"}
     \/ pc = "enableRead" /\ pc' \in {"gates", "postResponse", "observe", "zeroControls",
                                      "oneEntry", "cleanup"}
     \/ pc = "gates" /\ pc' = "gatesRead"
     \/ pc = "gatesRead" /\ pc' \in {"postResponse", "cleanup"}
     \/ pc = "poll" /\ pc' \in {"poll", "copy"}
     \/ pc = "copy" /\ pc' \in {"copy", "judge"}
     \/ pc = "zeroRead" /\ pc' \in {"observe", "cleanup"}
     \/ pc \in {"judge", "observe"} /\ pc' = "cleanup"
     \/ pc = "cCold" /\ pc' \in {"cGates", "cControls"}
     \/ pc = "cGates" /\ pc' \in {"cGatesRead", "cControls"}
     \/ pc = "cGatesRead" /\ pc' = "cControls"
     \/ pc = "report" /\ pc' = "exit"

\* The baseline test passes.
FoundStep ==
  /\ pc = "baseline" /\ pc' = "publish" /\ AllRingWordsZero
  /\ ~ In001 => dmaCtl = COLD_RESET
  /\ toWrite' = FiveDescriptors
  /\ WordsKept /\ UNCHANGED <<toClear, n, has, started, modified>>

PublishStep ==
  /\ pc = "publish" /\ pc' = "publish" /\ started'
  /\ \E s \in toWrite : WriteDesc(s, run) /\ toWrite' = toWrite \ {s}
  /\ UNCHANGED <<toClear, n, has, modified>>

PublishedStep ==
  /\ pc = "publish" /\ toWrite = {}
  /\ pc' = (IF tool = "query" THEN "resetGlobal" ELSE "readback")
  /\ modified' = modified \cup {"descriptors"}
  /\ WordsKept /\ LoopsKept /\ UNCHANGED <<n, has, started>>

\* A write to the control register on the way to an enabled engine.
ControlStep(from, v, to) ==
  /\ pc = from /\ pc' = to /\ WriteDma(v)
  /\ modified' = modified \cup {"dma"}
  /\ LoopsKept /\ UNCHANGED <<n, has, started>>

\* The index words of ring x; f is the flag that this sets.
IndexStep(from, x, v, f, to) ==
  /\ pc = from /\ pc' = to
  /\ idx' = IF linked THEN [idx EXCEPT ![x].bell = v, ![x].write = v] ELSE idx
  /\ modified' = modified \cup f
  /\ LoopsKept /\ UNCHANGED <<dmaCtl, desc, linked, n, has, started>>

\* The cleanup label: the control register first, when it was written.
ColdStep ==
  /\ pc = "cleanup"
  /\ IF "dma" \in modified THEN pc' = "cCold" /\ WriteDma(COLD_RESET)
                           ELSE pc' \in {"cGates", "cControls"} /\ WordsKept
  /\ LoopsKept /\ UNCHANGED <<n, has, started, modified>>

ClearStep ==
  /\ UNCHANGED <<n, has, started, modified>>
  /\ \/ /\ pc = "cControls" /\ pc' = "cClear" /\ WordsKept
        /\ toClear' = Offered
        /\ toWrite' = (IF "descriptors" \in modified THEN FiveDescriptors ELSE {})
     \/ /\ pc = "cClear" /\ pc' = "cClear" /\ UNCHANGED toWrite
        /\ \E x \in toClear : WriteIndexes(x, 0) /\ toClear' = toClear \ {x}
     \/ /\ pc = "cClear" /\ pc' = "cClear" /\ UNCHANGED toClear
        /\ \E s \in toWrite : WriteDesc(s, 0) /\ toWrite' = toWrite \ {s}
     \/ /\ pc = "cClear" /\ pc' \in {"cVfioReset", "release"} /\ WordsKept
        /\ toClear = {} /\ toWrite = {} /\ LoopsKept

Dsp0Step ==
  /\ UNCHANGED <<tool, mode, run>>
  /\ \/ OpenStep \/ FoundStep \/ LookStep \/ PublishStep \/ PublishedStep
     \/ ControlStep("resetGlobal", RESET_GLOBAL, "resetRead")
     \/ ControlStep("globalOnly", GLOBAL_ONLY, "globalRead")
     \/ ControlStep("enable", GLOBAL_DSP0, "enableRead")
     \/ IndexStep("zeroControls", Cmd0, 0, {}, "zeroRead")
     \/ IndexStep("oneEntry", Cmd0, 1, {"controls"}, "observe")
     \/ tool = "query" /\ IndexStep("postResponse", Resp0, 1, {"controls"}, "postCommand")
     \/ IndexStep("postCommand", Cmd0, 1, {"controls"}, "poll")
     \/ ColdStep \/ ClearStep \/ ResetStep
     \/ tool = "query" /\ CloseStep(7, "report")
     \/ tool = "descriptors" /\ CloseStep(7, "exit")
     \/ GoneStep("killed") \/ AdvanceStep \/ IdleStep

OfficialStep ==
  /\ UNCHANGED <<tool, mode, run, modified>>
  /\ \/ OpenStep /\ UNCHANGED <<indexes, dsp, ring>>
     \/ /\ pc = "baseline" /\ pc' \in {"indexes", "cleanup"}
        /\ pc' = "indexes" => AllRingWordsZero /\ dmaCtl = COLD_RESET
        /\ WordsKept /\ LoopsKept /\ UNCHANGED <<n, has, started, indexes, dsp, ring>>
     \/ /\ pc = "indexes" /\ pc' = "ringIndex" /\ started' /\ toWrite' = Dsp0Words
        /\ indexes' = [r \in RINGS |-> IF ReadIndex(<<0, r>>) < Entries
                                       THEN ReadIndex(<<0, r>>) ELSE 0]
        /\ WordsKept /\ UNCHANGED <<n, has, toClear, dsp, ring>>
     \/ /\ pc = "ringIndex" /\ pc' = "ringDesc" /\ WriteIndexes(<<dsp, ring>>, indexes[ring])
        /\ LoopsKept /\ UNCHANGED <<n, has, started, indexes, dsp, ring>>
     \/ /\ pc = "ringDesc" /\ pc' = "ringDesc"
        /\ \E s \in toWrite : WriteDesc(s, run) /\ toWrite' = toWrite \ {s}
        /\ UNCHANGED <<n, has, toClear, started, indexes, dsp, ring>>
     \/ /\ pc = "ringDesc" /\ pc' \in {"ringIndex", "enable"} /\ ring' = 1 - ring
        /\ WordsKept /\ LoopsKept /\ UNCHANGED <<n, has, started, indexes, dsp>>
     \/ /\ pc \in {"enable", "observe"} /\ pc' \in {"observe", "cleanup"}
        /\ WordsKept /\ LoopsKept /\ UNCHANGED <<n, has, started, indexes, dsp, ring>>
     \/ /\ pc = "cleanup" /\ WordsKept /\ UNCHANGED <<n, has, started, indexes, dsp, ring>>
        /\ IF started THEN /\ pc' = "cClear" /\ toWrite' = Dsp0Words
                           /\ toClear' \in SUBSET RingIds
                      ELSE pc' = "cVfioReset" /\ LoopsKept
     \/ /\ pc = "cClear" /\ pc' = "cClear" /\ UNCHANGED toClear
        /\ \E s \in toWrite : WriteDesc(s, 0) /\ toWrite' = toWrite \ {s}
        /\ UNCHANGED <<n, has, started, indexes, dsp, ring>>
     \/ /\ pc = "cClear" /\ pc' = "cClear" /\ UNCHANGED toWrite
        /\ \E x \in toClear : WriteIndexes(x, 0) /\ toClear' = toClear \ {x}
        /\ UNCHANGED <<n, has, started, indexes, dsp, ring>>
     \/ /\ pc = "cClear" /\ pc' = "cVfioReset" /\ toWrite = {}
        /\ WordsKept /\ LoopsKept /\ UNCHANGED <<n, has, started, indexes, dsp, ring>>
     \/ (ResetStep \/ CloseStep(7, "exit") \/ GoneStep("killed") \/ IdleStep)
          /\ UNCHANGED <<indexes, dsp, ring>>

\* One stage of the setup of a tool without a cleanup label.
DirectOpen(next) ==
  /\ pc = "setup" /\ WordsKept /\ LoopsKept /\ UNCHANGED <<started, modified>>
  /\ \/ pc' = "setup" /\ n # 5 /\ n' = n + 1 /\ MapKept
     \/ pc' = next /\ n = 5 /\ n' = 1 /\ (Mapped => Mapped')

\* A test of such a tool, or a look at the card.
DirectLook(from, to) ==
  /\ pc = from /\ pc' = to /\ WordsKept /\ LoopsKept
  /\ UNCHANGED <<n, has, started, modified>>

TargetStep(from, v, to) ==
  /\ pc = from /\ pc' = to /\ started'
  /\ idx' = IF linked THEN [idx EXCEPT ![Cmd0][target] = v] ELSE idx
  /\ LoopsKept /\ UNCHANGED <<dmaCtl, desc, linked, n, has, modified>>

RingControlStep ==
  /\ UNCHANGED <<tool, mode, run, modified, target>>
  /\ \/ DirectOpen("baseline")
     \/ DirectLook("baseline", "writeOne") /\ AllRingWordsZero /\ dmaCtl = COLD_RESET
     \/ TargetStep("writeOne", 1, "afterWrite")
     \/ DirectLook("afterWrite", "afterWait") \/ DirectLook("afterWait", "writeZero")
     \/ TargetStep("writeZero", 0, "afterRestore")
     \/ DirectLook("afterRestore", "reset") \/ DirectLook("recovered", "release")
     \/ /\ pc = "reset" /\ pc' = "recovered" /\ KernelCloses /\ LoopsKept
        /\ UNCHANGED <<n, has, started, modified>>
     \/ pc \in {"setup", "baseline", "reset"} /\ GoneStep("exit")
     \/ CloseStep(5, "exit") \/ GoneStep("killed") \/ IdleStep

RecoveryStep ==
  /\ UNCHANGED <<tool, mode, run, modified, kind>>
  /\ \/ DirectOpen("baseline") \/ DirectLook("baseline", "reset")
     \/ DirectLook("recovery", "recovery") \/ DirectLook("recovery", "release")
     \/ /\ pc = "reset" /\ pc' = "recovery" /\ KernelCloses /\ LoopsKept
        /\ UNCHANGED <<n, has, started, modified>>
     \/ GoneStep("exit") \/ CloseStep(5, "exit") \/ GoneStep("killed") \/ IdleStep

ReaderStep ==
  /\ UNCHANGED <<tool, mode, run, modified, kind>>
  /\ \/ DirectOpen(IF kind = "map" THEN "canary" ELSE "read")
     \/ kind # "map" /\ DirectLook("read", "release")
     \/ DirectLook("canary", "unmap")
     \/ /\ pc = "unmap" /\ pc' = "release" /\ ~ Mapped' /\ WordsKept /\ LoopsKept
        /\ UNCHANGED <<n, started, modified>>
     \/ GoneStep("exit") \/ CloseStep(IF kind = "map" THEN 4 ELSE 5, "exit")
     \/ GoneStep("killed") \/ IdleStep

----------------------------------------------------------------------------
(* The copies of the shared names that the instances bring.                *)

LEMMA QueryNames ==
  /\ Query!DSPS = DSPS /\ Query!RINGS = RINGS /\ Query!PAGES = PAGES
  /\ Query!HALVES = HALVES /\ Query!RingIds = RingIds /\ Query!DescSlots = DescSlots
  /\ Query!COLD_RESET = COLD_RESET /\ Query!RESET_GLOBAL = RESET_GLOBAL
  /\ Query!GLOBAL_ONLY = GLOBAL_ONLY /\ Query!ALL_ONES = ALL_ONES /\ Query!Stopped = Stopped
  /\ Query!HalfAcquired = HalfAcquired /\ Query!FiveDescriptors = FiveDescriptors
  /\ Query!GLOBAL_DSP0 = GLOBAL_DSP0 /\ Query!Words = Words /\ Query!Canary = Canary
  /\ Query!Cmd0 = Cmd0 /\ Query!Resp0 = Resp0
BY DEF Query!DSPS, DSPS, Query!RINGS, RINGS, Query!PAGES, PAGES, Query!HALVES, HALVES,
       Query!RingIds, RingIds, Query!DescSlots, DescSlots, Query!COLD_RESET, COLD_RESET,
       Query!RESET_GLOBAL, RESET_GLOBAL, Query!GLOBAL_ONLY, GLOBAL_ONLY, Query!ALL_ONES,
       ALL_ONES, Query!Stopped, Stopped, Query!HalfAcquired, HalfAcquired,
       Query!FiveDescriptors, FiveDescriptors, Query!GLOBAL_DSP0, GLOBAL_DSP0, Query!Words,
       Words, Query!Canary, Canary, Query!Cmd0, Cmd0, Query!Resp0, Resp0

LEMMA DescriptorsNames ==
  /\ Descriptors!DSPS = DSPS /\ Descriptors!RINGS = RINGS /\ Descriptors!PAGES = PAGES
  /\ Descriptors!HALVES = HALVES /\ Descriptors!RingIds = RingIds
  /\ Descriptors!DescSlots = DescSlots /\ Descriptors!COLD_RESET = COLD_RESET
  /\ Descriptors!RESET_GLOBAL = RESET_GLOBAL /\ Descriptors!GLOBAL_ONLY = GLOBAL_ONLY
  /\ Descriptors!ALL_ONES = ALL_ONES /\ Descriptors!Stopped = Stopped
  /\ Descriptors!HalfAcquired = HalfAcquired
  /\ Descriptors!FiveDescriptors = FiveDescriptors /\ Descriptors!GLOBAL_DSP0 = GLOBAL_DSP0
  /\ Descriptors!Cmd0 = Cmd0
BY DEF Descriptors!DSPS, DSPS, Descriptors!RINGS, RINGS, Descriptors!PAGES, PAGES,
       Descriptors!HALVES, HALVES, Descriptors!RingIds, RingIds, Descriptors!DescSlots,
       DescSlots, Descriptors!COLD_RESET, COLD_RESET, Descriptors!RESET_GLOBAL, RESET_GLOBAL,
       Descriptors!GLOBAL_ONLY, GLOBAL_ONLY, Descriptors!ALL_ONES, ALL_ONES,
       Descriptors!Stopped, Stopped, Descriptors!HalfAcquired, HalfAcquired,
       Descriptors!FiveDescriptors, FiveDescriptors, Descriptors!GLOBAL_DSP0, GLOBAL_DSP0,
       Descriptors!Cmd0, Cmd0

LEMMA OfficialNames ==
  /\ Official!DSPS = DSPS /\ Official!RINGS = RINGS /\ Official!PAGES = PAGES
  /\ Official!HALVES = HALVES /\ Official!RingIds = RingIds
  /\ Official!DescSlots = DescSlots /\ Official!COLD_RESET = COLD_RESET
  /\ Official!RESET_GLOBAL = RESET_GLOBAL /\ Official!GLOBAL_ONLY = GLOBAL_ONLY
  /\ Official!ALL_ONES = ALL_ONES /\ Official!Stopped = Stopped
  /\ Official!HalfAcquired = HalfAcquired /\ Official!Dsp0Words = Dsp0Words
BY DEF Official!DSPS, DSPS, Official!RINGS, RINGS, Official!PAGES, PAGES, Official!HALVES,
       HALVES, Official!RingIds, RingIds, Official!DescSlots, DescSlots, Official!COLD_RESET,
       COLD_RESET, Official!RESET_GLOBAL, RESET_GLOBAL, Official!GLOBAL_ONLY, GLOBAL_ONLY,
       Official!ALL_ONES, ALL_ONES, Official!Stopped, Stopped, Official!HalfAcquired,
       HalfAcquired, Official!Dsp0Words, Dsp0Words

LEMMA ControlNames ==
  /\ Control!DSPS = DSPS /\ Control!RINGS = RINGS /\ Control!PAGES = PAGES
  /\ Control!HALVES = HALVES /\ Control!RingIds = RingIds /\ Control!DescSlots = DescSlots
  /\ Control!COLD_RESET = COLD_RESET /\ Control!RESET_GLOBAL = RESET_GLOBAL
  /\ Control!GLOBAL_ONLY = GLOBAL_ONLY /\ Control!ALL_ONES = ALL_ONES
  /\ Control!Stopped = Stopped /\ Control!HalfAcquired = HalfAcquired /\ Control!Cmd0 = Cmd0
BY DEF Control!DSPS, DSPS, Control!RINGS, RINGS, Control!PAGES, PAGES, Control!HALVES, HALVES,
       Control!RingIds, RingIds, Control!DescSlots, DescSlots, Control!COLD_RESET, COLD_RESET,
       Control!RESET_GLOBAL, RESET_GLOBAL, Control!GLOBAL_ONLY, GLOBAL_ONLY, Control!ALL_ONES,
       ALL_ONES, Control!Stopped, Stopped, Control!HalfAcquired, HalfAcquired, Control!Cmd0,
       Cmd0

LEMMA RecoveryNames ==
  /\ Recovery!DSPS = DSPS /\ Recovery!RINGS = RINGS /\ Recovery!PAGES = PAGES
  /\ Recovery!HALVES = HALVES /\ Recovery!RingIds = RingIds
  /\ Recovery!DescSlots = DescSlots /\ Recovery!COLD_RESET = COLD_RESET
  /\ Recovery!RESET_GLOBAL = RESET_GLOBAL /\ Recovery!GLOBAL_ONLY = GLOBAL_ONLY
  /\ Recovery!ALL_ONES = ALL_ONES /\ Recovery!Stopped = Stopped
  /\ Recovery!HalfAcquired = HalfAcquired
BY DEF Recovery!DSPS, DSPS, Recovery!RINGS, RINGS, Recovery!PAGES, PAGES, Recovery!HALVES,
       HALVES, Recovery!RingIds, RingIds, Recovery!DescSlots, DescSlots, Recovery!COLD_RESET,
       COLD_RESET, Recovery!RESET_GLOBAL, RESET_GLOBAL, Recovery!GLOBAL_ONLY, GLOBAL_ONLY,
       Recovery!ALL_ONES, ALL_ONES, Recovery!Stopped, Stopped, Recovery!HalfAcquired,
       HalfAcquired

LEMMA ReaderNames ==
  /\ Reader!DSPS = DSPS /\ Reader!RINGS = RINGS /\ Reader!PAGES = PAGES
  /\ Reader!HALVES = HALVES /\ Reader!RingIds = RingIds /\ Reader!DescSlots = DescSlots
  /\ Reader!COLD_RESET = COLD_RESET /\ Reader!RESET_GLOBAL = RESET_GLOBAL
  /\ Reader!GLOBAL_ONLY = GLOBAL_ONLY /\ Reader!ALL_ONES = ALL_ONES
  /\ Reader!Stopped = Stopped /\ Reader!HalfAcquired = HalfAcquired
BY DEF Reader!DSPS, DSPS, Reader!RINGS, RINGS, Reader!PAGES, PAGES, Reader!HALVES, HALVES,
       Reader!RingIds, RingIds, Reader!DescSlots, DescSlots, Reader!COLD_RESET, COLD_RESET,
       Reader!RESET_GLOBAL, RESET_GLOBAL, Reader!GLOBAL_ONLY, GLOBAL_ONLY, Reader!ALL_ONES,
       ALL_ONES, Reader!Stopped, Stopped, Reader!HalfAcquired, HalfAcquired

LEMMA QueryShared ==
  /\ (Query!Launch => Launch)
  /\ (Query!Signal => Signal)
  /\ (Query!Kill => Kill)
  /\ \A o, q : (Query!Acquire("setup", o, q) => Acquire("setup", o, q))
  /\ \A o : (Query!AcquireFails("setup", o) => AcquireFails("setup", o))
  /\ \A o, q : (Query!Release("release", o, q) => Release("release", o, q))
  /\ (Query!VfioReset("release") => VfioReset("release"))
  /\ (Query!VfioRecovered("release") => VfioRecovered("release"))
  /\ (Query!CardStep => CardStep)
  /\ (Query!AllRingWordsZero => AllRingWordsZero)
<1>1. (Query!Launch => Launch)
  BY QueryNames DEF Query!Launch, Launch, Query!cardVars, cardVars, Query!loopVars, loopVars,
         Query!flagVars, flagVars, Query!Goto, Goto
<1>2. (Query!Signal => Signal)
  BY QueryNames DEF Query!Signal, Signal, Query!cardVars, cardVars, Query!loopVars, loopVars,
         Query!flagVars, flagVars, Query!Goto, Goto
<1>3. (Query!Kill => Kill)
  BY QueryNames DEF Query!Kill, Kill, Query!KernelCloses, KernelCloses, Query!FunctionReset, FunctionReset,
         Query!cardVars, cardVars, Query!loopVars, loopVars, Query!flagVars, flagVars,
         Query!Goto, Goto
<1>4. \A o, q : (Query!Acquire("setup", o, q) => Acquire("setup", o, q))
  BY QueryNames DEF Query!Acquire, Acquire, Query!cardVars, cardVars, Query!loopVars, loopVars,
         Query!flagVars, flagVars, Query!Goto, Goto
<1>5. \A o : (Query!AcquireFails("setup", o) => AcquireFails("setup", o))
  BY QueryNames DEF Query!AcquireFails, AcquireFails, Query!cardVars, cardVars, Query!loopVars, loopVars,
         Query!flagVars, flagVars, Query!Goto, Goto
<1>6. \A o, q : (Query!Release("release", o, q) => Release("release", o, q))
  BY QueryNames DEF Query!Release, Release, Query!KernelCloses, KernelCloses, Query!FunctionReset,
         FunctionReset, Query!cardVars, cardVars, Query!loopVars, loopVars, Query!flagVars,
         flagVars, Query!Goto, Goto
<1>7. (Query!VfioReset("release") => VfioReset("release"))
  BY QueryNames DEF Query!VfioReset, VfioReset, Query!KernelCloses, KernelCloses, Query!FunctionReset,
         FunctionReset, Query!cardVars, cardVars, Query!loopVars, loopVars, Query!flagVars,
         flagVars, Query!Goto, Goto
<1>8. (Query!VfioRecovered("release") => VfioRecovered("release"))
  BY QueryNames DEF Query!VfioRecovered, VfioRecovered, Query!AllRingWordsZero, AllRingWordsZero,
         Query!ReadDma, ReadDma, Query!AllDspsReady, AllDspsReady, Query!ReadReady, ReadReady,
         Query!cardVars, cardVars, Query!loopVars, loopVars, Query!flagVars, flagVars,
         Query!Goto, Goto
<1>9. (Query!CardStep => CardStep)
  BY QueryNames DEF Query!CardStep, CardStep, Query!ReadyFlip, ReadyFlip, Query!LinkLoss, LinkLoss
<1>10. (Query!AllRingWordsZero => AllRingWordsZero)
  BY QueryNames DEF Query!AllRingWordsZero, AllRingWordsZero
<1> QED BY <1>1, <1>2, <1>3, <1>4, <1>5, <1>6, <1>7, <1>8, <1>9, <1>10

LEMMA DescriptorsShared ==
  /\ (Descriptors!Launch => Launch)
  /\ (Descriptors!Signal => Signal)
  /\ (Descriptors!Kill => Kill)
  /\ \A o, q : (Descriptors!Acquire("setup", o, q) => Acquire("setup", o, q))
  /\ \A o : (Descriptors!AcquireFails("setup", o) => AcquireFails("setup", o))
  /\ \A o, q : (Descriptors!Release("release", o, q) => Release("release", o, q))
  /\ (Descriptors!VfioReset("release") => VfioReset("release"))
  /\ (Descriptors!VfioRecovered("release") => VfioRecovered("release"))
  /\ (Descriptors!CardStep => CardStep)
  /\ (Descriptors!AllRingWordsZero => AllRingWordsZero)
<1>1. (Descriptors!Launch => Launch)
  BY DescriptorsNames DEF Descriptors!Launch, Launch, Descriptors!cardVars, cardVars, Descriptors!loopVars,
         loopVars, Descriptors!flagVars, flagVars, Descriptors!Goto, Goto
<1>2. (Descriptors!Signal => Signal)
  BY DescriptorsNames DEF Descriptors!Signal, Signal, Descriptors!cardVars, cardVars, Descriptors!loopVars,
         loopVars, Descriptors!flagVars, flagVars, Descriptors!Goto, Goto
<1>3. (Descriptors!Kill => Kill)
  BY DescriptorsNames DEF Descriptors!Kill, Kill, Descriptors!KernelCloses, KernelCloses,
         Descriptors!FunctionReset, FunctionReset, Descriptors!cardVars, cardVars,
         Descriptors!loopVars, loopVars, Descriptors!flagVars, flagVars, Descriptors!Goto, Goto
<1>4. \A o, q : (Descriptors!Acquire("setup", o, q) => Acquire("setup", o, q))
  BY DescriptorsNames DEF Descriptors!Acquire, Acquire, Descriptors!cardVars, cardVars, Descriptors!loopVars,
         loopVars, Descriptors!flagVars, flagVars, Descriptors!Goto, Goto
<1>5. \A o : (Descriptors!AcquireFails("setup", o) => AcquireFails("setup", o))
  BY DescriptorsNames DEF Descriptors!AcquireFails, AcquireFails, Descriptors!cardVars, cardVars,
         Descriptors!loopVars, loopVars, Descriptors!flagVars, flagVars, Descriptors!Goto, Goto
<1>6. \A o, q : (Descriptors!Release("release", o, q) => Release("release", o, q))
  BY DescriptorsNames DEF Descriptors!Release, Release, Descriptors!KernelCloses, KernelCloses,
         Descriptors!FunctionReset, FunctionReset, Descriptors!cardVars, cardVars,
         Descriptors!loopVars, loopVars, Descriptors!flagVars, flagVars, Descriptors!Goto, Goto
<1>7. (Descriptors!VfioReset("release") => VfioReset("release"))
  BY DescriptorsNames DEF Descriptors!VfioReset, VfioReset, Descriptors!KernelCloses, KernelCloses,
         Descriptors!FunctionReset, FunctionReset, Descriptors!cardVars, cardVars,
         Descriptors!loopVars, loopVars, Descriptors!flagVars, flagVars, Descriptors!Goto, Goto
<1>8. (Descriptors!VfioRecovered("release") => VfioRecovered("release"))
  BY DescriptorsNames DEF Descriptors!VfioRecovered, VfioRecovered, Descriptors!AllRingWordsZero,
         AllRingWordsZero, Descriptors!ReadDma, ReadDma, Descriptors!AllDspsReady, AllDspsReady,
         Descriptors!ReadReady, ReadReady, Descriptors!cardVars, cardVars, Descriptors!loopVars,
         loopVars, Descriptors!flagVars, flagVars, Descriptors!Goto, Goto
<1>9. (Descriptors!CardStep => CardStep)
  BY DescriptorsNames DEF Descriptors!CardStep, CardStep, Descriptors!ReadyFlip, ReadyFlip, Descriptors!LinkLoss,
         LinkLoss
<1>10. (Descriptors!AllRingWordsZero => AllRingWordsZero)
  BY DescriptorsNames DEF Descriptors!AllRingWordsZero, AllRingWordsZero
<1> QED BY <1>1, <1>2, <1>3, <1>4, <1>5, <1>6, <1>7, <1>8, <1>9, <1>10

LEMMA OfficialShared ==
  /\ (Official!Launch => Launch)
  /\ (Official!Signal => Signal)
  /\ (Official!Kill => Kill)
  /\ \A o, q : (Official!Acquire("setup", o, q) => Acquire("setup", o, q))
  /\ \A o : (Official!AcquireFails("setup", o) => AcquireFails("setup", o))
  /\ \A o, q : (Official!Release("release", o, q) => Release("release", o, q))
  /\ (Official!VfioReset("release") => VfioReset("release"))
  /\ (Official!VfioRecovered("release") => VfioRecovered("release"))
  /\ (Official!CardStep => CardStep)
  /\ (Official!AllRingWordsZero => AllRingWordsZero)
<1>1. (Official!Launch => Launch)
  BY OfficialNames DEF Official!Launch, Launch, Official!cardVars, cardVars, Official!loopVars, loopVars,
         Official!flagVars, flagVars, Official!Goto, Goto
<1>2. (Official!Signal => Signal)
  BY OfficialNames DEF Official!Signal, Signal, Official!cardVars, cardVars, Official!loopVars, loopVars,
         Official!flagVars, flagVars, Official!Goto, Goto
<1>3. (Official!Kill => Kill)
  BY OfficialNames DEF Official!Kill, Kill, Official!KernelCloses, KernelCloses, Official!FunctionReset,
         FunctionReset, Official!cardVars, cardVars, Official!loopVars, loopVars,
         Official!flagVars, flagVars, Official!Goto, Goto
<1>4. \A o, q : (Official!Acquire("setup", o, q) => Acquire("setup", o, q))
  BY OfficialNames DEF Official!Acquire, Acquire, Official!cardVars, cardVars, Official!loopVars, loopVars,
         Official!flagVars, flagVars, Official!Goto, Goto
<1>5. \A o : (Official!AcquireFails("setup", o) => AcquireFails("setup", o))
  BY OfficialNames DEF Official!AcquireFails, AcquireFails, Official!cardVars, cardVars, Official!loopVars,
         loopVars, Official!flagVars, flagVars, Official!Goto, Goto
<1>6. \A o, q : (Official!Release("release", o, q) => Release("release", o, q))
  BY OfficialNames DEF Official!Release, Release, Official!KernelCloses, KernelCloses, Official!FunctionReset,
         FunctionReset, Official!cardVars, cardVars, Official!loopVars, loopVars,
         Official!flagVars, flagVars, Official!Goto, Goto
<1>7. (Official!VfioReset("release") => VfioReset("release"))
  BY OfficialNames DEF Official!VfioReset, VfioReset, Official!KernelCloses, KernelCloses,
         Official!FunctionReset, FunctionReset, Official!cardVars, cardVars, Official!loopVars,
         loopVars, Official!flagVars, flagVars, Official!Goto, Goto
<1>8. (Official!VfioRecovered("release") => VfioRecovered("release"))
  BY OfficialNames DEF Official!VfioRecovered, VfioRecovered, Official!AllRingWordsZero, AllRingWordsZero,
         Official!ReadDma, ReadDma, Official!AllDspsReady, AllDspsReady, Official!ReadReady,
         ReadReady, Official!cardVars, cardVars, Official!loopVars, loopVars, Official!flagVars,
         flagVars, Official!Goto, Goto
<1>9. (Official!CardStep => CardStep)
  BY OfficialNames DEF Official!CardStep, CardStep, Official!ReadyFlip, ReadyFlip, Official!LinkLoss, LinkLoss
<1>10. (Official!AllRingWordsZero => AllRingWordsZero)
  BY OfficialNames DEF Official!AllRingWordsZero, AllRingWordsZero
<1> QED BY <1>1, <1>2, <1>3, <1>4, <1>5, <1>6, <1>7, <1>8, <1>9, <1>10

LEMMA ControlShared ==
  /\ (Control!Launch => Launch)
  /\ (Control!Kill => Kill)
  /\ \A o, q : (Control!Acquire("setup", o, q) => Acquire("setup", o, q))
  /\ \A o, q : (Control!Release("release", o, q) => Release("release", o, q))
  /\ (Control!CardStep => CardStep)
  /\ (Control!AllRingWordsZero => AllRingWordsZero)
  /\ (Control!KernelCloses => KernelCloses)
  /\ \A h : (Control!Die(h) => Die(h))
<1>1. (Control!Launch => Launch)
  BY ControlNames DEF Control!Launch, Launch, Control!cardVars, cardVars, Control!loopVars, loopVars,
         Control!flagVars, flagVars, Control!Goto, Goto
<1>2. (Control!Kill => Kill)
  BY ControlNames DEF Control!Kill, Kill, Control!KernelCloses, KernelCloses, Control!FunctionReset,
         FunctionReset, Control!cardVars, cardVars, Control!loopVars, loopVars,
         Control!flagVars, flagVars, Control!Goto, Goto
<1>3. \A o, q : (Control!Acquire("setup", o, q) => Acquire("setup", o, q))
  BY ControlNames DEF Control!Acquire, Acquire, Control!cardVars, cardVars, Control!loopVars, loopVars,
         Control!flagVars, flagVars, Control!Goto, Goto
<1>4. \A o, q : (Control!Release("release", o, q) => Release("release", o, q))
  BY ControlNames DEF Control!Release, Release, Control!KernelCloses, KernelCloses, Control!FunctionReset,
         FunctionReset, Control!cardVars, cardVars, Control!loopVars, loopVars,
         Control!flagVars, flagVars, Control!Goto, Goto
<1>5. (Control!CardStep => CardStep)
  BY ControlNames DEF Control!CardStep, CardStep, Control!ReadyFlip, ReadyFlip, Control!LinkLoss, LinkLoss
<1>6. (Control!AllRingWordsZero => AllRingWordsZero)
  BY ControlNames DEF Control!AllRingWordsZero, AllRingWordsZero
<1>7. (Control!KernelCloses => KernelCloses)
  BY ControlNames DEF Control!KernelCloses, KernelCloses, Control!FunctionReset, FunctionReset,
         Control!cardVars, cardVars
<1>8. \A h : (Control!Die(h) => Die(h))
  BY ControlNames DEF Control!Die, Die, Control!KernelCloses, KernelCloses, Control!FunctionReset,
         FunctionReset, Control!cardVars, cardVars, Control!loopVars, loopVars,
         Control!flagVars, flagVars, Control!Goto, Goto
<1> QED BY <1>1, <1>2, <1>3, <1>4, <1>5, <1>6, <1>7, <1>8

LEMMA RecoveryShared ==
  /\ (Recovery!Launch => Launch)
  /\ (Recovery!Kill => Kill)
  /\ \A o, q : (Recovery!Acquire("setup", o, q) => Acquire("setup", o, q))
  /\ \A o, q : (Recovery!Release("release", o, q) => Release("release", o, q))
  /\ (Recovery!CardStep => CardStep)
  /\ (Recovery!KernelCloses => KernelCloses)
  /\ \A h : (Recovery!Die(h) => Die(h))
<1>1. (Recovery!Launch => Launch)
  BY RecoveryNames DEF Recovery!Launch, Launch, Recovery!cardVars, cardVars, Recovery!loopVars, loopVars,
         Recovery!flagVars, flagVars, Recovery!Goto, Goto
<1>2. (Recovery!Kill => Kill)
  BY RecoveryNames DEF Recovery!Kill, Kill, Recovery!KernelCloses, KernelCloses, Recovery!FunctionReset,
         FunctionReset, Recovery!cardVars, cardVars, Recovery!loopVars, loopVars,
         Recovery!flagVars, flagVars, Recovery!Goto, Goto
<1>3. \A o, q : (Recovery!Acquire("setup", o, q) => Acquire("setup", o, q))
  BY RecoveryNames DEF Recovery!Acquire, Acquire, Recovery!cardVars, cardVars, Recovery!loopVars, loopVars,
         Recovery!flagVars, flagVars, Recovery!Goto, Goto
<1>4. \A o, q : (Recovery!Release("release", o, q) => Release("release", o, q))
  BY RecoveryNames DEF Recovery!Release, Release, Recovery!KernelCloses, KernelCloses, Recovery!FunctionReset,
         FunctionReset, Recovery!cardVars, cardVars, Recovery!loopVars, loopVars,
         Recovery!flagVars, flagVars, Recovery!Goto, Goto
<1>5. (Recovery!CardStep => CardStep)
  BY RecoveryNames DEF Recovery!CardStep, CardStep, Recovery!ReadyFlip, ReadyFlip, Recovery!LinkLoss, LinkLoss
<1>6. (Recovery!KernelCloses => KernelCloses)
  BY RecoveryNames DEF Recovery!KernelCloses, KernelCloses, Recovery!FunctionReset, FunctionReset,
         Recovery!cardVars, cardVars
<1>7. \A h : (Recovery!Die(h) => Die(h))
  BY RecoveryNames DEF Recovery!Die, Die, Recovery!KernelCloses, KernelCloses, Recovery!FunctionReset,
         FunctionReset, Recovery!cardVars, cardVars, Recovery!loopVars, loopVars,
         Recovery!flagVars, flagVars, Recovery!Goto, Goto
<1> QED BY <1>1, <1>2, <1>3, <1>4, <1>5, <1>6, <1>7

LEMMA ReaderShared ==
  /\ (Reader!Launch => Launch)
  /\ (Reader!Kill => Kill)
  /\ \A o, q : (Reader!Acquire("setup", o, q) => Acquire("setup", o, q))
  /\ \A o, q : (Reader!Release("release", o, q) => Release("release", o, q))
  /\ (Reader!CardStep => CardStep)
  /\ \A h : (Reader!Die(h) => Die(h))
<1>1. (Reader!Launch => Launch)
  BY ReaderNames DEF Reader!Launch, Launch, Reader!cardVars, cardVars, Reader!loopVars, loopVars,
         Reader!flagVars, flagVars, Reader!Goto, Goto
<1>2. (Reader!Kill => Kill)
  BY ReaderNames DEF Reader!Kill, Kill, Reader!KernelCloses, KernelCloses, Reader!FunctionReset,
         FunctionReset, Reader!cardVars, cardVars, Reader!loopVars, loopVars, Reader!flagVars,
         flagVars, Reader!Goto, Goto
<1>3. \A o, q : (Reader!Acquire("setup", o, q) => Acquire("setup", o, q))
  BY ReaderNames DEF Reader!Acquire, Acquire, Reader!cardVars, cardVars, Reader!loopVars, loopVars,
         Reader!flagVars, flagVars, Reader!Goto, Goto
<1>4. \A o, q : (Reader!Release("release", o, q) => Release("release", o, q))
  BY ReaderNames DEF Reader!Release, Release, Reader!KernelCloses, KernelCloses, Reader!FunctionReset,
         FunctionReset, Reader!cardVars, cardVars, Reader!loopVars, loopVars, Reader!flagVars,
         flagVars, Reader!Goto, Goto
<1>5. (Reader!CardStep => CardStep)
  BY ReaderNames DEF Reader!CardStep, CardStep, Reader!ReadyFlip, ReadyFlip, Reader!LinkLoss, LinkLoss
<1>6. \A h : (Reader!Die(h) => Die(h))
  BY ReaderNames DEF Reader!Die, Die, Reader!KernelCloses, KernelCloses, Reader!FunctionReset,
         FunctionReset, Reader!cardVars, cardVars, Reader!loopVars, loopVars, Reader!flagVars,
         flagVars, Reader!Goto, Goto
<1> QED BY <1>1, <1>2, <1>3, <1>4, <1>5, <1>6

----------------------------------------------------------------------------
(* The shared steps in these terms.                                        *)

LEMMA Acquired ==
  ASSUME pc = "setup" => n \in 1 .. 7,
         Acquire("setup", Order7, "baseline") \/ AcquireFails("setup", Order7),
         UNCHANGED modified
  PROVE  OpenStep
<1>0. /\ pc = "setup" /\ n \in 1 .. 7
      /\ WordsKept /\ LoopsKept /\ UNCHANGED <<started, modified>>
  BY DEF Acquire, AcquireFails, WordsKept, LoopsKept, cardVars, loopVars, flagVars
<1>1. FlagsKept
  BY <1>0 DEF FlagsKept
<1>2. Len(Order7) = 7 /\ (Order7[n] = "dma" <=> n = 5)
  BY <1>0 DEF Order7
<1>3. CASE Acquire("setup", Order7, "baseline")
  <2>1. Mapped' <=> Mapped \/ n = 5
    BY <1>2, <1>3 DEF Acquire, Mapped
  <2>2. \/ pc' = "setup" /\ n # 7 /\ n' = n + 1
        \/ pc' = "baseline" /\ n = 7 /\ n' = 1
    BY <1>2, <1>3, <1>0 DEF Acquire, Goto
  <2> QED BY <1>0, <1>1, <2>1, <2>2 DEF OpenStep, MapKept
<1>4. CASE AcquireFails("setup", Order7)
  <2>1. MapKept
    BY <1>4 DEF AcquireFails, MapKept, Mapped, HalfAcquired
  <2>2. pc' = "cleanup" /\ n' = 1
    BY <1>4 DEF AcquireFails, Goto
  <2> QED BY <1>0, <1>1, <2>1, <2>2 DEF OpenStep
<1> QED BY <1>3, <1>4

\* order has k stages; the container is the last and the device another.
LEMMA Released ==
  ASSUME NEW k \in Nat, NEW order, NEW last, pc = "release" => n \in 1 .. k,
         Len(order) = k, order[k] = "container",
         Release("release", order, last), UNCHANGED modified
  PROVE  CloseStep(k, last)
<1>0. /\ pc = "release" /\ n \in 1 .. k
      /\ LoopsKept /\ UNCHANGED <<started, modified>>
  BY DEF Release, LoopsKept, loopVars
<1>1. CASE order[n] = "device" /\ "device" \in has
  <2>1. MapKept /\ KernelCloses
    BY <1>1 DEF Release, MapKept, Mapped
  <2>2. n # k
    BY <1>1
  <2>3. pc' = "release" /\ n' = n + 1
    BY <1>0, <2>2 DEF Release
  <2> QED BY <1>0, <2>1, <2>2, <2>3 DEF CloseStep
<1>2. CASE ~ (order[n] = "device" /\ "device" \in has)
  <2>1. WordsKept
    BY <1>2 DEF Release, WordsKept, cardVars
  <2>2. MapKept \/ ~ Mapped'
    BY DEF Release, MapKept, Mapped
  <2>3. \/ pc' = "release" /\ n # k /\ n' = n + 1
        \/ pc' = last /\ n = k /\ n' = 1
    BY <1>0 DEF Release, Goto
  <2>4. n = k => ~ Mapped'
    BY DEF Release, Mapped
  <2> QED BY <1>0, <2>1, <2>2, <2>3, <2>4 DEF CloseStep
<1> QED BY <1>1, <1>2

LEMMA Orders ==
  /\ Len(Undo7) = 7 /\ Undo7[7] = "container"
  /\ Len(DirectRelease) = 5 /\ DirectRelease[5] = "container"
  /\ Len(MapUndo) = 4 /\ MapUndo[4] = "container"
BY DEF Undo7, DirectRelease, MapUndo

LEMMA Reset ==
  ASSUME VfioReset("release") \/ VfioRecovered("release"), UNCHANGED modified PROVE ResetStep
<1>1. LoopsKept /\ UNCHANGED <<started, modified, n, has>>
  BY DEF VfioReset, VfioRecovered, LoopsKept, loopVars
<1>2. MapKept
  BY <1>1 DEF MapKept, Mapped
<1>3. \/ pc = "cVfioReset" /\ pc' = "cRecovered" /\ KernelCloses
      \/ pc \in {"cVfioReset", "cRecovered"} /\ pc' = "release" /\ WordsKept
  BY DEF VfioReset, VfioRecovered, WordsKept, cardVars, Goto
<1> QED BY <1>1, <1>2, <1>3 DEF ResetStep

LEMMA Gone ==
  ASSUME Kill, UNCHANGED modified PROVE GoneStep("killed")
<1>1. /\ pc \notin Stopped /\ pc' = "killed" /\ ~ Mapped' /\ LoopsKept
      /\ UNCHANGED <<started, modified>>
  BY DEF Kill, Goto, Mapped, LoopsKept, loopVars, flagVars
<1>2. KernelCloses \/ WordsKept
  BY DEF Kill, WordsKept, cardVars
<1> QED BY <1>1, <1>2 DEF GoneStep

LEMMA Died ==
  ASSUME NEW h, pc \notin Stopped, Die(h), UNCHANGED modified PROVE GoneStep("exit")
<1>1. /\ pc' = "exit" /\ ~ Mapped' /\ LoopsKept /\ n' = 1
      /\ UNCHANGED <<started, modified>>
  BY DEF Die, Goto, Mapped, LoopsKept, loopVars
<1>2. KernelCloses \/ WordsKept
  BY DEF Die, WordsKept, cardVars
<1> QED BY <1>1, <1>2 DEF GoneStep

LEMMA Idle ==
  ASSUME Signal \/ (CardStep /\ UNCHANGED sessionVars), UNCHANGED modified PROVE IdleStep
BY DEF Signal, CardStep, ReadyFlip, LinkLoss, sessionVars, cardVars, loopVars, IdleStep, LoopsKept

----------------------------------------------------------------------------
(* The steps of each tool.                                                 *)

LEMMA QuerySteps ==
  ASSUME Query!Main \/ Query!Environment, UNCHANGED <<NotOfQuery, tool>>, tool = "query",
         Dsp0Stage
  PROVE  Dsp0Step
<1> USE QueryNames, QueryShared
<1>0. /\ UNCHANGED <<tool, mode>> /\ ~ In001
      /\ (pc \in {"setup", "release"} => n \in 1 .. 7) /\ (pc = "copy" => n \in Words)
  BY DEF Dsp0Stage, NotOfQuery, In001, Dsp0Tools
<1>1. ASSUME Query!Setup PROVE Dsp0Step
  <2>1. OpenStep
    BY <1>0, <1>1, Acquired
       DEF Query!Setup, Query!SetupOrder, Order7, Query!toolVars, Query!exchangeVars
  <2>2. UNCHANGED run
    BY <1>1 DEF Query!Setup, Query!Acquire, Query!AcquireFails
  <2> QED BY <1>0, <2>1, <2>2 DEF Dsp0Step
<1>2. ASSUME Query!Baseline PROVE Dsp0Step
  <2>1. /\ pc = "baseline" /\ WordsKept /\ UNCHANGED <<run, n, toClear, has, started, modified>>
    BY <1>2 DEF Query!Baseline, WordsKept, Query!cardVars, Query!flagVars, Query!toolVars
  <2>2. CASE Query!ColdBaseline
    <3>1. pc' = "publish" /\ toWrite' = FiveDescriptors
      BY <1>2, <2>2 DEF Query!Baseline, Query!Goto
    <3>2. AllRingWordsZero /\ dmaCtl = COLD_RESET
      BY <2>2 DEF Query!ColdBaseline, Query!ReadDma
    <3> QED BY <1>0, <2>1, <3>1, <3>2 DEF Dsp0Step, FoundStep
  <2>3. CASE ~ Query!ColdBaseline
    <3>1. pc' = "cleanup" /\ UNCHANGED toWrite
      BY <1>2, <2>3 DEF Query!Baseline, Query!Goto
    <3> QED BY <1>0, <2>1, <3>1 DEF Dsp0Step, LookStep, LoopsKept, MapKept, Mapped, FlagsKept
  <2> QED BY <2>2, <2>3
<1>3. ASSUME Query!Publish PROVE Dsp0Step
  <2>1. CASE Query!PublishWord
    <3>1. /\ pc = "publish" /\ pc' = "publish" /\ started'
          /\ UNCHANGED <<run, toClear, n, has, modified>>
      BY <2>1 DEF Query!PublishWord
    <3>2. \E s \in toWrite : WriteDesc(s, run) /\ toWrite' = toWrite \ {s}
      BY <2>1 DEF Query!PublishWord, Query!WriteDesc, WriteDesc
    <3> QED BY <1>0, <3>1, <3>2 DEF Dsp0Step, PublishStep
  <2>2. CASE Query!Published("resetGlobal")
    BY <1>0, <2>2 DEF Query!Published, Query!cardVars, Query!loopVars, Query!flagVars, Query!Goto,
       Dsp0Step, PublishedStep, WordsKept, LoopsKept
  <2> QED BY <1>3, <2>1, <2>2 DEF Query!Publish
<1>4. ASSUME Query!EnableEngine PROVE Dsp0Step
  <2> DEFINE next == IF gates THEN "gates" ELSE "postResponse"
  <2>1. ASSUME NEW p, NEW v, NEW q, Query!WriteControl(p, v, q)
        PROVE  ControlStep(p, v, q) /\ UNCHANGED run
    BY <2>1 DEF Query!WriteControl, ControlStep, Query!WriteDma, WriteDma, Query!Goto,
       Query!loopVars, Query!flagVars, LoopsKept
  <2>2. ASSUME NEW p, NEW v, NEW q, Query!CheckControl(p, v, q)
        PROVE  /\ pc = p /\ pc' \in {q, "cleanup"} /\ WordsKept /\ LoopsKept /\ MapKept /\ FlagsKept
               /\ UNCHANGED <<started, n, run>>
    BY <2>2 DEF Query!CheckControl, Query!Check, Query!Refuse, Query!Goto, Query!cardVars, Query!loopVars,
       Query!flagVars, WordsKept, LoopsKept, MapKept, Mapped, FlagsKept
  <2>3. \/ Query!WriteControl("resetGlobal", RESET_GLOBAL, "resetRead")
        \/ Query!CheckControl("resetRead", RESET_GLOBAL, "globalOnly")
        \/ Query!WriteControl("globalOnly", GLOBAL_ONLY, "globalRead")
        \/ Query!CheckControl("globalRead", GLOBAL_ONLY, "enable")
        \/ Query!WriteControl("enable", GLOBAL_DSP0, "enableRead")
        \/ Query!CheckControl("enableRead", GLOBAL_DSP0, next)
    BY <1>4 DEF Query!EnableEngine, Query!EnableDsp0
  <2>4. CASE Query!WriteControl("resetGlobal", RESET_GLOBAL, "resetRead")
    BY <1>0, <2>1, <2>4 DEF Dsp0Step
  <2>5. CASE Query!CheckControl("resetRead", RESET_GLOBAL, "globalOnly")
    BY <1>0, <2>2, <2>5 DEF Dsp0Step, LookStep
  <2>6. CASE Query!WriteControl("globalOnly", GLOBAL_ONLY, "globalRead")
    BY <1>0, <2>1, <2>6 DEF Dsp0Step
  <2>7. CASE Query!CheckControl("globalRead", GLOBAL_ONLY, "enable")
    BY <1>0, <2>2, <2>7 DEF Dsp0Step, LookStep
  <2>8. CASE Query!WriteControl("enable", GLOBAL_DSP0, "enableRead")
    BY <1>0, <2>1, <2>8 DEF Dsp0Step
  <2>9. CASE Query!CheckControl("enableRead", GLOBAL_DSP0, next)
    <3>1. next \in {"gates", "postResponse"}
      OBVIOUS
    <3> HIDE DEF next
    <3> QED BY <1>0, <2>2, <2>9, <3>1 DEF Dsp0Step, LookStep
  <2> QED BY <2>3, <2>4, <2>5, <2>6, <2>7, <2>8, <2>9
<1>5. ASSUME Query!ArmGates PROVE Dsp0Step
  <2> DEFINE Looks == /\ Query!Check("gatesRead", linked, "postResponse") \/ Query!Refuse("gatesRead")
                      /\ UNCHANGED <<exchangeVars, modified, gates>>
  <2>1. CASE Looks
    BY <1>0, <2>1 DEF Query!Check, Query!Refuse, Query!Goto, Query!cardVars, Query!loopVars, Query!flagVars,
       WordsKept, LoopsKept, MapKept, Mapped, FlagsKept, Dsp0Step, LookStep
  <2>2. CASE ~ Looks
    <3>1. /\ pc = "gates" /\ pc' = "gatesRead" /\ WordsKept /\ LoopsKept
          /\ UNCHANGED <<n, run, has, started>> /\ modified' = modified \cup {"gates"}
      BY <1>5, <2>2 DEF Query!ArmGates, Query!Goto, Query!loopVars, Query!flagVars, WordsKept, LoopsKept,
         Query!exchangeVars, exchangeVars, Query!toolVars
    <3>2. FlagsKept /\ MapKept
      BY <3>1 DEF FlagsKept, WordFlags, MapKept, Mapped
    <3> QED BY <1>0, <3>1, <3>2 DEF Dsp0Step, LookStep
  <2> QED BY <2>1, <2>2
<1>6. ASSUME Query!Submit PROVE Dsp0Step
  <2>1. ASSUME NEW p, NEW x, NEW q, Query!Offer(p, x, q)
        PROVE  IndexStep(p, x, 1, {"controls"}, q) /\ UNCHANGED run
    BY <2>1 DEF Query!Offer, Query!Doorbell, Query!WriteIndexes, IndexStep, Query!Goto,
       Query!loopVars, Query!flagVars, LoopsKept
  <2>2. CASE Query!Offer("postResponse", Resp0, "postCommand")
    BY <1>0, <2>1, <2>2 DEF Dsp0Step
  <2>3. CASE Query!Offer("postCommand", Cmd0, "poll")
    BY <1>0, <2>1, <2>3 DEF Dsp0Step
  <2> QED BY <1>6, <2>2, <2>3 DEF Query!Submit
<1>7. ASSUME Query!Poll PROVE Dsp0Step
  <2>1. /\ pc = "poll" /\ pc' \in {"poll", "copy"} /\ WordsKept /\ LoopsKept
        /\ UNCHANGED <<run, has, started, modified>> /\ (IF pc' = "poll" THEN n' = n ELSE n' = 1)
    BY <1>7 DEF Query!Poll, Query!Goto, Query!cardVars, Query!loopVars, Query!flagVars, WordsKept,
       LoopsKept, Query!toolVars
  <2> QED BY <1>0, <2>1 DEF Dsp0Step, LookStep, MapKept, Mapped, FlagsKept
<1>8. ASSUME Query!ReadBack PROVE Dsp0Step
  <2>1. /\ pc = "copy" /\ WordsKept /\ LoopsKept
        /\ UNCHANGED <<run, has, started, modified>>
        /\ \/ pc' = "judge" /\ n' = 1
           \/ pc' = "copy" /\ n # RespWords /\ n' = n + 1
    BY <1>8 DEF Query!ReadBack, Query!CopyWord, Query!Goto, Query!cardVars, Query!loopVars,
       Query!flagVars, WordsKept, LoopsKept, Query!toolVars
  <2> QED BY <1>0, <2>1 DEF Dsp0Step, LookStep, MapKept, Mapped, FlagsKept
<1>9. ASSUME Query!Judge PROVE Dsp0Step
  <2>1. /\ pc = "judge" /\ pc' = "cleanup" /\ WordsKept /\ LoopsKept
        /\ UNCHANGED <<run, n, has, started, modified>>
    BY <1>9 DEF Query!Judge, Query!JudgeAs, Query!Goto, Query!cardVars, Query!loopVars, WordsKept,
       LoopsKept, Query!toolVars
  <2> QED BY <1>0, <2>1 DEF Dsp0Step, LookStep, MapKept, Mapped, FlagsKept
<1>10. ASSUME Query!Cleanup PROVE Dsp0Step
  <2>1. CASE Query!RestoreControl("cGates")
    <3>1. /\ UNCHANGED <<run, n, has, started, modified>> /\ LoopsKept
          /\ \/ /\ pc = "cleanup"
                /\ IF "dma" \in modified THEN WriteDma(COLD_RESET) /\ pc' = "cCold"
                                         ELSE WordsKept /\ pc' = "cGates"
             \/ pc = "cCold" /\ pc' = "cGates" /\ WordsKept
      BY <2>1 DEF Query!RestoreControl, Query!WriteDma, WriteDma, Query!Goto, Query!cardVars,
         Query!loopVars, Query!flagVars, WordsKept, LoopsKept
    <3> QED BY <1>0, <3>1 DEF Dsp0Step, ColdStep, LookStep, MapKept, Mapped, FlagsKept
  <2>2. CASE Query!RestoreGates
    <3>1. /\ UNCHANGED <<run, n, has, started, modified>> /\ LoopsKept /\ WordsKept
          /\ \/ pc = "cGates" /\ pc' \in {"cGatesRead", "cControls"}
             \/ pc = "cGatesRead" /\ pc' = "cControls"
      BY <2>2 DEF Query!RestoreGates, Query!DisableInterrupts, Query!Goto, Query!cardVars,
         Query!loopVars, Query!flagVars, WordsKept, LoopsKept
    <3> QED BY <1>0, <3>1 DEF Dsp0Step, LookStep, MapKept, Mapped, FlagsKept
  <2>3. CASE Query!ClearEnter("cControls", {Cmd0, Resp0}, FiveDescriptors)
    <3>1. /\ UNCHANGED <<run, n, has, started, modified>> /\ WordsKept
          /\ pc = "cControls" /\ pc' = "cClear" /\ toClear' = Offered
          /\ toWrite' = (IF "descriptors" \in modified THEN FiveDescriptors ELSE {})
      BY <2>3 DEF Query!ClearEnter, Query!Goto, Query!cardVars, Query!flagVars, WordsKept, Offered, Rings
    <3> QED BY <1>0, <3>1 DEF Dsp0Step, ClearStep
  <2>4. CASE Query!ClearWords(FiveDescriptors, "cVfioReset")
    <3>1. /\ UNCHANGED <<run, n, has, started, modified>>
          /\ \/ /\ pc = "cClear" /\ pc' = "cClear" /\ UNCHANGED toWrite
                /\ \E x \in toClear : WriteIndexes(x, 0) /\ toClear' = toClear \ {x}
             \/ /\ pc = "cClear" /\ pc' = "cClear" /\ UNCHANGED toClear
                /\ \E s \in toWrite : WriteDesc(s, 0) /\ toWrite' = toWrite \ {s}
             \/ /\ pc = "cClear" /\ pc' = "cVfioReset" /\ WordsKept
                /\ toClear = {} /\ toWrite = {} /\ LoopsKept
      BY <2>4 DEF Query!ClearWords, Query!ClearControl, Query!ClearDescriptor, Query!ClearDone,
         Query!WriteIndexes, WriteIndexes, Query!WriteDesc, WriteDesc, Query!Goto, Query!cardVars,
         Query!loopVars, Query!flagVars, WordsKept, LoopsKept
    <3> QED BY <1>0, <3>1 DEF Dsp0Step, ClearStep
  <2> QED BY <1>10, <2>1, <2>2, <2>3, <2>4 DEF Query!Cleanup
<1>11. ASSUME Query!DeviceReset PROVE Dsp0Step
  <2>1. ResetStep
    BY <1>11, Reset DEF Query!DeviceReset, Query!toolVars
  <2>2. UNCHANGED run
    BY <1>11 DEF Query!DeviceReset, Query!VfioReset, Query!VfioRecovered
  <2> QED BY <1>0, <2>1, <2>2 DEF Dsp0Step
<1>12. ASSUME Query!ReleaseAll PROVE Dsp0Step
  <2>1. CloseStep(7, "report")
    BY <1>0, <1>12, Released, Orders DEF Query!ReleaseAll, Query!ReleaseOrder, Undo7, Query!toolVars
  <2>2. UNCHANGED run
    BY <1>12 DEF Query!ReleaseAll, Query!Release
  <2> QED BY <1>0, <2>1, <2>2 DEF Dsp0Step
<1>13. ASSUME Query!Report PROVE Dsp0Step
  <2>1. /\ pc = "report" /\ pc' = "exit" /\ WordsKept /\ LoopsKept
        /\ UNCHANGED <<run, n, has, started, modified>>
    BY <1>13 DEF Query!Report, Query!ReportThen, Query!Goto, Query!cardVars, Query!loopVars,
       Query!flagVars, WordsKept, LoopsKept, Query!toolVars
  <2> QED BY <1>0, <2>1 DEF Dsp0Step, LookStep, MapKept, Mapped, FlagsKept
<1>14. ASSUME Query!Disturb, UNCHANGED modified PROVE Dsp0Step
  <2>1. CASE Query!Signal
    <3>1. IdleStep /\ UNCHANGED run
      BY <1>14, <2>1, Idle DEF Query!Signal
    <3> QED BY <1>0, <3>1 DEF Dsp0Step
  <2>2. CASE Query!Kill
    <3>1. GoneStep("killed") /\ UNCHANGED run
      BY <1>14, <2>2, Gone DEF Query!Kill
    <3> QED BY <1>0, <3>1 DEF Dsp0Step
  <2> QED BY <1>14, <2>1, <2>2 DEF Query!Disturb
<1>15. ASSUME Query!CardWork(1), UNCHANGED modified PROVE Dsp0Step
  <2>0. /\ \A d \in DSPS : (Query!Working(d) => EngineLive(d))
        /\ Resp0 \in RingIds /\ Resp0[1] = 0 /\ 0 \in DSPS
        /\ \A d \in DSPS : <<d, 0>> \in RingIds /\ <<d, 0>>[1] = d
    BY CardAssumption DEF Query!Working, Query!EngineLive, EngineLive, Resp0, RingIds, RINGS, DSPS
  <2>1. CASE Query!Consume
    <3>1. UNCHANGED <<dmaCtl, desc, linked, pc, n, has, started, modified, run>> /\ LoopsKept
      BY <1>15, <2>1 DEF Query!Consume, Query!sessionVars, LoopsKept
    <3>2. PICK d \in DSPS : /\ Query!Working(d) /\ idx[<<d, 0>>].read # idx[<<d, 0>>].bell
                            /\ idx' = [idx EXCEPT ![<<d, 0>>].read = (@ + 1) % Entries]
      BY <2>1 DEF Query!Consume, Query!Advance
    <3>3. AdvanceStep
      BY <2>0, <3>1, <3>2 DEF AdvanceStep
    <3> QED BY <1>0, <3>1, <3>3 DEF Dsp0Step
  <2>2. CASE Query!AnswerDone(1)
    <3>1. UNCHANGED <<dmaCtl, desc, linked, pc, n, has, started, modified, run>> /\ LoopsKept
      BY <1>15, <2>2 DEF Query!AnswerDone, Query!sessionVars, LoopsKept
    <3>2. /\ EngineLive(0) /\ idx[Resp0].read # idx[Resp0].bell
          /\ idx' = [idx EXCEPT ![Resp0].read = (@ + 1) % Entries]
      BY <2>0, <2>2 DEF Query!AnswerDone, Query!Answering, Query!Advance
    <3>3. AdvanceStep
      BY <2>0, <3>1, <3>2 DEF AdvanceStep
    <3> QED BY <1>0, <3>1, <3>3 DEF Dsp0Step
  <2>3. CASE Query!AnswerWord(1) \/ Query!StrayWrite
    <3>1. IdleStep /\ UNCHANGED run
      BY <1>15, <2>3 DEF Query!AnswerWord, Query!StrayWrite, Query!cardVars, Query!sessionVars,
         IdleStep, LoopsKept
    <3> QED BY <1>0, <3>1 DEF Dsp0Step
  <2>4. CASE Query!CardStep /\ UNCHANGED <<Query!sessionVars, Query!exchangeVars>>
    <3>1. IdleStep /\ UNCHANGED run
      BY <1>15, <2>4, Idle DEF Query!sessionVars, sessionVars
    <3> QED BY <1>0, <3>1 DEF Dsp0Step
  <2> QED BY <1>15, <2>1, <2>2, <2>3, <2>4 DEF Query!CardWork
<1> QED
  BY <1>1, <1>2, <1>3, <1>4, <1>5, <1>6, <1>7, <1>8, <1>9, <1>10, <1>11, <1>12, <1>13, <1>14, <1>15
  DEF Query!Main, Query!Environment, Query!toolVars

LEMMA DescriptorsSteps ==
  ASSUME Descriptors!Main \/ Descriptors!Environment, UNCHANGED <<NotOfDescriptors, tool>>,
         tool = "descriptors", Dsp0Stage
  PROVE  Dsp0Step
<1> USE DescriptorsNames, DescriptorsShared
<1>0. /\ UNCHANGED tool /\ (In001 <=> mode = "001")
      /\ (pc \in {"setup", "release"} => n \in 1 .. 7)
  BY DEF Dsp0Stage, In001, Dsp0Tools
<1>1. ASSUME Descriptors!Setup PROVE Dsp0Step
  <2>1. OpenStep
    BY <1>0, <1>1, Acquired
       DEF Descriptors!Setup, Descriptors!SetupOrder, Order7, Descriptors!toolVars
  <2>2. UNCHANGED <<run, mode>>
    BY <1>1 DEF Descriptors!Setup, Descriptors!Acquire, Descriptors!AcquireFails, Descriptors!toolVars
  <2> QED BY <1>0, <2>1, <2>2 DEF Dsp0Step
<1>2. ASSUME Descriptors!Baseline PROVE Dsp0Step
  <2>1. /\ pc = "baseline" /\ WordsKept
        /\ UNCHANGED <<run, mode, n, toClear, has, started, modified>>
    BY <1>2 DEF Descriptors!Baseline, WordsKept, Descriptors!cardVars, Descriptors!flagVars, Descriptors!toolVars
  <2>2. CASE Descriptors!Precondition
    <3>1. pc' = "publish" /\ toWrite' = FiveDescriptors
      BY <1>2, <2>2 DEF Descriptors!Baseline, Descriptors!Goto
    <3>2. AllRingWordsZero
      BY <2>2 DEF Descriptors!Precondition
    <3>3. mode # "001" => dmaCtl = COLD_RESET
      BY <2>2, <3>2 DEF Descriptors!Precondition, Descriptors!ReadDma, AllRingWordsZero
    <3> QED BY <1>0, <2>1, <3>1, <3>2, <3>3 DEF Dsp0Step, FoundStep
  <2>3. CASE ~ Descriptors!Precondition
    <3>1. pc' = "cleanup" /\ UNCHANGED toWrite
      BY <1>2, <2>3 DEF Descriptors!Baseline, Descriptors!Goto
    <3> QED BY <1>0, <2>1, <3>1 DEF Dsp0Step, LookStep, LoopsKept, MapKept, Mapped, FlagsKept
  <2> QED BY <2>2, <2>3
<1>3. ASSUME Descriptors!Publish PROVE Dsp0Step
  <2>1. CASE Descriptors!PublishWord
    <3>1. /\ pc = "publish" /\ pc' = "publish" /\ started'
          /\ UNCHANGED <<run, mode, toClear, n, has, modified>>
      BY <1>3, <2>1 DEF Descriptors!Publish, Descriptors!PublishWord
    <3>2. \E s \in toWrite : WriteDesc(s, run) /\ toWrite' = toWrite \ {s}
      BY <2>1 DEF Descriptors!PublishWord, Descriptors!WriteDesc, WriteDesc
    <3> QED BY <1>0, <3>1, <3>2 DEF Dsp0Step, PublishStep
  <2>2. CASE Descriptors!Published("readback")
    BY <1>0, <1>3, <2>2 DEF Descriptors!Publish, Descriptors!Published, Descriptors!cardVars,
       Descriptors!loopVars, Descriptors!flagVars, Descriptors!Goto, Dsp0Step, PublishedStep,
       WordsKept, LoopsKept
  <2> QED BY <1>3, <2>1, <2>2 DEF Descriptors!Publish
<1>q. ASSUME NEW p, NEW ok, NEW q, Descriptors!Check(p, ok, q) \/ Descriptors!Refuse(p),
             UNCHANGED modified
      PROVE  /\ pc = p /\ pc' \in {q, "cleanup"} /\ WordsKept /\ LoopsKept /\ MapKept /\ FlagsKept
             /\ UNCHANGED <<started, n, run>>
  BY <1>q DEF Descriptors!Check, Descriptors!Refuse, Descriptors!Goto, Descriptors!cardVars, Descriptors!loopVars,
     Descriptors!flagVars, WordsKept, LoopsKept, MapKept, Mapped, FlagsKept
<1>4. ASSUME Descriptors!Readback PROVE Dsp0Step
  <2> DEFINE next == IF mode = "001" THEN "observe" ELSE "resetGlobal"
             ok == Descriptors!RingState({})
  <2>1. /\ Descriptors!Check("readback", ok, next) \/ Descriptors!Refuse("readback")
        /\ UNCHANGED <<modified, mode>>
    BY <1>4 DEF Descriptors!Readback, Descriptors!toolVars
  <2> HIDE DEF ok
  <2>2. /\ pc = "readback" /\ pc' \in {next, "cleanup"} /\ WordsKept /\ LoopsKept /\ MapKept
        /\ FlagsKept /\ UNCHANGED <<started, n, run>>
    BY <1>q, <2>1
  <2> QED BY <1>0, <2>1, <2>2 DEF Dsp0Step, LookStep
<1>5. ASSUME Descriptors!EnableEngine PROVE Dsp0Step
  <2> DEFINE next == CASE mode = "002" -> "observe"
                       [] mode = "007" -> "zeroControls"
                       [] OTHER -> "oneEntry"
  <2>0. UNCHANGED mode
    BY <1>5 DEF Descriptors!EnableEngine
  <2>1. ASSUME NEW p, NEW v, NEW q, Descriptors!WriteControl(p, v, q)
        PROVE  ControlStep(p, v, q) /\ UNCHANGED run
    BY <2>1 DEF Descriptors!WriteControl, ControlStep, Descriptors!WriteDma, WriteDma,
       Descriptors!Goto, Descriptors!loopVars, Descriptors!flagVars, LoopsKept
  <2>2. ASSUME NEW p, NEW v, NEW q, Descriptors!CheckControl(p, v, q)
        PROVE  /\ pc = p /\ pc' \in {q, "cleanup"} /\ WordsKept /\ LoopsKept /\ MapKept /\ FlagsKept
               /\ UNCHANGED <<started, n, run>>
    BY <2>2, <1>q DEF Descriptors!CheckControl
  <2>3. \/ Descriptors!WriteControl("resetGlobal", RESET_GLOBAL, "resetRead")
        \/ Descriptors!CheckControl("resetRead", RESET_GLOBAL, "globalOnly")
        \/ Descriptors!WriteControl("globalOnly", GLOBAL_ONLY, "globalRead")
        \/ Descriptors!CheckControl("globalRead", GLOBAL_ONLY, "enable")
        \/ Descriptors!WriteControl("enable", GLOBAL_DSP0, "enableRead")
        \/ Descriptors!CheckControl("enableRead", GLOBAL_DSP0, next)
    BY <1>5 DEF Descriptors!EnableEngine, Descriptors!EnableDsp0
  <2>4. CASE Descriptors!WriteControl("resetGlobal", RESET_GLOBAL, "resetRead")
    BY <1>0, <2>0, <2>1, <2>4 DEF Dsp0Step
  <2>5. CASE Descriptors!CheckControl("resetRead", RESET_GLOBAL, "globalOnly")
    BY <1>0, <2>0, <2>2, <2>5 DEF Dsp0Step, LookStep
  <2>6. CASE Descriptors!WriteControl("globalOnly", GLOBAL_ONLY, "globalRead")
    BY <1>0, <2>0, <2>1, <2>6 DEF Dsp0Step
  <2>7. CASE Descriptors!CheckControl("globalRead", GLOBAL_ONLY, "enable")
    BY <1>0, <2>0, <2>2, <2>7 DEF Dsp0Step, LookStep
  <2>8. CASE Descriptors!WriteControl("enable", GLOBAL_DSP0, "enableRead")
    BY <1>0, <2>0, <2>1, <2>8 DEF Dsp0Step
  <2>9. CASE Descriptors!CheckControl("enableRead", GLOBAL_DSP0, next)
    <3>1. next \in {"observe", "zeroControls", "oneEntry"}
      OBVIOUS
    <3> HIDE DEF next
    <3> QED BY <1>0, <2>0, <2>2, <2>9, <3>1 DEF Dsp0Step, LookStep
  <2> QED BY <2>3, <2>4, <2>5, <2>6, <2>7, <2>8, <2>9
<1>6. ASSUME Descriptors!ZeroControls PROVE Dsp0Step
  <2>0. UNCHANGED <<mode, modified>>
    BY <1>6 DEF Descriptors!ZeroControls, Descriptors!toolVars
  <2> DEFINE Looks == /\ Descriptors!Check("zeroRead", linked, "observe")
                         \/ Descriptors!Refuse("zeroRead")
                      /\ UNCHANGED modified
  <2>1. CASE Looks
    BY <1>0, <1>q, <2>0, <2>1 DEF Dsp0Step, LookStep
  <2>2. CASE ~ Looks
    <3>1. IndexStep("zeroControls", Cmd0, 0, {}, "zeroRead") /\ UNCHANGED run
      BY <1>6, <2>0, <2>2 DEF Descriptors!ZeroControls, Descriptors!WriteIndexes, Descriptors!Goto,
         Descriptors!loopVars, Descriptors!flagVars, IndexStep, LoopsKept
    <3> QED BY <1>0, <2>0, <3>1 DEF Dsp0Step
  <2> QED BY <2>1, <2>2
<1>7. ASSUME Descriptors!OneEntry PROVE Dsp0Step
  <2>1. IndexStep("oneEntry", Cmd0, 1, {"controls"}, "observe") /\ UNCHANGED <<run, mode>>
    BY <1>7 DEF Descriptors!OneEntry, Descriptors!WriteIndexes, Descriptors!Goto,
       Descriptors!loopVars, Descriptors!flagVars, IndexStep, LoopsKept
  <2> QED BY <1>0, <2>1 DEF Dsp0Step
<1>8. ASSUME Descriptors!Observe PROVE Dsp0Step
  <2>1. /\ pc = "observe" /\ pc' = "cleanup" /\ WordsKept /\ LoopsKept
        /\ UNCHANGED <<run, mode, n, has, started, modified>>
    BY <1>8 DEF Descriptors!Observe, Descriptors!Goto, Descriptors!cardVars, Descriptors!loopVars,
       WordsKept, LoopsKept, Descriptors!toolVars
  <2> QED BY <1>0, <2>1 DEF Dsp0Step, LookStep, MapKept, Mapped, FlagsKept
<1>9. ASSUME Descriptors!Cleanup PROVE Dsp0Step
  <2>0. UNCHANGED mode
    BY <1>9 DEF Descriptors!Cleanup
  <2>1. CASE Descriptors!RestoreControl("cControls")
    <3>1. /\ UNCHANGED <<run, n, has, started, modified>> /\ LoopsKept
          /\ \/ /\ pc = "cleanup"
                /\ IF "dma" \in modified THEN WriteDma(COLD_RESET) /\ pc' = "cCold"
                                         ELSE WordsKept /\ pc' = "cControls"
             \/ pc = "cCold" /\ pc' = "cControls" /\ WordsKept
      BY <2>1 DEF Descriptors!RestoreControl, Descriptors!WriteDma, WriteDma, Descriptors!Goto,
         Descriptors!cardVars, Descriptors!loopVars, Descriptors!flagVars, WordsKept, LoopsKept
    <3> QED BY <1>0, <2>0, <3>1 DEF Dsp0Step, ColdStep, LookStep, MapKept, Mapped, FlagsKept
  <2>2. CASE Descriptors!ClearEnter("cControls", {Cmd0}, FiveDescriptors)
    <3>1. /\ UNCHANGED <<run, n, has, started, modified>> /\ WordsKept
          /\ pc = "cControls" /\ pc' = "cClear" /\ toClear' = Offered
          /\ toWrite' = (IF "descriptors" \in modified THEN FiveDescriptors ELSE {})
      BY <2>2 DEF Descriptors!ClearEnter, Descriptors!Goto, Descriptors!cardVars,
         Descriptors!flagVars, WordsKept, Offered, Rings
    <3> QED BY <1>0, <2>0, <3>1 DEF Dsp0Step, ClearStep
  <2>3. CASE Descriptors!ClearWords(FiveDescriptors, IF mode = "008" THEN "cVfioReset" ELSE "release")
    <3>1. /\ UNCHANGED <<run, n, has, started, modified>>
          /\ \/ /\ pc = "cClear" /\ pc' = "cClear" /\ UNCHANGED toWrite
                /\ \E x \in toClear : WriteIndexes(x, 0) /\ toClear' = toClear \ {x}
             \/ /\ pc = "cClear" /\ pc' = "cClear" /\ UNCHANGED toClear
                /\ \E s \in toWrite : WriteDesc(s, 0) /\ toWrite' = toWrite \ {s}
             \/ /\ pc = "cClear" /\ pc' \in {"cVfioReset", "release"} /\ WordsKept
                /\ toClear = {} /\ toWrite = {} /\ LoopsKept
      BY <2>3 DEF Descriptors!ClearWords, Descriptors!ClearControl, Descriptors!ClearDescriptor,
         Descriptors!ClearDone, Descriptors!WriteIndexes, WriteIndexes, Descriptors!WriteDesc,
         WriteDesc, Descriptors!Goto, Descriptors!cardVars, Descriptors!loopVars,
         Descriptors!flagVars, WordsKept, LoopsKept
    <3> QED BY <1>0, <2>0, <3>1 DEF Dsp0Step, ClearStep
  <2> QED BY <1>9, <2>1, <2>2, <2>3 DEF Descriptors!Cleanup
<1>10. ASSUME Descriptors!DeviceReset PROVE Dsp0Step
  <2>1. ResetStep
    BY <1>10, Reset DEF Descriptors!DeviceReset, Descriptors!toolVars
  <2>2. UNCHANGED <<run, mode>>
    BY <1>10 DEF Descriptors!DeviceReset, Descriptors!VfioReset, Descriptors!VfioRecovered,
       Descriptors!toolVars
  <2> QED BY <1>0, <2>1, <2>2 DEF Dsp0Step
<1>11. ASSUME Descriptors!ReleaseAll PROVE Dsp0Step
  <2>1. CloseStep(7, "exit")
    BY <1>0, <1>11, Released, Orders
       DEF Descriptors!ReleaseAll, Descriptors!ReleaseOrder, Undo7, Descriptors!toolVars
  <2>2. UNCHANGED <<run, mode>>
    BY <1>11 DEF Descriptors!ReleaseAll, Descriptors!Release, Descriptors!toolVars
  <2> QED BY <1>0, <2>1, <2>2 DEF Dsp0Step
<1>12. ASSUME Descriptors!Environment PROVE Dsp0Step
  <2>0. UNCHANGED <<run, mode, modified>>
    BY <1>12 DEF Descriptors!Environment, Descriptors!Signal, Descriptors!Kill, Descriptors!Consume,
       Descriptors!PageWrite, Descriptors!sessionVars, Descriptors!toolVars
  <2>1. CASE Descriptors!Signal \/ (Descriptors!CardStep /\ UNCHANGED Descriptors!sessionVars)
    <3>1. IdleStep
      BY <2>0, <2>1, Idle DEF Descriptors!sessionVars, sessionVars
    <3> QED BY <1>0, <2>0, <3>1 DEF Dsp0Step
  <2>2. CASE Descriptors!Kill
    <3>1. GoneStep("killed")
      BY <2>0, <2>2, Gone
    <3> QED BY <1>0, <2>0, <3>1 DEF Dsp0Step
  <2>3. CASE Descriptors!Consume
    <3>1. UNCHANGED <<dmaCtl, desc, linked, pc, n, has, started, modified>> /\ LoopsKept
      BY <2>3 DEF Descriptors!Consume, Descriptors!sessionVars, Descriptors!toolVars, LoopsKept
    <3>2. /\ EngineLive(0) /\ idx[Cmd0].read # idx[Cmd0].bell
          /\ idx' = [idx EXCEPT ![Cmd0].read = (@ + 1) % Entries]
          /\ Cmd0 \in RingIds /\ Cmd0[1] = 0
      BY <2>3, CardAssumption DEF Descriptors!Consume, Descriptors!EngineLive, EngineLive, Cmd0,
         RingIds, DSPS, RINGS
    <3>3. AdvanceStep
      BY <3>1, <3>2 DEF AdvanceStep
    <3> QED BY <1>0, <2>0, <3>3 DEF Dsp0Step
  <2>4. CASE Descriptors!PageWrite
    <3>1. IdleStep
      BY <2>4 DEF Descriptors!PageWrite, Descriptors!cardVars, Descriptors!sessionVars, IdleStep, LoopsKept
    <3> QED BY <1>0, <2>0, <3>1 DEF Dsp0Step
  <2> QED BY <1>12, <2>1, <2>2, <2>3, <2>4 DEF Descriptors!Environment
<1> QED
  BY <1>1, <1>2, <1>3, <1>4, <1>5, <1>6, <1>7, <1>8, <1>9, <1>10, <1>11, <1>12 DEF Descriptors!Main

LEMMA OfficialSteps ==
  ASSUME Official!Main \/ Official!Environment, UNCHANGED <<NotOfOfficial, tool>>,
         tool = "official", OfficialInv
  PROVE  OfficialStep
<1> USE OfficialNames, OfficialShared
<1>0. /\ UNCHANGED <<tool, mode, modified>>
      /\ (pc \in {"setup", "release"} => n \in 1 .. 7)
  BY DEF OfficialInv, NotOfOfficial
<1>1. ASSUME Official!Setup PROVE OfficialStep
  <2>1. OpenStep
    BY <1>0, <1>1, Acquired DEF Official!Setup, Official!SetupOrder, Order7
  <2>2. UNCHANGED <<run, indexes, dsp, ring>>
    BY <1>1 DEF Official!Setup, Official!Acquire, Official!AcquireFails, Official!toolVars, Official!loopVars
  <2> QED BY <1>0, <2>1, <2>2 DEF OfficialStep
<1>2. ASSUME Official!Baseline PROVE OfficialStep
  <2> DEFINE ok == Official!AllRingWordsZero /\ Official!AllDspsReady /\ Official!ReadDma = COLD_RESET
  <2>1. /\ pc = "baseline" /\ WordsKept /\ LoopsKept
        /\ pc' = (IF ok THEN "indexes" ELSE "cleanup")
        /\ UNCHANGED <<run, n, has, started, indexes, dsp, ring>>
    BY <1>2 DEF Official!Baseline, Official!Check, Official!Goto, WordsKept, LoopsKept,
       Official!cardVars, Official!loopVars, Official!flagVars, Official!toolVars
  <2>2. ok => AllRingWordsZero /\ dmaCtl = COLD_RESET
    BY DEF Official!ReadDma, AllRingWordsZero
  <2> QED BY <1>0, <2>1, <2>2 DEF OfficialStep
<1>3. ASSUME Official!ReadIndexes PROVE OfficialStep
  <2>1. /\ pc = "indexes" /\ pc' = "ringIndex" /\ started' /\ toWrite' = Dsp0Words
        /\ WordsKept /\ UNCHANGED <<run, n, has, toClear, dsp, ring>>
    BY <1>3 DEF Official!ReadIndexes, Official!Goto, WordsKept, Official!cardVars
  <2>2. indexes' = [r \in RINGS |-> IF ReadIndex(<<0, r>>) < Entries
                                    THEN ReadIndex(<<0, r>>) ELSE 0]
    BY <1>3 DEF Official!ReadIndexes, Official!ReadIndex, ReadIndex
  <2> QED BY <1>0, <2>1, <2>2 DEF OfficialStep
<1>4. ASSUME Official!InitializeRings PROVE OfficialStep
  <2>0. UNCHANGED indexes
    BY <1>4 DEF Official!InitializeRings, Official!toolVars
  <2>1. CASE Official!RingIndex(indexes[ring])
    <3>1. /\ pc = "ringIndex" /\ pc' = "ringDesc" /\ WriteIndexes(<<dsp, ring>>, indexes[ring])
          /\ LoopsKept /\ UNCHANGED <<run, n, has, started, dsp, ring>>
      BY <2>1 DEF Official!RingIndex, Official!WriteIndexes, WriteIndexes, Official!Goto, LoopsKept,
         Official!loopVars, Official!flagVars
    <3> QED BY <1>0, <2>0, <3>1 DEF OfficialStep
  <2>2. CASE Official!RingDesc
    <3>1. /\ pc = "ringDesc" /\ pc' = "ringDesc"
          /\ \E s \in toWrite : WriteDesc(s, run) /\ toWrite' = toWrite \ {s}
          /\ UNCHANGED <<run, n, has, toClear, started, dsp, ring>>
      BY <2>2 DEF Official!RingDesc, Official!WriteDesc, WriteDesc, Official!flagVars
    <3> QED BY <1>0, <2>0, <3>1 DEF OfficialStep
  <2>3. CASE Official!RingDone
    <3>1. /\ pc = "ringDesc" /\ pc' \in {"ringIndex", "enable"} /\ ring' = 1 - ring
          /\ WordsKept /\ LoopsKept /\ UNCHANGED <<run, n, has, started, dsp>>
      BY <2>3 DEF Official!RingDone, Official!Goto, WordsKept, LoopsKept, Official!cardVars,
         Official!flagVars
    <3> QED BY <1>0, <2>0, <3>1 DEF OfficialStep
  <2> QED BY <1>4, <2>1, <2>2, <2>3 DEF Official!InitializeRings
<1>5. ASSUME Official!Publication \/ Official!Observe PROVE OfficialStep
  <2>1. /\ pc \in {"enable", "observe"} /\ pc' \in {"observe", "cleanup"} /\ WordsKept /\ LoopsKept
        /\ UNCHANGED <<run, n, has, started, indexes, dsp, ring>>
    BY <1>5 DEF Official!Publication, Official!Observe, Official!Check, Official!Refuse, Official!Goto, WordsKept,
       LoopsKept, Official!cardVars, Official!loopVars, Official!flagVars, Official!toolVars
  <2> QED BY <1>0, <2>1 DEF OfficialStep
<1>6. ASSUME Official!Cleanup PROVE OfficialStep
  <2>0. UNCHANGED <<run, n, has, started, indexes, dsp, ring>>
    BY <1>6 DEF Official!Cleanup, Official!CleanupBegin, Official!ClearDescriptor,
       Official!ClearIndexes, Official!Restored, Official!loopVars, Official!flagVars, Official!toolVars
  <2>1. CASE Official!CleanupBegin
    <3>1. /\ pc = "cleanup" /\ WordsKept
          /\ IF started THEN /\ pc' = "cClear" /\ toWrite' = Dsp0Words
                             /\ toClear' \in SUBSET RingIds
                        ELSE pc' = "cVfioReset" /\ LoopsKept
      BY <2>1 DEF Official!CleanupBegin, Official!Goto, WordsKept, LoopsKept, Official!cardVars
    <3> QED BY <1>0, <2>0, <3>1 DEF OfficialStep
  <2>2. CASE Official!ClearDescriptor
    <3>1. /\ pc = "cClear" /\ pc' = "cClear" /\ UNCHANGED toClear
          /\ \E s \in toWrite : WriteDesc(s, 0) /\ toWrite' = toWrite \ {s}
      BY <2>2 DEF Official!ClearDescriptor, Official!WriteDesc, WriteDesc
    <3> QED BY <1>0, <2>0, <3>1 DEF OfficialStep
  <2>3. CASE Official!ClearIndexes
    <3>1. /\ pc = "cClear" /\ pc' = "cClear" /\ UNCHANGED toWrite
          /\ \E x \in toClear : WriteIndexes(x, 0) /\ toClear' = toClear \ {x}
      BY <2>3 DEF Official!ClearIndexes, Official!WriteIndexes, WriteIndexes
    <3> QED BY <1>0, <2>0, <3>1 DEF OfficialStep
  <2>4. CASE Official!Restored
    <3>1. pc = "cClear" /\ pc' = "cVfioReset" /\ toWrite = {} /\ WordsKept /\ LoopsKept
      BY <2>4 DEF Official!Restored, Official!Goto, WordsKept, LoopsKept, Official!cardVars, Official!loopVars
    <3> QED BY <1>0, <2>0, <3>1 DEF OfficialStep
  <2> QED BY <1>6, <2>1, <2>2, <2>3, <2>4 DEF Official!Cleanup
<1>7. ASSUME Official!DeviceReset PROVE OfficialStep
  <2>1. ResetStep
    BY <1>0, <1>7, Reset DEF Official!DeviceReset
  <2>2. UNCHANGED <<run, indexes, dsp, ring>>
    BY <1>7 DEF Official!DeviceReset, Official!VfioReset, Official!VfioRecovered, Official!toolVars,
       Official!loopVars
  <2> QED BY <1>0, <2>1, <2>2 DEF OfficialStep
<1>8. ASSUME Official!ReleaseAll PROVE OfficialStep
  <2>1. CloseStep(7, "exit")
    BY <1>0, <1>8, Released, Orders DEF Official!ReleaseAll, Official!ReleaseOrder, Undo7
  <2>2. UNCHANGED <<run, indexes, dsp, ring>>
    BY <1>8 DEF Official!ReleaseAll, Official!Release, Official!toolVars, Official!loopVars
  <2> QED BY <1>0, <2>1, <2>2 DEF OfficialStep
<1>9. ASSUME Official!Environment PROVE OfficialStep
  <2>0. UNCHANGED <<run, indexes, dsp, ring>>
    BY <1>9 DEF Official!Environment, Official!Signal, Official!Kill, Official!PageWrite,
       Official!sessionVars, Official!toolVars, Official!loopVars
  <2>1. CASE Official!Signal \/ (Official!CardStep /\ UNCHANGED Official!sessionVars)
    <3>1. IdleStep
      BY <1>0, <2>1, Idle DEF Official!sessionVars, sessionVars
    <3> QED BY <1>0, <2>0, <3>1 DEF OfficialStep
  <2>2. CASE Official!Kill
    <3>1. GoneStep("killed")
      BY <1>0, <2>2, Gone
    <3> QED BY <1>0, <2>0, <3>1 DEF OfficialStep
  <2>3. CASE Official!PageWrite
    <3>1. IdleStep
      BY <1>0, <2>3 DEF Official!PageWrite, Official!cardVars, Official!sessionVars, IdleStep, LoopsKept
    <3> QED BY <1>0, <2>0, <3>1 DEF OfficialStep
  <2> QED BY <1>9, <2>1, <2>2, <2>3 DEF Official!Environment
<1> QED BY <1>1, <1>2, <1>3, <1>4, <1>5, <1>6, <1>7, <1>8, <1>9 DEF Official!Main

\* The setup of a tool without a cleanup label, when it goes on.
LEMMA DirectAcquired ==
  ASSUME NEW next, pc = "setup" => n \in 1 .. 5, NEW order,
         order = Order5 \/ order = MapOrder, Acquire("setup", order, next), UNCHANGED modified
  PROVE  DirectOpen(next)
<1>0. /\ pc = "setup" /\ n \in 1 .. 5
      /\ WordsKept /\ LoopsKept /\ UNCHANGED <<started, modified>>
  BY DEF Acquire, WordsKept, LoopsKept, cardVars, loopVars, flagVars
<1>1. Len(order) = 5 /\ (order[n] = "dma" => n = 5)
  BY <1>0 DEF Order5, MapOrder
<1>2. /\ \/ pc' = "setup" /\ n # 5 /\ n' = n + 1
         \/ pc' = next /\ n = 5 /\ n' = 1
      /\ has' = has \cup {order[n]}
  BY <1>0, <1>1 DEF Acquire, Goto
<1>3. (Mapped => Mapped') /\ (n # 5 => MapKept)
  BY <1>1, <1>2 DEF Mapped, MapKept
<1> QED BY <1>0, <1>2, <1>3 DEF DirectOpen

LEMMA ControlSteps ==
  ASSUME Control!Main \/ Control!Environment, UNCHANGED <<NotOfControl, tool>>,
         tool = "control", ControlInv
  PROVE  RingControlStep
<1> USE ControlNames, ControlShared
<1>0. UNCHANGED <<tool, mode, modified>> /\ (pc \in {"setup", "release"} => n \in 1 .. 5)
  BY DEF ControlInv, NotOfControl
<1>1. ASSUME Control!Setup PROVE RingControlStep
  <2>0. UNCHANGED <<run, target>> /\ pc = "setup"
    BY <1>1 DEF Control!Setup, Control!OpenStages, Control!Acquire, Control!Die, Control!toolVars
  <2>1. CASE Control!Acquire("setup", Control!SetupOrder, "baseline")
    <3>1. DirectOpen("baseline")
      BY <1>0, <2>1, DirectAcquired DEF Control!SetupOrder, Order5
    <3> QED BY <1>0, <2>0, <3>1 DEF RingControlStep
  <2>2. CASE \E h : Control!Die(h)
    <3>1. GoneStep("exit")
      BY <1>0, <2>0, <2>2, Died DEF Stopped
    <3> QED BY <1>0, <2>0, <3>1 DEF RingControlStep
  <2> QED BY <1>1, <2>1, <2>2 DEF Control!Setup, Control!OpenStages
<1>2. ASSUME Control!Baseline PROVE RingControlStep
  <2>0. UNCHANGED <<run, target>> /\ pc = "baseline"
    BY <1>2 DEF Control!Baseline, Control!Require, Control!Die, Control!toolVars
  <2>1. CASE Control!MatchesCold
    <3>1. DirectLook("baseline", "writeOne")
      BY <1>0, <1>2, <2>1 DEF Control!Baseline, Control!Require, Control!Goto, DirectLook, WordsKept,
         LoopsKept, Control!cardVars, Control!loopVars, Control!flagVars
    <3>2. AllRingWordsZero /\ dmaCtl = COLD_RESET
      BY <2>1 DEF Control!MatchesCold, Control!ReadDma, AllRingWordsZero
    <3> QED BY <1>0, <2>0, <3>1, <3>2 DEF RingControlStep
  <2>2. CASE ~ Control!MatchesCold
    <3>1. GoneStep("exit")
      BY <1>0, <1>2, <2>0, <2>2, Died DEF Control!Baseline, Control!Require, Stopped
    <3> QED BY <1>0, <2>0, <3>1 DEF RingControlStep
  <2> QED BY <2>1, <2>2
<1>3. ASSUME Control!Sequence PROVE RingControlStep
  <2>0. UNCHANGED <<run, target>>
    BY <1>3 DEF Control!Sequence, Control!WriteTarget, Control!Observe, Control!toolVars
  <2>1. ASSUME NEW p, NEW v, NEW q, Control!WriteTarget(p, v, q) PROVE TargetStep(p, v, q)
    BY <1>0, <2>1 DEF Control!WriteTarget, TargetStep, LoopsKept, Control!loopVars, Control!Goto
  <2>2. ASSUME NEW p, NEW v, NEW q, Control!Observe(p, v, q) PROVE DirectLook(p, q)
    BY <1>0, <2>2 DEF Control!Observe, Control!Goto, DirectLook, WordsKept, LoopsKept,
       Control!cardVars, Control!loopVars, Control!flagVars
  <2>3. \/ TargetStep("writeOne", 1, "afterWrite") \/ DirectLook("afterWrite", "afterWait")
        \/ DirectLook("afterWait", "writeZero") \/ TargetStep("writeZero", 0, "afterRestore")
        \/ DirectLook("afterRestore", "reset")
    BY <1>3, <2>1, <2>2 DEF Control!Sequence
  <2> QED BY <1>0, <2>0, <2>3 DEF RingControlStep
<1>4. ASSUME Control!DeviceReset PROVE RingControlStep
  <2>0. UNCHANGED <<run, target>> /\ pc = "reset"
    BY <1>4 DEF Control!DeviceReset, Control!ResetOrDie, Control!Die, Control!toolVars
  <2>1. CASE Control!Die(has)
    <3>1. GoneStep("exit")
      BY <1>0, <2>0, <2>1, Died DEF Stopped
    <3> QED BY <1>0, <2>0, <3>1 DEF RingControlStep
  <2>2. CASE ~ Control!Die(has)
    <3>1. pc' = "recovered" /\ KernelCloses /\ LoopsKept /\ UNCHANGED <<n, has, started>>
      BY <1>4, <2>2 DEF Control!DeviceReset, Control!ResetOrDie, Control!Goto, LoopsKept,
         Control!loopVars, Control!flagVars
    <3> QED BY <1>0, <2>0, <3>1 DEF RingControlStep
  <2> QED BY <2>1, <2>2
<1>5. ASSUME Control!Verdict PROVE RingControlStep
  <2>1. DirectLook("recovered", "release") /\ UNCHANGED <<run, target>>
    BY <1>0, <1>5 DEF Control!Verdict, Control!Return, Control!Goto, DirectLook, WordsKept, LoopsKept,
       Control!cardVars, Control!loopVars, Control!toolVars
  <2> QED BY <1>0, <2>1 DEF RingControlStep
<1>6. ASSUME Control!ReleaseAll PROVE RingControlStep
  <2>1. CloseStep(5, "exit")
    BY <1>0, <1>6, Released, Orders DEF Control!ReleaseAll, Control!DirectRelease, DirectRelease
  <2>2. UNCHANGED <<run, target>>
    BY <1>6 DEF Control!ReleaseAll, Control!Release, Control!toolVars
  <2> QED BY <1>0, <2>1, <2>2 DEF RingControlStep
<1>7. ASSUME Control!Environment PROVE RingControlStep
  <2>0. UNCHANGED <<run, target>>
    BY <1>7 DEF Control!Environment, Control!Kill, Control!sessionVars, Control!toolVars
  <2>1. CASE Control!Kill
    <3>1. GoneStep("killed")
      BY <1>0, <2>1, Gone
    <3> QED BY <1>0, <2>0, <3>1 DEF RingControlStep
  <2>2. CASE Control!CardStep /\ UNCHANGED Control!sessionVars
    <3>1. IdleStep
      BY <1>0, <2>2, Idle DEF Control!sessionVars, sessionVars
    <3> QED BY <1>0, <2>0, <3>1 DEF RingControlStep
  <2> QED BY <1>7, <2>1, <2>2 DEF Control!Environment
<1> QED BY <1>1, <1>2, <1>3, <1>4, <1>5, <1>6, <1>7 DEF Control!Main

LEMMA RecoverySteps ==
  ASSUME Recovery!Main \/ Recovery!Environment, UNCHANGED <<NotOfRecovery, tool>>,
         tool = "recovery", ReaderInv
  PROVE  RecoveryStep
<1> USE RecoveryNames, RecoveryShared
<1>0. UNCHANGED <<tool, mode, modified, kind>> /\ (pc \in {"setup", "release"} => n \in 1 .. 5)
  BY DEF ReaderInv, NotOfRecovery, toolVars
<1>1. ASSUME Recovery!Setup PROVE RecoveryStep
  <2>0. UNCHANGED run /\ pc = "setup"
    BY <1>1 DEF Recovery!Setup, Recovery!OpenStages, Recovery!Acquire, Recovery!Die
  <2>1. CASE Recovery!Acquire("setup", Recovery!SetupOrder, "baseline")
    <3>1. DirectOpen("baseline")
      BY <1>0, <2>1, DirectAcquired DEF Recovery!SetupOrder, Order5
    <3> QED BY <1>0, <2>0, <3>1 DEF RecoveryStep
  <2>2. CASE \E h : Recovery!Die(h)
    <3>1. GoneStep("exit")
      BY <1>0, <2>0, <2>2, Died DEF Stopped
    <3> QED BY <1>0, <2>0, <3>1 DEF RecoveryStep
  <2> QED BY <1>1, <2>1, <2>2 DEF Recovery!Setup, Recovery!OpenStages
<1>2. ASSUME Recovery!Baseline PROVE RecoveryStep
  <2>0. UNCHANGED run /\ pc = "baseline"
    BY <1>2 DEF Recovery!Baseline, Recovery!Require, Recovery!Die
  <2>1. CASE Recovery!Die(has)
    <3>1. GoneStep("exit")
      BY <1>0, <2>0, <2>1, Died DEF Stopped
    <3> QED BY <1>0, <2>0, <3>1 DEF RecoveryStep
  <2>2. CASE ~ Recovery!Die(has)
    <3>1. DirectLook("baseline", "reset")
      BY <1>0, <1>2, <2>2 DEF Recovery!Baseline, Recovery!Require, Recovery!Goto, DirectLook,
         WordsKept, LoopsKept, Recovery!cardVars, Recovery!loopVars, Recovery!flagVars
    <3> QED BY <1>0, <2>0, <3>1 DEF RecoveryStep
  <2> QED BY <2>1, <2>2
<1>3. ASSUME Recovery!DeviceReset PROVE RecoveryStep
  <2>0. UNCHANGED run /\ pc = "reset"
    BY <1>3 DEF Recovery!DeviceReset, Recovery!ResetOrDie, Recovery!Die
  <2>1. CASE Recovery!Die(has)
    <3>1. GoneStep("exit")
      BY <1>0, <2>0, <2>1, Died DEF Stopped
    <3> QED BY <1>0, <2>0, <3>1 DEF RecoveryStep
  <2>2. CASE ~ Recovery!Die(has)
    <3>1. pc' = "recovery" /\ KernelCloses /\ LoopsKept /\ UNCHANGED <<n, has, started>>
      BY <1>3, <2>2 DEF Recovery!DeviceReset, Recovery!ResetOrDie, Recovery!Goto, LoopsKept,
         Recovery!loopVars, Recovery!flagVars
    <3> QED BY <1>0, <2>0, <3>1 DEF RecoveryStep
  <2> QED BY <2>1, <2>2
<1>4. ASSUME Recovery!Recovery PROVE RecoveryStep
  <2>1. UNCHANGED run /\ (DirectLook("recovery", "recovery") \/ DirectLook("recovery", "release"))
    BY <1>0, <1>4 DEF Recovery!Recovery, Recovery!Return, Recovery!Goto, DirectLook, WordsKept,
       LoopsKept, Recovery!cardVars, Recovery!loopVars, Recovery!sessionVars
  <2> QED BY <1>0, <2>1 DEF RecoveryStep
<1>5. ASSUME Recovery!ReleaseAll PROVE RecoveryStep
  <2>1. CloseStep(5, "exit")
    BY <1>0, <1>5, Released, Orders DEF Recovery!ReleaseAll, Recovery!DirectRelease, DirectRelease
  <2>2. UNCHANGED run
    BY <1>5 DEF Recovery!ReleaseAll, Recovery!Release
  <2> QED BY <1>0, <2>1, <2>2 DEF RecoveryStep
<1>6. ASSUME Recovery!Environment PROVE RecoveryStep
  <2>0. UNCHANGED run
    BY <1>6 DEF Recovery!Environment, Recovery!Kill, Recovery!sessionVars
  <2>1. CASE Recovery!Kill
    <3>1. GoneStep("killed")
      BY <1>0, <2>1, Gone
    <3> QED BY <1>0, <2>0, <3>1 DEF RecoveryStep
  <2>2. CASE Recovery!CardStep /\ UNCHANGED Recovery!sessionVars
    <3>1. IdleStep
      BY <1>0, <2>2, Idle DEF Recovery!sessionVars, sessionVars
    <3> QED BY <1>0, <2>0, <3>1 DEF RecoveryStep
  <2> QED BY <1>6, <2>1, <2>2 DEF Recovery!Environment
<1> QED BY <1>1, <1>2, <1>3, <1>4, <1>5, <1>6 DEF Recovery!Main

LEMMA ReaderSteps ==
  ASSUME Reader!Main \/ Reader!Environment, UNCHANGED <<NotOfReader, tool>>,
         tool = "reader", ReaderInv
  PROVE  ReaderStep
<1> USE ReaderNames, ReaderShared
<1>0. /\ UNCHANGED <<tool, mode, modified>> /\ (pc \in {"setup", "release"} => n \in 1 .. 5)
      /\ (kind = "map" /\ pc = "release" => n \in 1 .. 4)
  BY DEF ReaderInv, NotOfReader
<1>1. ASSUME Reader!Setup PROVE ReaderStep
  <2>0. UNCHANGED <<run, kind>> /\ pc = "setup"
    BY <1>1 DEF Reader!Setup, Reader!OpenStages, Reader!Acquire, Reader!Die, Reader!toolVars
  <2>1. CASE Reader!Acquire("setup", Reader!SetupOrder, IF kind = "map" THEN "canary" ELSE "read")
    <3>1. Reader!SetupOrder = Order5 \/ Reader!SetupOrder = MapOrder
      BY DEF Reader!SetupOrder, Order5, MapOrder
    <3>2. DirectOpen(IF kind = "map" THEN "canary" ELSE "read")
      BY <1>0, <2>1, <3>1, DirectAcquired
    <3> QED BY <1>0, <2>0, <3>2 DEF ReaderStep
  <2>2. CASE \E h : Reader!Die(h)
    <3>1. GoneStep("exit")
      BY <1>0, <2>0, <2>2, Died DEF Stopped
    <3> QED BY <1>0, <2>0, <3>1 DEF ReaderStep
  <2> QED BY <1>1, <2>1, <2>2 DEF Reader!Setup, Reader!OpenStages
<1>2. ASSUME Reader!ReadStatus \/ Reader!ReadSnapshot PROVE ReaderStep
  <2>1. kind # "map" /\ DirectLook("read", "release") /\ UNCHANGED <<run, kind>>
    BY <1>0, <1>2 DEF Reader!ReadStatus, Reader!ReadSnapshot, Reader!Return, Reader!Goto, DirectLook,
       WordsKept, LoopsKept, Reader!cardVars, Reader!loopVars, Reader!toolVars
  <2> QED BY <1>0, <2>1 DEF ReaderStep
<1>3. ASSUME Reader!CheckCanary PROVE ReaderStep
  <2>0. UNCHANGED <<run, kind>> /\ pc = "canary"
    BY <1>3 DEF Reader!CheckCanary, Reader!Require, Reader!Die, Reader!toolVars
  <2>1. CASE Reader!Die(has)
    <3>1. GoneStep("exit")
      BY <1>0, <2>0, <2>1, Died DEF Stopped
    <3> QED BY <1>0, <2>0, <3>1 DEF ReaderStep
  <2>2. CASE ~ Reader!Die(has)
    <3>1. DirectLook("canary", "unmap")
      BY <1>0, <1>3, <2>2 DEF Reader!CheckCanary, Reader!Require, Reader!Goto, DirectLook,
         WordsKept, LoopsKept, Reader!cardVars, Reader!loopVars, Reader!flagVars
    <3> QED BY <1>0, <2>0, <3>1 DEF ReaderStep
  <2> QED BY <2>1, <2>2
<1>4. ASSUME Reader!Unmap PROVE ReaderStep
  <2>0. UNCHANGED <<run, kind>> /\ pc = "unmap"
    BY <1>4 DEF Reader!Unmap, Reader!Die, Reader!toolVars
  <2>1. CASE Reader!Die(has)
    <3>1. GoneStep("exit")
      BY <1>0, <2>0, <2>1, Died DEF Stopped
    <3> QED BY <1>0, <2>0, <3>1 DEF ReaderStep
  <2>2. CASE ~ Reader!Die(has)
    <3>1. pc' = "release" /\ ~ Mapped' /\ WordsKept /\ LoopsKept /\ UNCHANGED <<n, started>>
      BY <1>4, <2>2 DEF Reader!Unmap, Reader!Goto, WordsKept, LoopsKept, Mapped, Reader!cardVars,
         Reader!loopVars
    <3> QED BY <1>0, <2>0, <3>1 DEF ReaderStep
  <2> QED BY <2>1, <2>2
<1>5. ASSUME Reader!ReleaseAll PROVE ReaderStep
  <2>0. UNCHANGED <<run, kind>>
    BY <1>5 DEF Reader!ReleaseAll, Reader!Release, Reader!toolVars
  <2>1. CASE kind = "map"
    <3>1. CloseStep(4, "exit")
      BY <1>0, <1>5, <2>1, Released, Orders DEF Reader!ReleaseAll, Reader!ReleaseOrder, MapUndo
    <3> QED BY <1>0, <2>0, <2>1, <3>1 DEF ReaderStep
  <2>2. CASE kind # "map"
    <3>1. CloseStep(5, "exit")
      BY <1>0, <1>5, <2>2, Released, Orders DEF Reader!ReleaseAll, Reader!ReleaseOrder,
         Reader!DirectRelease, DirectRelease
    <3> QED BY <1>0, <2>0, <2>2, <3>1 DEF ReaderStep
  <2> QED BY <2>1, <2>2
<1>6. ASSUME Reader!Environment PROVE ReaderStep
  <2>0. UNCHANGED <<run, kind>>
    BY <1>6 DEF Reader!Environment, Reader!Kill, Reader!PageWrite, Reader!sessionVars, Reader!toolVars
  <2>1. CASE Reader!Kill
    <3>1. GoneStep("killed")
      BY <1>0, <2>1, Gone
    <3> QED BY <1>0, <2>0, <3>1 DEF ReaderStep
  <2>2. CASE Reader!CardStep /\ UNCHANGED Reader!sessionVars
    <3>1. IdleStep
      BY <1>0, <2>2, Idle DEF Reader!sessionVars, sessionVars
    <3> QED BY <1>0, <2>0, <3>1 DEF ReaderStep
  <2>3. CASE Reader!PageWrite
    <3>1. IdleStep
      BY <1>0, <2>3 DEF Reader!PageWrite, Reader!cardVars, Reader!sessionVars, IdleStep, LoopsKept
    <3> QED BY <1>0, <2>0, <3>1 DEF ReaderStep
  <2> QED BY <1>6, <2>1, <2>2, <2>3 DEF Reader!Environment
<1> QED BY <1>1, <1>2, <1>3, <1>4, <1>5, <1>6 DEF Reader!Main

----------------------------------------------------------------------------
(* What the writes and the card do to the words.                           *)

LEMMA FourWords ==
  /\ COLD_RESET # RESET_GLOBAL /\ COLD_RESET # GLOBAL_ONLY /\ COLD_RESET # GLOBAL_DSP0
  /\ RESET_GLOBAL # GLOBAL_DSP0 /\ GLOBAL_ONLY # GLOBAL_DSP0
<1>1. COLD_RESET.global = FALSE /\ RESET_GLOBAL.global = TRUE /\ GLOBAL_ONLY.global = TRUE
      /\ GLOBAL_DSP0.global = TRUE
  BY DEF COLD_RESET, RESET_GLOBAL, GLOBAL_ONLY, GLOBAL_DSP0
<1>2. RESET_GLOBAL.enable = {} /\ GLOBAL_ONLY.enable = {} /\ GLOBAL_DSP0.enable = {0}
  BY DEF RESET_GLOBAL, GLOBAL_ONLY, GLOBAL_DSP0
<1> QED BY <1>1, <1>2

LEMMA Cmds == Cmd0 \in RingIds /\ Resp0 \in RingIds /\ Cmd0 # Resp0 /\ Rings \subseteq RingIds
BY CardAssumption DEF Cmd0, Resp0, RingIds, DSPS, RINGS, Rings

LEMMA Slots == FiveDescriptors \subseteq DescSlots /\ Dsp0Words \subseteq DescSlots
BY DEF FiveDescriptors, Dsp0Words

LEMMA ByDma ==
  ASSUME CardTypes, NEW v \in {COLD_RESET, RESET_GLOBAL, GLOBAL_ONLY, GLOBAL_DSP0}, WriteDma(v)
  PROVE  /\ CardTypes' /\ UNCHANGED <<desc, linked>>
         /\ dmaCtl' = (IF linked THEN v ELSE dmaCtl)
         /\ \A x \in RingIds : (Low(x) <=> Low(x)') /\ (Zero(x) => Zero(x)')
<1>1. UNCHANGED <<desc, linked>> /\ dmaCtl' = (IF linked THEN v ELSE dmaCtl)
  BY DEF WriteDma
<1>2. IdxOK'
  BY DmaWrite DEF CardTypes
<1>3. ASSUME NEW x \in RingIds PROVE (Low(x) <=> Low(x)') /\ (Zero(x) => Zero(x)')
  <2>1. idx[x] \in [bell : 0 .. Entries, write : 0 .. Entries, read : 0 .. Entries]
    BY IdxTyped DEF CardTypes
  <2>2. CASE idx'[x] = idx[x]
    BY <2>2 DEF Low, Zero
  <2>3. CASE idx'[x] = [idx[x] EXCEPT !.read = 0]
    BY <2>1, <2>3 DEF Low, Zero
  <2>4. idx'[x] = idx[x] \/ idx'[x] = [idx[x] EXCEPT !.read = 0]
    BY DEF WriteDma
  <2> QED BY <2>2, <2>3, <2>4
<1> QED BY <1>1, <1>2, <1>3 DEF CardTypes

LEMMA ByDesc ==
  ASSUME CardTypes, NEW s \in DescSlots, NEW v \in 0 .. MaxGen, WriteDesc(s, v)
  PROVE  /\ CardTypes' /\ UNCHANGED <<dmaCtl, idx, linked>>
         /\ linked => desc'[s] = v /\ \A t \in DescSlots \ {s} : desc'[t] = desc[t]
BY DEF WriteDesc, CardTypes, IdxOK

LEMMA ByIndex ==
  ASSUME CardTypes, NEW x \in RingIds, NEW v \in {0, 1},
         idx' = IF linked THEN [idx EXCEPT ![x].bell = v, ![x].write = v] ELSE idx,
         UNCHANGED <<dmaCtl, desc, linked>>
  PROVE  /\ CardTypes'
         /\ linked => /\ \A y \in RingIds \ {x} : idx'[y] = idx[y]
                      /\ idx'[x].bell = v /\ idx'[x].write = v /\ idx'[x].read = idx[x].read
<1>1. v \in 0 .. Entries
  BY CardAssumption
<1>2. CASE linked
  <2> DEFINE e == [[idx[x] EXCEPT !.bell = v] EXCEPT !.write = v]
  <2>1. idx' = [idx EXCEPT ![x] = e]
    BY <1>2 DEF CardTypes, IdxOK
  <2>2. e \in IdxWord /\ e.bell = v /\ e.write = v /\ e.read = idx[x].read
    BY <1>1, IdxTyped DEF IdxWord, CardTypes
  <2> HIDE DEF e
  <2> QED BY <2>1, <2>2 DEF IdxOK, CardTypes
<1>3. CASE ~ linked
  BY <1>3 DEF IdxOK, CardTypes
<1> QED BY <1>2, <1>3

LEMMA ByClose ==
  ASSUME CardTypes, KernelCloses \/ WordsKept
  PROVE  /\ CardTypes' /\ UNCHANGED linked
         /\ \/ UNCHANGED <<dmaCtl, desc, idx>>
            \/ dmaCtl' = COLD_RESET /\ Blank' /\ AllZero' /\ LowBut({})'
<1>1. CASE UNCHANGED <<dmaCtl, desc, idx>> /\ UNCHANGED linked
  BY <1>1 DEF CardTypes, IdxOK
<1>2. CASE FunctionReset /\ linked
  <2>1. /\ UNCHANGED linked /\ dmaCtl' = COLD_RESET
        /\ desc' = [s \in DescSlots |-> 0]
        /\ idx' = [x \in RingIds |-> [bell |-> 0, write |-> 0, read |-> 0]]
    BY <1>2 DEF FunctionReset
  <2>2. Blank' /\ AllZero'
    BY <2>1 DEF Blank, AllZero, Zero
  <2>3. LowBut({})'
    BY <2>1 DEF LowBut, Low
  <2>4. 0 \in 0 .. Entries /\ 0 \in 0 .. MaxGen
    BY CardAssumption
  <2>5. CardTypes'
    BY <2>1, <2>4 DEF CardTypes, IdxOK, IdxWord
  <2> QED BY <2>1, <2>2, <2>3, <2>5
<1> QED BY <1>1, <1>2 DEF KernelCloses, FunctionReset, WordsKept, cardVars

LEMMA ByAdvance ==
  ASSUME CardTypes, AdvanceStep
  PROVE  /\ CardTypes' /\ UNCHANGED <<dmaCtl, desc, linked>> /\ linked /\ ~ AllZero
         /\ \A x \in RingIds : Low(x) <=> Low(x)'
<1>1. PICK x \in RingIds : /\ EngineLive(x[1]) /\ idx[x].read # idx[x].bell
                           /\ idx' = [idx EXCEPT ![x].read = (@ + 1) % Entries]
  BY DEF AdvanceStep
<1>2. UNCHANGED <<dmaCtl, desc, linked>> /\ linked
  BY <1>1 DEF AdvanceStep, EngineLive
<1>3. ~ AllZero
  BY <1>1 DEF AllZero, Zero
<1>4. /\ IdxOK' /\ idx'[x].bell = idx[x].bell
      /\ \A y \in RingIds \ {x} : idx'[y] = idx[y]
  BY <1>1, MovedBy DEF CardTypes
<1>5. idx'[x].write = idx[x].write
  <2> DEFINE r == (idx[x].read + 1) % Entries
  <2>1. idx' = [idx EXCEPT ![x] = [idx[x] EXCEPT !.read = r]]
    BY <1>1 DEF IdxOK, CardTypes
  <2> HIDE DEF r
  <2> QED BY <2>1, IdxTyped DEF IdxOK, CardTypes
<1> QED BY <1>2, <1>3, <1>4, <1>5 DEF CardTypes, Low

LEMMA ByIdle ==
  ASSUME CardTypes, UNCHANGED <<dmaCtl, desc, idx>> PROVE CardTypes'
BY DEF CardTypes, IdxOK

\* What the index facts say about each other.
LEMMA LowFacts ==
  /\ AllZero => LowBut({})
  /\ \A S, T : (S \subseteq T /\ LowBut(S) => LowBut(T))
<1>1. AllZero => LowBut({})
  BY DEF AllZero, Zero, LowBut, Low
<1>2. ASSUME NEW S, NEW T, S \subseteq T, LowBut(S) PROVE LowBut(T)
  BY <1>2 DEF LowBut
<1> QED BY <1>1, <1>2

\* A reset, the kernel's close, and the loss of the card keep what a run left.
LEMMA CloseCard ==
  ASSUME CardTypes, CardInv, KernelCloses \/ WordsKept, UNCHANGED <<tool, mode, started>>,
         started /\ pc' \in OverPCs => pc \in OverPCs
  PROVE  CardInv'
<1>0. /\ UNCHANGED linked
      /\ \/ UNCHANGED <<dmaCtl, desc, idx>>
         \/ dmaCtl' = COLD_RESET /\ Blank' /\ AllZero' /\ LowBut({})'
  BY ByClose
<1>1. CASE UNCHANGED <<dmaCtl, desc, idx>>
  BY <1>0, <1>1 DEF CardInv, WholeFive, Off, In001, Blank, LowBut, Low
<1>2. CASE dmaCtl' = COLD_RESET /\ Blank' /\ AllZero' /\ LowBut({})'
  BY <1>0, <1>2, FourWords DEF CardInv, Off
<1> QED BY <1>0, <1>1, <1>2

LEMMA IdleCard ==
  ASSUME CardInv, UNCHANGED <<dmaCtl, desc, idx, tool, mode, started, pc>>, linked' => linked
  PROVE  CardInv'
BY DEF CardInv, WholeFive, Off, In001, Blank, LowBut, Low


LEMMA Kept ==
  ASSUME WordsKept, UNCHANGED <<tool, mode>>
  PROVE  /\ UNCHANGED <<dmaCtl, desc, idx, linked>> /\ (Off' <=> Off) /\ (Blank' <=> Blank)
         /\ (WholeFive' <=> WholeFive) /\ (AllZero' <=> AllZero)
BY DEF WordsKept, Off, In001, Blank, WholeFive, AllZero, Zero

----------------------------------------------------------------------------
(* A step of a tool for DSP 0 keeps the invariant.                         *)

Dsp0Inv == TypeInv /\ CardInv /\ Dsp0Stage /\ Dsp0Card

LEMMA Dsp0Next ==
  ASSUME Dsp0Inv, tool \in Dsp0Tools, Dsp0Step PROVE Dsp0Inv'
<1>0. /\ TypeInv /\ CardInv /\ Dsp0Stage /\ Dsp0Card /\ CardTypes
      /\ UNCHANGED <<tool, mode, run>> /\ tool' \in Dsp0Tools /\ (In001' <=> In001)
  BY DEF Dsp0Inv, TypeInv, Dsp0Step, In001
<1> USE DEF PublishedPCs, EnablingPCs, JustEnabled, ObservingPCs, RestorePCs, OverPCs, ExitPCs, Dsp0PCs
<1>1. ASSUME OpenStep PROVE Dsp0Inv'
  <2>1. /\ pc = "setup" /\ pc' \in {"setup", "baseline", "cleanup"} /\ LoopsKept
        /\ WordsKept /\ UNCHANGED <<started, modified>> /\ ~ started /\ ~ started'
    BY <1>0, <1>1 DEF OpenStep, Dsp0Stage
  <2>2. TypeInv'
    BY <1>0, <2>1, ByIdle DEF TypeInv, WordsKept, LoopsKept
  <2>3. CardInv'
    BY <1>0, <2>1, Kept DEF CardInv, WordsKept
  <2>4. Dsp0Stage'
    BY <1>0, <1>1, <2>1 DEF Dsp0Stage, OpenStep, LoopsKept, MapKept, NoFlag
  <2>5. Dsp0Card'
    BY <1>0, <2>1 DEF Dsp0Card
  <2> QED BY <2>2, <2>3, <2>4, <2>5 DEF Dsp0Inv
<1>2. ASSUME FoundStep PROVE Dsp0Inv'
  <2>1. /\ pc = "baseline" /\ pc' = "publish" /\ WordsKept /\ toWrite' = FiveDescriptors
        /\ UNCHANGED <<toClear, n, has, started, modified>> /\ ~ started
    BY <1>0, <1>2 DEF FoundStep, Dsp0Stage
  <2>2. TypeInv'
    BY <1>0, <2>1, ByIdle, Slots DEF TypeInv, WordsKept
  <2>3. CardInv'
    BY <1>0, <2>1, Kept DEF CardInv, WordsKept
  <2>4. Dsp0Stage'
    BY <1>0, <2>1 DEF Dsp0Stage, Mapped, NoFlag
  <2>5. Blank /\ AllZero
    BY <1>2 DEF FoundStep, AllRingWordsZero, Blank, AllZero, Zero
  <2>6. linked => Off
    <3>1. \E s \in FiveDescriptors : s \in DescSlots
      <4>1. <<0, 0, 0, 0>> \in FiveDescriptors
        BY CardAssumption DEF FiveDescriptors, DescSlots, DSPS, RINGS, PAGES, HALVES
      <4> QED BY <4>1, Slots
    <3>2. linked => dmaCtl # GLOBAL_DSP0
      BY <1>0, <2>5, <3>1 DEF CardInv, WholeFive, Blank
    <3> QED BY <1>2, <3>2 DEF FoundStep, Off
  <2>7. Dsp0Card'
    BY <1>0, <2>1, <2>5, <2>6, Kept DEF Dsp0Card, Blank
  <2> QED BY <2>2, <2>3, <2>4, <2>7 DEF Dsp0Inv
<1>3. ASSUME LookStep PROVE Dsp0Inv'
  <2>1. /\ WordsKept /\ LoopsKept /\ MapKept /\ FlagsKept /\ UNCHANGED started
        /\ pc # "idle" /\ pc' # "idle"
    BY <1>3 DEF LookStep
  <2>2. TypeInv'
    BY <1>0, <2>1, ByIdle DEF TypeInv, WordsKept, LoopsKept
  <2>3. /\ pc' \in OverPCs => pc \in OverPCs
        /\ pc' \notin {"idle", "setup", "baseline", "publish", "cClear", "killed"}
        /\ pc \notin {"idle", "setup", "publish", "cClear", "killed"}
        /\ pc' \in PublishedPCs => pc \in PublishedPCs
        /\ pc' \in EnablingPCs => pc \in EnablingPCs
        /\ pc' \in ObservingPCs => pc \in PublishedPCs \cup EnablingPCs \cup ObservingPCs
        /\ pc' \in RestorePCs => pc \in RestorePCs
        /\ pc' = "cleanup" => pc \in {"baseline"} \cup PublishedPCs \cup EnablingPCs \cup ObservingPCs
        /\ (pc = "baseline" => pc' = "cleanup") /\ (pc' = "exit" => pc = "report")
        /\ (pc' = "resetGlobal" => ~ In001) /\ pc' # "report" /\ pc' \in Dsp0PCs
        /\ pc' \in EnablingPCs \ JustEnabled => pc \in EnablingPCs \ JustEnabled
    BY <1>3 DEF LookStep
  <2>4. /\ UNCHANGED <<toWrite, toClear>> /\ (Mapped' <=> Mapped)
        /\ \A f \in {"dma", "descriptors", "controls"} : f \in modified' <=> f \in modified
    BY <2>1 DEF FlagsKept, WordFlags, LoopsKept, MapKept
  <2>5. Offered' = Offered
    BY <1>0, <2>4 DEF Offered, Rings
  <2>6. /\ pc' = "copy" => n' \in Words
        /\ pc' # "copy" => n' \in 1 .. 7
    BY <1>0, <1>3, <2>3, ExchangeAssumption DEF Dsp0Stage, LookStep, Words
  <2>7. Dsp0Stage'
    BY <1>0, <2>1, <2>3, <2>4, <2>6 DEF Dsp0Stage, NoFlag, WordFlags
  <2>8. CardInv'
    BY <1>0, <2>1, <2>3, Kept DEF CardInv, LowBut, Low
  <2>9. Dsp0Card'
    BY <1>0, <2>1, <2>3, <2>4, <2>5, Kept DEF Dsp0Card, LowBut, Low, SetOnly, Dsp0Stage
  <2> QED BY <2>2, <2>7, <2>8, <2>9 DEF Dsp0Inv
<1>4. ASSUME PublishStep PROVE Dsp0Inv'
  <2>1. /\ pc = "publish" /\ pc' = "publish" /\ started' /\ UNCHANGED <<toClear, n, has, modified>>
    BY <1>4 DEF PublishStep
  <2>2. PICK s \in toWrite : WriteDesc(s, run) /\ toWrite' = toWrite \ {s}
    BY <1>4 DEF PublishStep
  <2>3. s \in FiveDescriptors /\ s \in DescSlots /\ run \in 0 .. MaxGen /\ run # 0
    BY <1>0, <2>1, Slots DEF Dsp0Stage, TypeInv
  <2>4. /\ CardTypes' /\ UNCHANGED <<dmaCtl, idx, linked>>
        /\ linked => desc'[s] = run /\ \A t \in DescSlots \ {s} : desc'[t] = desc[t]
    BY <1>0, <2>2, <2>3, ByDesc
  <2>5. TypeInv'
    BY <1>0, <2>1, <2>2, <2>4 DEF TypeInv
  <2>6. (Off' <=> Off) /\ (AllZero' <=> AllZero) /\ (linked => Off /\ AllZero)
    BY <1>0, <2>1, <2>4 DEF Off, AllZero, Zero, Dsp0Card
  <2>7. CardInv'
    BY <2>1, <2>6, <2>4, FourWords DEF CardInv, Off
  <2>8. Dsp0Stage'
    BY <1>0, <2>1, <2>2 DEF Dsp0Stage, Mapped, NoFlag
  <2>9. linked' => \A t \in DescSlots : desc'[t] # 0 <=> t \in FiveDescriptors \ toWrite'
    BY <1>0, <2>1, <2>2, <2>3, <2>4 DEF Dsp0Card
  <2>10. Dsp0Card'
    BY <2>1, <2>4, <2>6, <2>9 DEF Dsp0Card
  <2> QED BY <2>5, <2>7, <2>8, <2>10 DEF Dsp0Inv
<1>5. ASSUME PublishedStep PROVE Dsp0Inv'
  <2>1. /\ pc = "publish" /\ toWrite = {} /\ pc' = (IF tool = "query" THEN "resetGlobal" ELSE "readback")
        /\ modified' = modified \cup {"descriptors"}
        /\ WordsKept /\ LoopsKept /\ UNCHANGED <<n, has, started>>
    BY <1>5 DEF PublishedStep
  <2>2. FiveDescriptors # {}
    BY CardAssumption, <<0, 0, 0, 0>> \in FiveDescriptors
       DEF FiveDescriptors, DescSlots, DSPS, RINGS, PAGES, HALVES
  <2>3. started
    BY <1>0, <2>1, <2>2 DEF Dsp0Stage
  <2>4. TypeInv'
    BY <1>0, <2>1, ByIdle DEF TypeInv, WordsKept, LoopsKept
  <2>5. (linked => Off /\ AllZero /\ \A s \in DescSlots : desc[s] # 0 <=> s \in FiveDescriptors)
    BY <1>0, <2>1 DEF Dsp0Card
  <2>6. CardInv'
    BY <1>0, <2>1, Kept DEF CardInv
  <2>7. Dsp0Stage'
    BY <1>0, <2>1, <2>3 DEF Dsp0Stage, Mapped, NoFlag, WordFlags, LoopsKept, In001
  <2>8. linked => WholeFive /\ SetOnly(FiveDescriptors) /\ LowBut({})
    BY <2>5, Slots, LowFacts DEF WholeFive, SetOnly
  <2>9. Dsp0Card'
    BY <1>0, <2>1, <2>3, <2>5, <2>8, Kept DEF Dsp0Card, SetOnly, LowBut, Low
  <2> QED BY <2>4, <2>6, <2>7, <2>9 DEF Dsp0Inv
<1>6. ASSUME NEW p, NEW v, NEW q, ControlStep(p, v, q),
             \/ p = "resetGlobal" /\ v = RESET_GLOBAL /\ q = "resetRead"
             \/ p = "globalOnly" /\ v = GLOBAL_ONLY /\ q = "globalRead"
             \/ p = "enable" /\ v = GLOBAL_DSP0 /\ q = "enableRead"
      PROVE  Dsp0Inv'
  <2>1. /\ pc \in {"resetGlobal", "globalOnly", "enable"}
        /\ pc' \in {"resetRead", "globalRead", "enableRead"}
        /\ modified' = modified \cup {"dma"} /\ WriteDma(v) /\ LoopsKept
        /\ UNCHANGED <<n, has, started>>
        /\ v \in {COLD_RESET, RESET_GLOBAL, GLOBAL_ONLY, GLOBAL_DSP0}
    BY <1>6 DEF ControlStep
  <2>2. /\ CardTypes' /\ UNCHANGED <<desc, linked>>
        /\ \A x \in RingIds : (Low(x) <=> Low(x)') /\ (Zero(x) => Zero(x)')
    BY <1>0, <2>1, ByDma
  <2>3. started /\ ~ In001 /\ "descriptors" \in modified
    BY <1>0, <2>1 DEF Dsp0Stage
  <2>4. linked => AllZero /\ WholeFive /\ SetOnly(FiveDescriptors) /\ LowBut(Offered)
    BY <1>0, <2>1, <2>3 DEF Dsp0Card
  <2>5. (WholeFive' <=> WholeFive) /\ (AllZero => AllZero')
    BY <2>2 DEF WholeFive, AllZero
  <2>6. TypeInv'
    BY <1>0, <2>1, <2>2 DEF TypeInv, LoopsKept
  <2>7. CardInv'
    BY <2>1, <2>2, <2>4, <2>5 DEF CardInv
  <2>8. Dsp0Stage'
    BY <1>0, <2>1, <2>3, <1>6 DEF Dsp0Stage, Mapped, LoopsKept
  <2>9. Offered' = Offered
    BY <1>0, <2>1 DEF Offered, Rings
  <2>10. linked => SetOnly(FiveDescriptors)' /\ LowBut(Offered)'
    BY <2>2, <2>4, <2>9 DEF SetOnly, LowBut
  <2>11. Dsp0Card'
    BY <2>1, <2>2, <2>4, <2>5, <2>10 DEF Dsp0Card
  <2> QED BY <2>6, <2>7, <2>8, <2>11 DEF Dsp0Inv
<1>7. ASSUME NEW p, NEW x \in Rings, NEW v \in {0, 1}, NEW f, NEW q, IndexStep(p, x, v, f, q),
             \/ p \in JustEnabled \cup {"postCommand"} /\ f = {"controls"}
             \/ p \in JustEnabled /\ f = {} /\ v = 0,
             q \in ObservingPCs \ {"copy"}
      PROVE  Dsp0Inv'
  <2>1. /\ pc = p /\ pc' = q /\ modified' = modified \cup f /\ LoopsKept
        /\ idx' = IF linked THEN [idx EXCEPT ![x].bell = v, ![x].write = v] ELSE idx
        /\ UNCHANGED <<dmaCtl, desc, linked, n, has, started>>
    BY <1>7 DEF IndexStep
  <2>2. /\ CardTypes'
        /\ linked => /\ \A y \in RingIds \ {x} : idx'[y] = idx[y]
                     /\ idx'[x].bell = v /\ idx'[x].write = v /\ idx'[x].read = idx[x].read
    <3>1. x \in RingIds
      BY Cmds
    <3>2. idx' = IF linked THEN [idx EXCEPT ![x].bell = v, ![x].write = v] ELSE idx
      BY <2>1
    <3> QED BY <1>0, <2>1, <3>1, <3>2, ByIndex, Zenon
  <2>3. started /\ "descriptors" \in modified /\ pc # "copy" /\ pc # "killed"
        /\ pc \in EnablingPCs \cup ObservingPCs
    BY <1>0, <1>7, <2>1 DEF Dsp0Stage
  <2>4. /\ linked => WholeFive /\ SetOnly(FiveDescriptors) /\ LowBut(Offered) /\ ("dma" \in modified \/ Off)
        /\ linked /\ pc \in JustEnabled => AllZero
    BY <1>0, <2>3 DEF Dsp0Card
  <2>5. TypeInv'
    BY <1>0, <1>7, <2>1, <2>2 DEF TypeInv, LoopsKept
  <2>6. CardInv'
    BY <1>0, <1>7, <2>1, <2>4 DEF CardInv, WholeFive
  <2>7. Dsp0Stage'
    <3>1. \A g \in {"dma", "descriptors"} : g \in modified' <=> g \in modified
      BY <1>7, <2>1
    <3> QED BY <1>0, <1>7, <2>1, <2>3, <3>1 DEF Dsp0Stage, LoopsKept
  <2>8. linked' => LowBut(Offered)'
    <3>1. CASE f = {"controls"}
      <4>1. x \in Offered' /\ Offered \subseteq Offered'
        BY <1>0, <1>7, <2>1, <3>1 DEF Offered, Rings
      <4> QED BY <2>1, <2>2, <2>4, <4>1 DEF LowBut, Low
    <3>2. CASE f = {} /\ v = 0 /\ p \in JustEnabled
      <4>1. linked => LowBut({})
        BY <2>1, <2>4, <3>2, LowFacts
      <4> QED BY <2>1, <2>2, <3>2, <4>1 DEF LowBut, Low
    <3> QED BY <1>7, <3>1, <3>2
  <2>9. Dsp0Card'
    BY <1>0, <1>7, <2>1, <2>4, <2>8 DEF Dsp0Card, WholeFive, SetOnly, Off
  <2> QED BY <2>5, <2>6, <2>7, <2>9 DEF Dsp0Inv
<1>8. ASSUME ColdStep PROVE Dsp0Inv'
  <2>1. /\ pc = "cleanup" /\ pc' \in RestorePCs /\ LoopsKept
        /\ UNCHANGED <<n, has, started, modified>>
    BY <1>8 DEF ColdStep
  <2>2. /\ CardTypes' /\ UNCHANGED <<desc, linked>>
        /\ \A x \in RingIds : Low(x) <=> Low(x)'
        /\ IF "dma" \in modified THEN linked => dmaCtl' = COLD_RESET ELSE UNCHANGED dmaCtl
    BY <1>0, <1>8, ByDma, ByIdle DEF ColdStep, WordsKept, Low
  <2>3. linked /\ started => SetOnly(FiveDescriptors) /\ LowBut(Offered) /\ ("dma" \in modified \/ Off)
    BY <1>0, <2>1 DEF Dsp0Card
  <2>4. linked /\ started => Off'
    BY <1>0, <2>2, <2>3 DEF Off
  <2>5. TypeInv'
    BY <1>0, <2>1, <2>2 DEF TypeInv, LoopsKept
  <2>6. CardInv'
    BY <1>0, <2>1, <2>2, FourWords DEF CardInv, WholeFive
  <2>7. Dsp0Stage'
    BY <1>0, <2>1 DEF Dsp0Stage, LoopsKept, NoFlag
  <2>8. Offered' = Offered
    BY <1>0, <2>1 DEF Offered, Rings
  <2>9. Dsp0Card'
    BY <2>1, <2>2, <2>3, <2>4, <2>8 DEF Dsp0Card, SetOnly, LowBut
  <2> QED BY <2>5, <2>6, <2>7, <2>9 DEF Dsp0Inv
<1>9. ASSUME ClearStep PROVE Dsp0Inv'
  <2>0. UNCHANGED <<n, has, started, modified>> /\ pc \in {"cControls", "cClear"}
        /\ pc' \in {"cClear", "cVfioReset", "release"}
    BY <1>9 DEF ClearStep
  <2>1. CASE /\ pc = "cControls" /\ pc' = "cClear" /\ WordsKept
             /\ toClear' = Offered
             /\ toWrite' = (IF "descriptors" \in modified THEN FiveDescriptors ELSE {})
    <3>1. TypeInv'
      BY <1>0, <2>0, <2>1, ByIdle, Slots, Cmds DEF TypeInv, WordsKept, Offered
    <3>2. CardInv'
      BY <1>0, <2>0, <2>1, Kept DEF CardInv
    <3>3. Dsp0Stage'
      BY <1>0, <2>0, <2>1 DEF Dsp0Stage, NoFlag, WordFlags, Offered
    <3>4. started => toWrite' = FiveDescriptors
      BY <1>0, <2>1 DEF Dsp0Stage
    <3>5. linked /\ started => Off /\ SetOnly(FiveDescriptors) /\ LowBut(Offered)
      BY <1>0, <2>1 DEF Dsp0Card
    <3>6. Dsp0Card'
      BY <1>0, <2>0, <2>1, <3>4, <3>5, Kept DEF Dsp0Card, SetOnly, LowBut, Low
    <3> QED BY <3>1, <3>2, <3>3, <3>6 DEF Dsp0Inv
  <2>2. CASE /\ pc = "cClear" /\ pc' = "cClear" /\ UNCHANGED toWrite
             /\ \E x \in toClear : WriteIndexes(x, 0) /\ toClear' = toClear \ {x}
    <3>1. PICK x \in toClear : WriteIndexes(x, 0) /\ toClear' = toClear \ {x}
      BY <2>2
    <3>2. x \in RingIds /\ UNCHANGED <<dmaCtl, desc, linked>>
      BY <1>0, <3>1 DEF TypeInv, WriteIndexes
    <3>3. idx' = IF linked THEN [idx EXCEPT ![x].bell = 0, ![x].write = 0] ELSE idx
      BY <3>1 DEF WriteIndexes
    <3>4. /\ CardTypes'
          /\ linked => /\ \A y \in RingIds \ {x} : idx'[y] = idx[y]
                       /\ idx'[x].bell = 0 /\ idx'[x].write = 0 /\ idx'[x].read = idx[x].read
      <4>1. 0 \in {0, 1}
        OBVIOUS
      <4> QED BY <1>0, <3>2, <3>3, <4>1, ByIndex, Zenon
    <3>5. TypeInv'
      BY <1>0, <2>0, <2>2, <3>1, <3>4 DEF TypeInv
    <3>6. CardInv'
      BY <1>0, <2>2, <3>2 DEF CardInv, WholeFive
    <3>7. Dsp0Stage'
      BY <1>0, <2>0, <2>2, <3>1 DEF Dsp0Stage
    <3>8. linked /\ started => Off /\ SetOnly(toWrite) /\ LowBut(toClear)
      BY <1>0, <2>2 DEF Dsp0Card
    <3>9. Dsp0Card'
      BY <1>0, <2>0, <2>2, <3>1, <3>2, <3>4, <3>8 DEF Dsp0Card, SetOnly, LowBut, Low, Off
    <3> QED BY <3>5, <3>6, <3>7, <3>9 DEF Dsp0Inv
  <2>3. CASE /\ pc = "cClear" /\ pc' = "cClear" /\ UNCHANGED toClear
             /\ \E s \in toWrite : WriteDesc(s, 0) /\ toWrite' = toWrite \ {s}
    <3>1. PICK s \in toWrite : WriteDesc(s, 0) /\ toWrite' = toWrite \ {s}
      BY <2>3
    <3>2. s \in DescSlots /\ 0 \in 0 .. MaxGen
      BY <1>0, <3>1, CardAssumption DEF TypeInv
    <3>3. /\ CardTypes' /\ UNCHANGED <<dmaCtl, idx, linked>>
          /\ linked => desc'[s] = 0 /\ \A t \in DescSlots \ {s} : desc'[t] = desc[t]
      BY <1>0, <3>1, <3>2, ByDesc
    <3>4. started
      BY <1>0, <2>3, <3>1 DEF Dsp0Stage
    <3>5. TypeInv'
      BY <1>0, <2>0, <2>3, <3>1, <3>3 DEF TypeInv
    <3>6. Dsp0Stage'
      BY <1>0, <2>0, <2>3, <3>1 DEF Dsp0Stage
    <3>7. linked => Off /\ SetOnly(toWrite) /\ LowBut(toClear)
      BY <1>0, <2>3, <3>4 DEF Dsp0Card
    <3>8. CardInv'
      BY <1>0, <2>3, <3>3, <3>7, FourWords DEF CardInv, Off
    <3>9. Dsp0Card'
      BY <1>0, <2>0, <2>3, <3>1, <3>3, <3>7 DEF Dsp0Card, SetOnly, LowBut, Low, Off
    <3> QED BY <3>5, <3>6, <3>8, <3>9 DEF Dsp0Inv
  <2>4. CASE /\ pc = "cClear" /\ pc' \in {"cVfioReset", "release"} /\ WordsKept
             /\ toClear = {} /\ toWrite = {} /\ LoopsKept
    <3>1. TypeInv'
      BY <1>0, <2>0, <2>4, ByIdle DEF TypeInv, WordsKept, LoopsKept
    <3>2. Dsp0Stage'
      BY <1>0, <2>0, <2>4 DEF Dsp0Stage, LoopsKept
    <3>3. linked /\ started => Off /\ Blank /\ LowBut({})
      BY <1>0, <2>4 DEF Dsp0Card, SetOnly, Blank
    <3>4. CardInv'
      BY <1>0, <2>0, <2>4, <3>3, Kept DEF CardInv, LowBut, Low
    <3>5. Dsp0Card'
      BY <2>4 DEF Dsp0Card
    <3> QED BY <3>1, <3>2, <3>4, <3>5 DEF Dsp0Inv
  <2> QED BY <1>9, <2>1, <2>2, <2>3, <2>4 DEF ClearStep
<1>10. ASSUME ResetStep PROVE Dsp0Inv'
  <2>1. /\ pc \in {"cVfioReset", "cRecovered"} /\ pc' \in {"cRecovered", "release"}
        /\ LoopsKept /\ MapKept /\ UNCHANGED <<started, modified, n>> /\ (KernelCloses \/ WordsKept)
    BY <1>10 DEF ResetStep
  <2>2. TypeInv'
    BY <1>0, <2>1, ByClose DEF TypeInv, LoopsKept
  <2>3. CardInv'
    BY <1>0, <2>1, CloseCard
  <2>4. Dsp0Stage'
    BY <1>0, <2>1 DEF Dsp0Stage, LoopsKept
  <2>5. Dsp0Card'
    BY <2>1 DEF Dsp0Card
  <2> QED BY <2>2, <2>3, <2>4, <2>5 DEF Dsp0Inv
<1>11. ASSUME NEW last \in {"report", "exit"}, CloseStep(7, last) PROVE Dsp0Inv'
  <2>1. /\ pc = "release" /\ pc' \in {"release", "report", "exit"} /\ LoopsKept
        /\ UNCHANGED <<started, modified>> /\ (KernelCloses \/ WordsKept)
        /\ (pc' # "release" => ~ Mapped') /\ (n \in 1 .. 7 => n' \in 1 .. 7)
    BY <1>11 DEF CloseStep
  <2>2. TypeInv'
    BY <1>0, <2>1, ByClose DEF TypeInv, LoopsKept
  <2>3. CardInv'
    BY <1>0, <2>1, CloseCard
  <2>4. Dsp0Stage'
    BY <1>0, <2>1 DEF Dsp0Stage, LoopsKept
  <2>5. Dsp0Card'
    BY <2>1 DEF Dsp0Card
  <2> QED BY <2>2, <2>3, <2>4, <2>5 DEF Dsp0Inv
<1>12. ASSUME GoneStep("killed") PROVE Dsp0Inv'
  <2>1. /\ pc \notin Stopped /\ pc' = "killed" /\ LoopsKept
        /\ UNCHANGED <<started, modified>> /\ (KernelCloses \/ WordsKept)
    BY <1>12 DEF GoneStep
  <2>2. TypeInv'
    BY <1>0, <2>1, ByClose DEF TypeInv, LoopsKept, Stopped
  <2>3. CardInv'
    BY <1>0, <2>1, CloseCard
  <2>4. Dsp0Stage'
    BY <1>0, <2>1 DEF Dsp0Stage
  <2>5. Dsp0Card'
    BY <2>1 DEF Dsp0Card
  <2> QED BY <2>2, <2>3, <2>4, <2>5 DEF Dsp0Inv
<1>13. ASSUME AdvanceStep PROVE Dsp0Inv'
  <2>1. UNCHANGED <<pc, n, has, started, modified>> /\ LoopsKept
    BY <1>13 DEF AdvanceStep
  <2>2. /\ CardTypes' /\ UNCHANGED <<dmaCtl, desc, linked>> /\ linked /\ ~ AllZero
        /\ \A x \in RingIds : Low(x) <=> Low(x)'
    BY <1>0, <1>13, ByAdvance
  <2>3. TypeInv'
    BY <1>0, <2>1, <2>2 DEF TypeInv, LoopsKept
  <2>4. CardInv'
    BY <1>0, <2>1, <2>2 DEF CardInv, WholeFive, Off, Blank, LowBut
  <2>5. Dsp0Stage'
    BY <1>0, <2>1 DEF Dsp0Stage, LoopsKept, Mapped, NoFlag
  <2>6. Offered' = Offered /\ (Off' <=> Off) /\ (WholeFive' <=> WholeFive)
    BY <1>0, <2>1, <2>2 DEF Offered, Rings, Off, WholeFive
  <2>7. Dsp0Card'
    BY <1>0, <2>1, <2>2, <2>6 DEF Dsp0Card, SetOnly, LowBut, LoopsKept
  <2> QED BY <2>3, <2>4, <2>5, <2>7 DEF Dsp0Inv
<1>14. ASSUME IdleStep PROVE Dsp0Inv'
  <2>1. UNCHANGED <<dmaCtl, desc, idx, pc, n, has, started, modified>> /\ LoopsKept
        /\ (linked' => linked)
    BY <1>14 DEF IdleStep
  <2>2. TypeInv'
    BY <1>0, <2>1, ByIdle DEF TypeInv, LoopsKept
  <2>3. CardInv'
    BY <1>0, <2>1, IdleCard
  <2>4. Dsp0Stage'
    BY <1>0, <2>1 DEF Dsp0Stage, LoopsKept, Mapped, NoFlag
  <2>5. Offered' = Offered /\ (Off' <=> Off) /\ (WholeFive' <=> WholeFive) /\ (AllZero' <=> AllZero)
    BY <1>0, <2>1 DEF Offered, Rings, Off, WholeFive, AllZero, Zero
  <2>6. Dsp0Card'
    BY <1>0, <2>1, <2>5 DEF Dsp0Card, SetOnly, LowBut, Low, LoopsKept
  <2> QED BY <2>2, <2>3, <2>4, <2>6 DEF Dsp0Inv
<1>15. /\ Cmd0 \in Rings /\ (tool = "query" => Resp0 \in Rings)
  BY DEF Rings
<1>16. ASSUME \/ ControlStep("resetGlobal", RESET_GLOBAL, "resetRead")
              \/ ControlStep("globalOnly", GLOBAL_ONLY, "globalRead")
              \/ ControlStep("enable", GLOBAL_DSP0, "enableRead")
       PROVE  Dsp0Inv'
  BY <1>6, <1>16
<1>17. ASSUME \/ IndexStep("zeroControls", Cmd0, 0, {}, "zeroRead")
              \/ IndexStep("oneEntry", Cmd0, 1, {"controls"}, "observe")
              \/ tool = "query" /\ IndexStep("postResponse", Resp0, 1, {"controls"}, "postCommand")
              \/ IndexStep("postCommand", Cmd0, 1, {"controls"}, "poll")
       PROVE  Dsp0Inv'
  <2>1. CASE IndexStep("zeroControls", Cmd0, 0, {}, "zeroRead")
    BY <1>7, <1>15, <2>1
  <2>2. CASE IndexStep("oneEntry", Cmd0, 1, {"controls"}, "observe")
    BY <1>7, <1>15, <2>2
  <2>3. CASE tool = "query" /\ IndexStep("postResponse", Resp0, 1, {"controls"}, "postCommand")
    BY <1>7, <1>15, <2>3
  <2>4. CASE IndexStep("postCommand", Cmd0, 1, {"controls"}, "poll")
    BY <1>7, <1>15, <2>4
  <2> QED BY <1>17, <2>1, <2>2, <2>3, <2>4
<1> HIDE DEF PublishedPCs, EnablingPCs, JustEnabled, ObservingPCs, RestorePCs, OverPCs, ExitPCs, Dsp0PCs
<1> QED
  BY <1>1, <1>2, <1>3, <1>4, <1>5, <1>8, <1>9, <1>10, <1>11, <1>12, <1>13, <1>14, <1>16, <1>17
  DEF Dsp0Step


----------------------------------------------------------------------------
(* A step of the official ring initializer keeps the invariant.            *)

OneInv == TypeInv /\ CardInv /\ OfficialInv

LEMMA OfficialNext ==
  ASSUME OneInv, tool = "official", OfficialStep PROVE OneInv'
<1>0. /\ TypeInv /\ CardInv /\ OfficialInv /\ CardTypes
      /\ UNCHANGED <<tool, mode, run>> /\ tool' = "official" /\ (In001' <=> In001) /\ ~ In001
      /\ indexes = [r \in RINGS |-> 0] /\ dsp = 0 /\ ring \in RINGS
      /\ run \in 0 .. MaxGen /\ tool' \in Dsp0Tools \cup {"official", "control", "recovery", "reader"}
  BY DEF OneInv, TypeInv, OfficialStep, In001, OfficialInv
<1> USE DEF OverPCs, OfficialPCs, InitPCs
<1>1. ASSUME OpenStep, UNCHANGED <<indexes, dsp, ring>> PROVE OneInv'
  <2>1. /\ pc = "setup" /\ pc' \in {"setup", "baseline", "cleanup"} /\ LoopsKept
        /\ WordsKept /\ UNCHANGED <<started, modified>> /\ ~ started /\ ~ started'
        /\ (n \in 1 .. 7 => n' \in 1 .. 7)
    BY <1>0, <1>1 DEF OpenStep, OfficialInv
  <2>2. TypeInv'
    BY <1>0, <2>1, ByIdle DEF TypeInv, WordsKept, LoopsKept
  <2>3. CardInv'
    BY <1>0, <2>1, Kept DEF CardInv, WordsKept
  <2>4. OfficialInv'
    BY <1>0, <1>1, <2>1 DEF OfficialInv, LoopsKept
  <2> QED BY <2>2, <2>3, <2>4 DEF OneInv
<1>2. ASSUME pc = "baseline", pc' \in {"indexes", "cleanup"},
             pc' = "indexes" => AllRingWordsZero /\ dmaCtl = COLD_RESET,
             WordsKept, LoopsKept, UNCHANGED <<n, has, started, indexes, dsp, ring>>
      PROVE  OneInv'
  <2>1. ~ started /\ n \in 1 .. 7 /\ toWrite = {} /\ toClear = {}
    BY <1>0, <1>2 DEF OfficialInv
  <2>2. TypeInv'
    BY <1>0, <1>2, ByIdle DEF TypeInv, WordsKept, LoopsKept
  <2>3. CardInv'
    BY <1>0, <1>2, Kept DEF CardInv, WordsKept
  <2>4. pc' = "indexes" => Blank /\ AllZero /\ LowBut({}) /\ dmaCtl = COLD_RESET
    BY <1>2, LowFacts DEF AllRingWordsZero, Blank, AllZero, Zero
  <2>5. OfficialInv'
    BY <1>0, <1>2, <2>1, <2>4, Kept DEF OfficialInv, LoopsKept, LowBut, Low
  <2> QED BY <2>2, <2>3, <2>5 DEF OneInv
<1>3. ASSUME pc = "indexes", pc' = "ringIndex", started', toWrite' = Dsp0Words,
             indexes' = [r \in RINGS |-> IF ReadIndex(<<0, r>>) < Entries
                                         THEN ReadIndex(<<0, r>>) ELSE 0],
             WordsKept, UNCHANGED <<n, has, toClear, dsp, ring>>
      PROVE  OneInv'
  <2>1. n \in 1 .. 7 /\ (linked => Blank /\ AllZero /\ LowBut({}) /\ dmaCtl = COLD_RESET)
    BY <1>0, <1>3 DEF OfficialInv
  <2>2. TypeInv'
    BY <1>0, <1>3, ByIdle, Slots DEF TypeInv, WordsKept
  <2>3. CardInv'
    BY <1>0, <1>3, Kept DEF CardInv, WordsKept
  <2>4. indexes' = [r \in RINGS |-> 0]
    <3>1. ASSUME NEW r \in RINGS
          PROVE  (IF ReadIndex(<<0, r>>) < Entries THEN ReadIndex(<<0, r>>) ELSE 0) = 0
      <4>1. <<0, r>> \in RingIds
        BY CardAssumption DEF RingIds, DSPS
      <4>2. CASE linked
        BY <2>1, <4>1, <4>2 DEF ReadIndex, AllZero, Zero
      <4>3. CASE ~ linked
        BY <4>3, CardAssumption DEF ReadIndex
      <4> QED BY <4>2, <4>3
    <3> QED BY <1>3, <3>1
  <2>5. OfficialInv'
    BY <1>0, <1>3, <2>1, <2>4, Kept DEF OfficialInv, LowBut, Low, Blank, SetOnly
  <2> QED BY <2>2, <2>3, <2>5 DEF OneInv
<1>4. ASSUME pc = "ringIndex", pc' = "ringDesc", WriteIndexes(<<dsp, ring>>, indexes[ring]),
             LoopsKept, UNCHANGED <<n, has, started, indexes, dsp, ring>>
      PROVE  OneInv'
  <2>1. /\ n \in 1 .. 7 /\ started
        /\ linked => LowBut({}) /\ dmaCtl = COLD_RESET /\ SetOnly(Dsp0Words)
    BY <1>0, <1>4 DEF OfficialInv
  <2> DEFINE x == <<dsp, ring>>
  <2>2. x \in RingIds /\ indexes[ring] = 0 /\ UNCHANGED <<dmaCtl, desc, linked>>
    BY <1>0, <1>4, CardAssumption DEF RingIds, DSPS, WriteIndexes
  <2>3. idx' = IF linked THEN [idx EXCEPT ![x].bell = 0, ![x].write = 0] ELSE idx
    BY <1>4, <2>2 DEF WriteIndexes
  <2> HIDE DEF x
  <2>4. /\ CardTypes'
        /\ linked => /\ \A y \in RingIds \ {x} : idx'[y] = idx[y]
                     /\ idx'[x].bell = 0 /\ idx'[x].write = 0 /\ idx'[x].read = idx[x].read
    <3>1. 0 \in {0, 1}
      OBVIOUS
    <3> QED BY <1>0, <2>2, <2>3, <3>1, ByIndex, Zenon
  <2>5. TypeInv'
    BY <1>0, <1>4, <2>4 DEF TypeInv, LoopsKept
  <2>6. CardInv'
    BY <1>0, <1>4, <2>2 DEF CardInv, WholeFive
  <2>7. linked' => LowBut({})'
    BY <2>1, <2>2, <2>4 DEF LowBut, Low
  <2>8. OfficialInv'
    BY <1>0, <1>4, <2>1, <2>2, <2>7 DEF OfficialInv, SetOnly, LoopsKept
  <2> QED BY <2>5, <2>6, <2>8 DEF OneInv
<1>5. ASSUME pc = "ringDesc", pc' = "ringDesc",
             \E s \in toWrite : WriteDesc(s, run) /\ toWrite' = toWrite \ {s},
             UNCHANGED <<n, has, toClear, started, indexes, dsp, ring>>
      PROVE  OneInv'
  <2>1. /\ n \in 1 .. 7 /\ started /\ toWrite \subseteq Dsp0Words
        /\ linked => LowBut({}) /\ dmaCtl = COLD_RESET /\ SetOnly(Dsp0Words)
    BY <1>0, <1>5 DEF OfficialInv
  <2>2. PICK s \in toWrite : WriteDesc(s, run) /\ toWrite' = toWrite \ {s}
    BY <1>5
  <2>3. s \in DescSlots /\ s \in Dsp0Words
    BY <2>1, Slots
  <2>4. /\ CardTypes' /\ UNCHANGED <<dmaCtl, idx, linked>>
        /\ linked => desc'[s] = run /\ \A t \in DescSlots \ {s} : desc'[t] = desc[t]
    BY <1>0, <2>2, <2>3, ByDesc
  <2>5. TypeInv'
    BY <1>0, <1>5, <2>2, <2>4 DEF TypeInv
  <2>6. CardInv'
    BY <1>0, <1>5, <2>1, <2>4, FourWords DEF CardInv
  <2>7. linked' => SetOnly(Dsp0Words)' /\ LowBut({})'
    BY <2>1, <2>3, <2>4 DEF SetOnly, LowBut, Low
  <2>8. OfficialInv'
    BY <1>0, <1>5, <2>1, <2>2, <2>4, <2>7 DEF OfficialInv
  <2> QED BY <2>5, <2>6, <2>8 DEF OneInv
<1>6. ASSUME WordsKept, LoopsKept, UNCHANGED <<n, has, started, indexes, dsp>>,
             \/ pc = "ringDesc" /\ pc' \in {"ringIndex", "enable"} /\ ring' = 1 - ring
             \/ pc \in {"enable", "observe"} /\ pc' \in {"observe", "cleanup"} /\ UNCHANGED ring
      PROVE  OneInv'
  <2>1. /\ n \in 1 .. 7 /\ started /\ toWrite \subseteq Dsp0Words
        /\ linked => LowBut({}) /\ dmaCtl = COLD_RESET /\ SetOnly(Dsp0Words)
    BY <1>0, <1>6 DEF OfficialInv
  <2>2. ring' \in RINGS
    BY <1>0, <1>6 DEF RINGS
  <2>3. TypeInv'
    BY <1>0, <1>6, ByIdle DEF TypeInv, WordsKept, LoopsKept
  <2>4. CardInv'
    BY <1>0, <1>6, Kept DEF CardInv, WordsKept
  <2>5. OfficialInv'
    BY <1>0, <1>6, <2>1, <2>2, Kept DEF OfficialInv, SetOnly, LowBut, Low, LoopsKept
  <2> QED BY <2>3, <2>4, <2>5 DEF OneInv
<1>7. ASSUME pc = "cleanup", WordsKept, UNCHANGED <<n, has, started, indexes, dsp, ring>>,
             IF started THEN /\ pc' = "cClear" /\ toWrite' = Dsp0Words
                             /\ toClear' \in SUBSET RingIds
                        ELSE pc' = "cVfioReset" /\ LoopsKept
      PROVE  OneInv'
  <2>1. n \in 1 .. 7
    BY <1>0, <1>7 DEF OfficialInv
  <2>2. CASE started
    <3>1. linked => LowBut({}) /\ dmaCtl = COLD_RESET /\ SetOnly(Dsp0Words)
      BY <1>0, <1>7, <2>2 DEF OfficialInv
    <3>2. TypeInv'
      BY <1>0, <1>7, <2>2, ByIdle, Slots DEF TypeInv, WordsKept
    <3>3. CardInv'
      BY <1>0, <1>7, <2>2, Kept DEF CardInv, WordsKept
    <3>4. OfficialInv'
      BY <1>0, <1>7, <2>1, <2>2, <3>1, Kept DEF OfficialInv, SetOnly, LowBut, Low
    <3> QED BY <3>2, <3>3, <3>4 DEF OneInv
  <2>3. CASE ~ started
    <3>2. TypeInv'
      BY <1>0, <1>7, <2>3, ByIdle DEF TypeInv, WordsKept, LoopsKept
    <3>3. CardInv'
      BY <1>0, <1>7, <2>3, Kept DEF CardInv, WordsKept
    <3>4. OfficialInv'
      BY <1>0, <1>7, <2>1, <2>3 DEF OfficialInv, LoopsKept
    <3> QED BY <3>2, <3>3, <3>4 DEF OneInv
  <2> QED BY <2>2, <2>3
<1>8. ASSUME pc = "cClear", pc' = "cClear", UNCHANGED toClear,
             \E s \in toWrite : WriteDesc(s, 0) /\ toWrite' = toWrite \ {s},
             UNCHANGED <<n, has, started, indexes, dsp, ring>>
      PROVE  OneInv'
  <2>1. PICK s \in toWrite : WriteDesc(s, 0) /\ toWrite' = toWrite \ {s}
    BY <1>8
  <2>2. /\ n \in 1 .. 7 /\ started /\ toWrite \subseteq Dsp0Words
        /\ linked => LowBut({}) /\ dmaCtl = COLD_RESET /\ SetOnly(toWrite)
    BY <1>0, <1>8, <2>1 DEF OfficialInv
  <2>3. s \in DescSlots /\ s \in Dsp0Words /\ 0 \in 0 .. MaxGen
    BY <2>2, Slots, CardAssumption
  <2>4. /\ CardTypes' /\ UNCHANGED <<dmaCtl, idx, linked>>
        /\ linked => desc'[s] = 0 /\ \A t \in DescSlots \ {s} : desc'[t] = desc[t]
    BY <1>0, <2>1, <2>3, ByDesc
  <2>5. TypeInv'
    BY <1>0, <1>8, <2>1, <2>4 DEF TypeInv
  <2>6. CardInv'
    BY <1>0, <1>8, <2>2, <2>4, FourWords DEF CardInv
  <2>7. linked' => SetOnly(toWrite)' /\ LowBut({})'
    BY <2>1, <2>2, <2>3, <2>4 DEF SetOnly, LowBut, Low
  <2>8. OfficialInv'
    BY <1>0, <1>8, <2>1, <2>2, <2>4, <2>7 DEF OfficialInv
  <2> QED BY <2>5, <2>6, <2>8 DEF OneInv
<1>9. ASSUME pc = "cClear", pc' = "cClear", UNCHANGED toWrite,
             \E x \in toClear : WriteIndexes(x, 0) /\ toClear' = toClear \ {x},
             UNCHANGED <<n, has, started, indexes, dsp, ring>>
      PROVE  OneInv'
  <2>1. PICK x \in toClear : WriteIndexes(x, 0) /\ toClear' = toClear \ {x}
    BY <1>9
  <2>2. /\ n \in 1 .. 7 /\ started /\ toWrite \subseteq Dsp0Words
        /\ linked => LowBut({}) /\ dmaCtl = COLD_RESET /\ SetOnly(toWrite)
    BY <1>0, <1>9, <2>1 DEF OfficialInv
  <2>3. x \in RingIds /\ UNCHANGED <<dmaCtl, desc, linked>>
    BY <1>0, <2>1 DEF TypeInv, WriteIndexes
  <2>4. idx' = IF linked THEN [idx EXCEPT ![x].bell = 0, ![x].write = 0] ELSE idx
    BY <2>1 DEF WriteIndexes
  <2>5. /\ CardTypes'
        /\ linked => /\ \A y \in RingIds \ {x} : idx'[y] = idx[y]
                     /\ idx'[x].bell = 0 /\ idx'[x].write = 0 /\ idx'[x].read = idx[x].read
    <3>1. 0 \in {0, 1}
      OBVIOUS
    <3> QED BY <1>0, <2>3, <2>4, <3>1, ByIndex, Zenon
  <2>6. TypeInv'
    BY <1>0, <1>9, <2>1, <2>5 DEF TypeInv
  <2>7. CardInv'
    BY <1>0, <1>9, <2>3 DEF CardInv, WholeFive
  <2>8. linked' => LowBut({})' /\ SetOnly(toWrite)'
    BY <1>9, <2>2, <2>3, <2>5 DEF LowBut, Low, SetOnly
  <2>9. OfficialInv'
    BY <1>0, <1>9, <2>2, <2>3, <2>8 DEF OfficialInv
  <2> QED BY <2>6, <2>7, <2>9 DEF OneInv
<1>10. ASSUME pc = "cClear", pc' = "cVfioReset", toWrite = {},
              WordsKept, LoopsKept, UNCHANGED <<n, has, started, indexes, dsp, ring>>
       PROVE  OneInv'
  <2>1. n \in 1 .. 7
    BY <1>0, <1>10 DEF OfficialInv
  <2>2. linked /\ started => Off /\ Blank /\ LowBut({})
    BY <1>0, <1>10 DEF OfficialInv, SetOnly, Blank, Off
  <2>3. TypeInv'
    BY <1>0, <1>10, ByIdle DEF TypeInv, WordsKept, LoopsKept
  <2>4. CardInv'
    BY <1>0, <1>10, <2>2, Kept DEF CardInv, LowBut, Low
  <2>5. OfficialInv'
    BY <1>0, <1>10, <2>1 DEF OfficialInv, LoopsKept
  <2> QED BY <2>3, <2>4, <2>5 DEF OneInv
<1>11. ASSUME ResetStep \/ CloseStep(7, "exit") \/ GoneStep("killed"),
              UNCHANGED <<indexes, dsp, ring>>
       PROVE  OneInv'
  <2>1. /\ \/ pc \in {"cVfioReset", "cRecovered", "release"}
              /\ pc' \in {"cRecovered", "release", "exit"} /\ (n \in 1 .. 7 => n' \in 1 .. 7)
           \/ pc \notin Stopped /\ pc' = "killed"
        /\ LoopsKept /\ UNCHANGED started /\ (KernelCloses \/ WordsKept)
    BY <1>11 DEF ResetStep, CloseStep, GoneStep
  <2>2. TypeInv'
    BY <1>0, <2>1, ByClose DEF TypeInv, LoopsKept, Stopped
  <2>3. CardInv'
    BY <1>0, <2>1, CloseCard
  <2>4. OfficialInv'
    BY <1>0, <1>11, <2>1 DEF OfficialInv, LoopsKept
  <2> QED BY <2>2, <2>3, <2>4 DEF OneInv
<1>12. ASSUME IdleStep, UNCHANGED <<indexes, dsp, ring>> PROVE OneInv'
  <2>1. UNCHANGED <<dmaCtl, desc, idx, pc, n, has, started>> /\ LoopsKept
        /\ (linked' => linked)
    BY <1>12 DEF IdleStep
  <2>2. TypeInv'
    BY <1>0, <2>1, ByIdle DEF TypeInv, LoopsKept
  <2>3. CardInv'
    BY <1>0, <2>1, IdleCard
  <2>4. OfficialInv'
    BY <1>0, <1>12, <2>1 DEF OfficialInv, SetOnly, LowBut, Low, LoopsKept, Blank, AllZero, Zero
  <2> QED BY <2>2, <2>3, <2>4 DEF OneInv
<1>13. CASE /\ pc = "cClear" /\ pc' = "cClear" /\ UNCHANGED toClear
            /\ \E s \in toWrite : WriteDesc(s, 0) /\ toWrite' = toWrite \ {s}
            /\ UNCHANGED <<n, has, started, indexes, dsp, ring>>
  BY <1>8, <1>13
<1>14. CASE /\ pc = "cClear" /\ pc' = "cClear" /\ UNCHANGED toWrite
            /\ \E x \in toClear : WriteIndexes(x, 0) /\ toClear' = toClear \ {x}
            /\ UNCHANGED <<n, has, started, indexes, dsp, ring>>
  BY <1>9, <1>14
<1>15. CASE /\ pc = "ringDesc" /\ pc' = "ringDesc"
            /\ \E s \in toWrite : WriteDesc(s, run) /\ toWrite' = toWrite \ {s}
            /\ UNCHANGED <<n, has, toClear, started, indexes, dsp, ring>>
  BY <1>5, <1>15
<1> QED
  BY <1>1, <1>2, <1>3, <1>4, <1>6, <1>7, <1>10, <1>11, <1>12, <1>13, <1>14, <1>15 DEF OfficialStep

----------------------------------------------------------------------------
(* A step of the ring control tool, or of a tool that writes no register,  *)
(* keeps the invariant.                                                    *)

LEMMA ByTarget ==
  ASSUME CardTypes, target \in {"bell", "write"}, NEW v \in {0, 1}, linked,
         idx' = [idx EXCEPT ![Cmd0][target] = v], UNCHANGED <<dmaCtl, desc, linked>>
  PROVE  /\ CardTypes'
         /\ \A y \in RingIds \ {Cmd0} : idx'[y] = idx[y]
         /\ idx'[Cmd0].bell = (IF target = "bell" THEN v ELSE idx[Cmd0].bell)
         /\ idx'[Cmd0].write = (IF target = "write" THEN v ELSE idx[Cmd0].write)
<1>0. Cmd0 \in RingIds /\ v \in 0 .. Entries
  BY Cmds, CardAssumption
<1>1. idx[Cmd0] \in [bell : 0 .. Entries, write : 0 .. Entries, read : 0 .. Entries]
  BY <1>0, IdxTyped DEF CardTypes
<1> DEFINE e == [idx[Cmd0] EXCEPT ![target] = v]
<1>2. idx' = [idx EXCEPT ![Cmd0] = e]
  BY <1>0 DEF CardTypes, IdxOK
<1>3. CASE target = "bell"
  <2>1. e = [idx[Cmd0] EXCEPT !.bell = v]
    BY <1>3
  <2>2. /\ e \in IdxWord /\ e.bell = v /\ e.write = idx[Cmd0].write
    BY <1>0, <1>1, <2>1 DEF IdxWord
  <2> HIDE DEF e
  <2> QED BY <1>0, <1>2, <1>3, <2>2 DEF CardTypes, IdxOK
<1>4. CASE target = "write"
  <2>1. e = [idx[Cmd0] EXCEPT !.write = v]
    BY <1>4
  <2>2. /\ e \in IdxWord /\ e.write = v /\ e.bell = idx[Cmd0].bell
    BY <1>0, <1>1, <2>1 DEF IdxWord
  <2> HIDE DEF e
  <2> QED BY <1>0, <1>2, <1>4, <2>2 DEF CardTypes, IdxOK
<1> QED BY <1>3, <1>4

ProbeInv == TypeInv /\ CardInv /\ ControlInv

LEMMA ControlNext ==
  ASSUME ProbeInv, tool = "control", RingControlStep PROVE ProbeInv'
<1>0. /\ TypeInv /\ CardInv /\ ControlInv /\ CardTypes
      /\ UNCHANGED <<tool, mode, run, target>> /\ tool' = "control" /\ (In001' <=> In001) /\ ~ In001
      /\ target \in {"bell", "write"}
      /\ run \in 0 .. MaxGen /\ tool' \in Dsp0Tools \cup {"official", "control", "recovery", "reader"}
  BY DEF ProbeInv, TypeInv, RingControlStep, In001, ControlInv
<1> USE DEF OverPCs, ControlPCs, WrittenPCs
<1>1. ASSUME DirectOpen("baseline") PROVE ProbeInv'
  <2>1. /\ pc = "setup" /\ pc' \in {"setup", "baseline"} /\ LoopsKept /\ WordsKept
        /\ UNCHANGED started /\ ~ started /\ ~ started' /\ (n \in 1 .. 5 => n' \in 1 .. 5)
    BY <1>0, <1>1 DEF DirectOpen, ControlInv
  <2>2. TypeInv'
    BY <1>0, <2>1, ByIdle DEF TypeInv, WordsKept, LoopsKept
  <2>3. CardInv'
    BY <1>0, <2>1, Kept DEF CardInv, WordsKept
  <2>4. ControlInv'
    BY <1>0, <2>1 DEF ControlInv
  <2> QED BY <2>2, <2>3, <2>4 DEF ProbeInv
<1>2. ASSUME NEW p, NEW q, DirectLook(p, q),
             \/ p = "baseline" /\ q = "writeOne" /\ AllRingWordsZero /\ dmaCtl = COLD_RESET
             \/ p = "afterWrite" /\ q = "afterWait"
             \/ p = "afterWait" /\ q = "writeZero"
             \/ p = "afterRestore" /\ q = "reset"
             \/ p = "recovered" /\ q = "release"
      PROVE  ProbeInv'
  <2>1. /\ pc = p /\ pc' = q /\ WordsKept /\ LoopsKept /\ UNCHANGED <<n, started>>
        /\ pc # "killed" /\ (pc' \in OverPCs => pc \in OverPCs)
    BY <1>2 DEF DirectLook
  <2>2. TypeInv'
    BY <1>0, <1>2, <2>1, ByIdle DEF TypeInv, WordsKept, LoopsKept
  <2>3. CardInv'
    BY <1>0, <2>1, Kept DEF CardInv, WordsKept, LowBut, Low
  <2>4. pc' = "writeOne" => Blank /\ LowBut({}) /\ LowBut({Cmd0}) /\ OtherWord /\ dmaCtl = COLD_RESET
    <3>1. pc' = "writeOne" => Blank /\ AllZero /\ dmaCtl = COLD_RESET
      BY <1>2, <2>1 DEF AllRingWordsZero, Blank, AllZero, Zero
    <3>2. AllZero => LowBut({}) /\ LowBut({Cmd0}) /\ OtherWord
      BY LowFacts, Cmds DEF OtherWord, AllZero, Zero
    <3> QED BY <3>1, <3>2
  <2>5. OtherWord' <=> OtherWord
    BY <1>0, <2>1 DEF OtherWord, WordsKept
  <2>6. ControlInv'
    BY <1>0, <1>2, <2>1, <2>4, <2>5, Kept DEF ControlInv, LowBut, Low
  <2> QED BY <2>2, <2>3, <2>6 DEF ProbeInv
<1>3. ASSUME TargetStep("writeOne", 1, "afterWrite") PROVE ProbeInv'
  <2>1. /\ pc = "writeOne" /\ pc' = "afterWrite" /\ started' /\ LoopsKept
        /\ UNCHANGED <<dmaCtl, desc, linked, n, has>>
        /\ idx' = IF linked THEN [idx EXCEPT ![Cmd0][target] = 1] ELSE idx
    BY <1>3 DEF TargetStep
  <2>2. n \in 1 .. 5 /\ (linked => dmaCtl = COLD_RESET /\ Blank /\ LowBut({Cmd0}) /\ OtherWord)
    BY <1>0, <2>1 DEF ControlInv
  <2>3. CASE linked
    <3>1. /\ CardTypes'
          /\ \A y \in RingIds \ {Cmd0} : idx'[y] = idx[y]
          /\ idx'[Cmd0].bell = (IF target = "bell" THEN 1 ELSE idx[Cmd0].bell)
          /\ idx'[Cmd0].write = (IF target = "write" THEN 1 ELSE idx[Cmd0].write)
      <4>1. idx' = [idx EXCEPT ![Cmd0][target] = 1] /\ 1 \in {0, 1}
        BY <2>1, <2>3
      <4> QED BY <1>0, <2>1, <2>3, <4>1, ByTarget, Zenon
    <3>2. LowBut({Cmd0})' /\ OtherWord' /\ Blank'
      BY <1>0, <2>1, <2>2, <2>3, <3>1 DEF LowBut, Low, OtherWord, Blank
    <3>3. TypeInv'
      BY <1>0, <2>1, <3>1 DEF TypeInv, LoopsKept
    <3>4. CardInv'
      BY <2>1, <2>2, <2>3, FourWords DEF CardInv
    <3>5. ControlInv'
      BY <1>0, <2>1, <2>2, <2>3, <3>2 DEF ControlInv
    <3> QED BY <3>3, <3>4, <3>5 DEF ProbeInv
  <2>4. CASE ~ linked
    <3>1. TypeInv'
      BY <1>0, <2>1, <2>4, ByIdle DEF TypeInv, LoopsKept
    <3>2. CardInv' /\ ControlInv'
      BY <1>0, <2>1, <2>2, <2>4 DEF CardInv, ControlInv
    <3> QED BY <3>1, <3>2 DEF ProbeInv
  <2> QED BY <2>3, <2>4
<1>4. ASSUME TargetStep("writeZero", 0, "afterRestore") PROVE ProbeInv'
  <2>1. /\ pc = "writeZero" /\ pc' = "afterRestore" /\ started' /\ LoopsKept
        /\ UNCHANGED <<dmaCtl, desc, linked, n, has>>
        /\ idx' = IF linked THEN [idx EXCEPT ![Cmd0][target] = 0] ELSE idx
    BY <1>4 DEF TargetStep
  <2>2. n \in 1 .. 5 /\ (linked => dmaCtl = COLD_RESET /\ Blank /\ LowBut({Cmd0}) /\ OtherWord)
    BY <1>0, <2>1 DEF ControlInv
  <2>3. CASE linked
    <3>1. /\ CardTypes'
          /\ \A y \in RingIds \ {Cmd0} : idx'[y] = idx[y]
          /\ idx'[Cmd0].bell = (IF target = "bell" THEN 0 ELSE idx[Cmd0].bell)
          /\ idx'[Cmd0].write = (IF target = "write" THEN 0 ELSE idx[Cmd0].write)
      <4>1. idx' = [idx EXCEPT ![Cmd0][target] = 0] /\ 0 \in {0, 1}
        BY <2>1, <2>3
      <4> QED BY <1>0, <2>1, <2>3, <4>1, ByTarget, Zenon
    <3>2. LowBut({})' /\ Blank' /\ Off'
      BY <1>0, <2>1, <2>2, <2>3, <3>1 DEF LowBut, Low, OtherWord, Blank, Off
    <3>3. TypeInv'
      BY <1>0, <2>1, <3>1 DEF TypeInv, LoopsKept
    <3>4. CardInv'
      BY <2>1, <2>2, <2>3, <3>2, FourWords DEF CardInv
    <3>5. ControlInv'
      BY <1>0, <2>1, <2>2 DEF ControlInv
    <3> QED BY <3>3, <3>4, <3>5 DEF ProbeInv
  <2>4. CASE ~ linked
    <3>1. TypeInv'
      BY <1>0, <2>1, <2>4, ByIdle DEF TypeInv, LoopsKept
    <3>2. CardInv' /\ ControlInv'
      BY <1>0, <2>1, <2>2, <2>4 DEF CardInv, ControlInv
    <3> QED BY <3>1, <3>2 DEF ProbeInv
  <2> QED BY <2>3, <2>4
<1>5. ASSUME LoopsKept, UNCHANGED started, KernelCloses \/ WordsKept,
             \/ pc = "reset" /\ pc' = "recovered" /\ n' = n
             \/ pc \in {"setup", "baseline", "reset"} /\ pc' = "exit" /\ n' = 1
             \/ pc = "release" /\ pc' \in {"release", "exit"} /\ (n \in 1 .. 5 => n' \in 1 .. 5)
             \/ pc \notin Stopped /\ pc' = "killed"
      PROVE  ProbeInv'
  <2>1. TypeInv'
    BY <1>0, <1>5, ByClose DEF TypeInv, LoopsKept, Stopped
  <2>2. started /\ pc' \in OverPCs => pc \in OverPCs
    BY <1>0, <1>5 DEF ControlInv
  <2>3. CardInv'
    BY <1>0, <1>5, <2>2, CloseCard
  <2>4. ControlInv'
    BY <1>0, <1>5 DEF ControlInv
  <2> QED BY <2>1, <2>3, <2>4 DEF ProbeInv
<1>6. ASSUME \/ /\ pc = "reset" /\ pc' = "recovered" /\ KernelCloses /\ LoopsKept
                /\ UNCHANGED <<n, has, started, modified>>
             \/ pc \in {"setup", "baseline", "reset"} /\ GoneStep("exit")
             \/ CloseStep(5, "exit") \/ GoneStep("killed")
      PROVE  ProbeInv'
  <2>1. LoopsKept /\ UNCHANGED started /\ (KernelCloses \/ WordsKept)
    BY <1>6 DEF GoneStep, CloseStep
  <2>2. \/ pc = "reset" /\ pc' = "recovered" /\ n' = n
        \/ pc \in {"setup", "baseline", "reset"} /\ pc' = "exit" /\ n' = 1
        \/ pc = "release" /\ pc' \in {"release", "exit"} /\ (n \in 1 .. 5 => n' \in 1 .. 5)
        \/ pc \notin Stopped /\ pc' = "killed"
    BY <1>6 DEF GoneStep, CloseStep
  <2> QED BY <1>5, <2>1, <2>2
<1>7. ASSUME IdleStep PROVE ProbeInv'
  <2>1. UNCHANGED <<dmaCtl, desc, idx, pc, n, has, started>> /\ LoopsKept
        /\ (linked' => linked)
    BY <1>7 DEF IdleStep
  <2>2. TypeInv'
    BY <1>0, <2>1, ByIdle DEF TypeInv, LoopsKept
  <2>3. CardInv'
    BY <1>0, <2>1, IdleCard
  <2>4. OtherWord' <=> OtherWord
    BY <1>0, <2>1 DEF OtherWord
  <2>5. ControlInv'
    BY <1>0, <2>1, <2>4 DEF ControlInv, LowBut, Low, Blank
  <2> QED BY <2>2, <2>3, <2>5 DEF ProbeInv
<1> QED BY <1>1, <1>2, <1>3, <1>4, <1>6, <1>7 DEF RingControlStep

QuietInv == TypeInv /\ CardInv /\ ReaderInv

LEMMA ReaderNext ==
  ASSUME QuietInv, \/ tool = "recovery" /\ RecoveryStep
                   \/ tool = "reader" /\ ReaderStep
  PROVE  QuietInv'
<1>0. /\ TypeInv /\ CardInv /\ ReaderInv /\ CardTypes
      /\ UNCHANGED <<tool, mode, run, kind>> /\ tool \in {"recovery", "reader"}
      /\ (In001' <=> In001) /\ ~ started
      /\ run \in 0 .. MaxGen /\ tool' \in Dsp0Tools \cup {"official", "control", "recovery", "reader"}
  BY DEF QuietInv, TypeInv, RecoveryStep, ReaderStep, In001, ReaderInv
<1>1. /\ LoopsKept /\ UNCHANGED started /\ (KernelCloses \/ WordsKept \/ IdleStep)
      /\ (pc = "idle" => pc' = "idle") /\ (pc' = "idle" => pc = "idle")
  BY DEF RecoveryStep, ReaderStep, GoneStep, CloseStep, IdleStep, DirectOpen, DirectLook, Stopped
<1>2. CardTypes'
  BY <1>0, <1>1, ByClose, ByIdle DEF IdleStep
<1>3. TypeInv'
  BY <1>0, <1>1, <1>2 DEF TypeInv, LoopsKept
<1>4. CardInv'
  <2>1. CASE IdleStep
    BY <1>0, <2>1, IdleCard DEF IdleStep
  <2>2. CASE KernelCloses \/ WordsKept
    BY <1>0, <1>1, <2>2, CloseCard
  <2> QED BY <1>1, <2>1, <2>2
<1>5. ASSUME tool = "recovery", RecoveryStep PROVE ReaderInv'
  <2>1. pc \in {"setup", "baseline", "reset", "recovery", "release", "exit", "killed"}
        /\ (pc # "killed" => n \in 1 .. 5)
    BY <1>0, <1>5 DEF ReaderInv
  <2>2. pc' \in {"setup", "baseline", "reset", "recovery", "release", "exit", "killed"}
        /\ (pc' # "killed" => n' \in 1 .. 5)
    BY <1>5, <2>1 DEF RecoveryStep, GoneStep, CloseStep, IdleStep, DirectOpen, DirectLook
  <2> QED BY <1>0, <1>1, <1>5, <2>2 DEF ReaderInv
<1>6. ASSUME tool = "reader", ReaderStep PROVE ReaderInv'
  <2>1. pc \in {"setup", "read", "canary", "unmap", "release", "exit", "killed"}
        /\ (pc # "killed" => n \in 1 .. 5)
        /\ (kind = "map" /\ pc \notin {"setup", "killed"} => n \in 1 .. 4)
    BY <1>0, <1>6 DEF ReaderInv
  <2>2. pc' \in {"setup", "read", "canary", "unmap", "release", "exit", "killed"}
        /\ (pc' # "killed" => n' \in 1 .. 5)
        /\ (kind = "map" /\ pc' \notin {"setup", "killed"} => n' \in 1 .. 4)
    BY <1>6, <2>1 DEF ReaderStep, GoneStep, CloseStep, IdleStep, DirectOpen, DirectLook
  <2> QED BY <1>0, <1>1, <1>6, <2>2 DEF ReaderInv
<1> QED BY <1>3, <1>4, <1>5, <1>6 DEF QuietInv

----------------------------------------------------------------------------
(* The answer that the query tool reports.                                 *)

EarlyPCs == {"setup", "baseline", "publish", "postCommand", "poll"} \cup PublishedPCs
              \cup EnablingPCs
AfterPCs == {"cleanup"} \cup RestorePCs \cup ExitPCs

\* A step that leaves the answer and the positions alone.
LEMMA AnswerKept ==
  ASSUME tool = "query", AnswerInv, UNCHANGED <<tool, poll, buf, resp, cmdDone, respDone>>,
         success' => success,
         pc' \in {"postCommand", "poll"} =>
           /\ pc' = pc
           /\ linked' => linked /\ idx'[Resp0] = idx[Resp0],
         pc' \in EarlyPCs => pc \in EarlyPCs,
         pc' \in {"copy", "judge"} => pc' = pc /\ n' = n,
         pc \in AfterPCs => pc' \in AfterPCs
  PROVE  AnswerInv'
<1>1. (Answered' <=> Answered) /\ (Full' <=> Full)
  BY DEF Answered, Full
<1>2. (pc' \in {"setup", "baseline", "publish", "postCommand", "poll"} \cup PublishedPCs
               \cup EnablingPCs => ~ Answered')
  BY <1>1 DEF AnswerInv, EarlyPCs
<1>3. success' => pc' \in {"cleanup"} \cup RestorePCs \cup ExitPCs
                  /\ poll' < Polls /\ resp' = buf' /\ Full'
  BY <1>1 DEF AnswerInv, AfterPCs
<1>4. pc' \in {"postCommand", "poll"} /\ linked' =>
         /\ idx'[Resp0].bell = 1
         /\ idx'[Resp0].read = 0 \/ (idx'[Resp0].read = 1 /\ Full')
  BY <1>1 DEF AnswerInv
<1>5. /\ pc' \in {"copy", "judge"} /\ Answered' => poll' < Polls /\ Full'
      /\ pc' = "copy" /\ Answered' => \A w \in 1 .. n' - 1 : resp'[w] = buf'[w]
      /\ pc' = "judge" /\ Answered' => resp' = buf'
  BY <1>1 DEF AnswerInv
<1>6. buf' \in [Words -> WordKinds] /\ resp' \in [Words -> WordKinds]
  BY DEF AnswerInv
<1> QED BY <1>2, <1>3, <1>4, <1>5, <1>6 DEF AnswerInv

\* A step that leaves them alone before the answer is awaited or after it.
LEMMA AnswerApart ==
  ASSUME tool = "query", AnswerInv, UNCHANGED <<tool, poll, buf, resp, cmdDone, respDone>>,
         success' => success,
         \/ pc \in EarlyPCs /\ pc' \in (EarlyPCs \ {"postCommand", "poll"}) \cup {"cleanup"}
         \/ pc \in AfterPCs /\ pc' \in AfterPCs
         \/ pc' = "killed"
  PROVE  AnswerInv'
<1> USE DEF EarlyPCs, AfterPCs, PublishedPCs, EnablingPCs, JustEnabled, RestorePCs, ExitPCs
<1>1. /\ pc' \notin {"postCommand", "poll", "copy", "judge"}
      /\ pc' \in EarlyPCs => pc \in EarlyPCs
      /\ pc \in AfterPCs => pc' \in AfterPCs
  OBVIOUS
<1> QED BY <1>1, AnswerKept

\* The response ring between the offer and the end of the poll loop.
LEMMA OneAnswer ==
  ASSUME TypeInv, AnswerInv, tool = "query", pc = "poll", linked,
         idx[Resp0].read = 1
  PROVE  Full /\ buf[1] # "canary"
<1>1. Full
  BY DEF AnswerInv
<1>2. 1 \in Words
  BY ExchangeAssumption DEF Words
<1> QED BY <1>1, <1>2 DEF Full

LEMMA QueryAnswers ==
  ASSUME TypeInv, Dsp0Stage, Dsp0Card, AnswerInv, tool = "query", UNCHANGED tool,
         Query!Main \/ Query!Environment
  PROVE  AnswerInv'
<1> USE QueryNames
<1>0. CardTypes /\ tool \in Dsp0Tools /\ Resp0 \in RingIds /\ Cmd0 \in RingIds /\ Cmd0 # Resp0
  BY Cmds DEF TypeInv, Dsp0Tools
<1> DEFINE Kept5 == UNCHANGED <<poll, buf, resp, cmdDone, respDone>>
<1>1. ASSUME Query!Setup \/ Query!Baseline \/ Query!Publish \/ Query!EnableEngine \/ Query!ArmGates
      PROVE  AnswerInv'
  <2>1. Kept5
    BY <1>1 DEF Query!Setup, Query!Baseline, Query!Publish, Query!EnableEngine, Query!ArmGates,
       Query!exchangeVars
  <2>2. /\ UNCHANGED success /\ pc \in EarlyPCs
        /\ pc' \in (EarlyPCs \ {"postCommand", "poll"}) \cup {"cleanup"}
    <3> USE DEF EarlyPCs, PublishedPCs, EnablingPCs, JustEnabled, Query!flagVars, Query!Goto
    <3>1. CASE Query!Setup
      BY <3>1 DEF Query!Setup, Query!Acquire, Query!AcquireFails
    <3>2. CASE Query!Baseline
      BY <3>2 DEF Query!Baseline
    <3>3. CASE Query!Publish
      BY <3>3 DEF Query!Publish, Query!PublishWord, Query!Published
    <3>4. CASE Query!EnableEngine
      BY <3>4 DEF Query!EnableEngine, Query!EnableDsp0, Query!WriteControl, Query!CheckControl,
         Query!Check, Query!Refuse
    <3>5. CASE Query!ArmGates
      BY <3>5 DEF Query!ArmGates, Query!Check, Query!Refuse
    <3> QED BY <1>1, <3>1, <3>2, <3>3, <3>4, <3>5
  <2> QED BY <2>1, <2>2, AnswerApart
<1>2. ASSUME Query!Cleanup \/ Query!DeviceReset \/ Query!ReleaseAll \/ Query!Report
      PROVE  AnswerInv'
  <2>1. Kept5
    BY <1>2 DEF Query!Cleanup, Query!DeviceReset, Query!ReleaseAll, Query!Report, Query!ReportThen,
       Query!exchangeVars
  <2>2. success' => success
    <3>1. CASE Query!Cleanup
      BY <3>1, Zenon DEF Query!Cleanup, Query!RestoreControl, Query!RestoreGates, Query!ClearEnter,
         Query!ClearWords, Query!ClearControl, Query!ClearDescriptor, Query!ClearDone, Query!flagVars
    <3>2. CASE Query!DeviceReset
      BY <3>2, Zenon DEF Query!DeviceReset, Query!VfioReset, Query!VfioRecovered
    <3>3. CASE Query!ReleaseAll
      BY <3>3, Zenon DEF Query!ReleaseAll, Query!Release
    <3>4. CASE Query!Report
      BY <3>4 DEF Query!Report, Query!ReportThen, Query!flagVars
    <3> QED BY <1>2, <3>1, <3>2, <3>3, <3>4
  <2>3. pc \in AfterPCs /\ pc' \in AfterPCs
    <3> USE DEF AfterPCs, RestorePCs, ExitPCs, Query!Goto
    <3>1. CASE Query!Cleanup
      BY <3>1 DEF Query!Cleanup, Query!RestoreControl, Query!RestoreGates, Query!ClearEnter,
         Query!ClearWords, Query!ClearControl, Query!ClearDescriptor, Query!ClearDone
    <3>2. CASE Query!DeviceReset
      BY <3>2 DEF Query!DeviceReset, Query!VfioReset, Query!VfioRecovered
    <3>3. CASE Query!ReleaseAll
      BY <3>3 DEF Query!ReleaseAll, Query!Release
    <3>4. CASE Query!Report
      BY <3>4 DEF Query!Report, Query!ReportThen
    <3> QED BY <1>2, <3>1, <3>2, <3>3, <3>4
  <2> QED BY <2>1, <2>2, <2>3, AnswerApart
<1>3. ASSUME NEW p, NEW x \in {Cmd0, Resp0}, NEW q, Query!Offer(p, x, q),
             \/ p = "postResponse" /\ x = Resp0 /\ q = "postCommand"
             \/ p = "postCommand" /\ x = Cmd0 /\ q = "poll"
      PROVE  AnswerInv'
  <2>1. /\ pc = p /\ pc' = q /\ UNCHANGED <<dmaCtl, desc, linked, success>> /\ Kept5
        /\ idx' = IF linked THEN [idx EXCEPT ![x].bell = 1, ![x].write = 1] ELSE idx
    BY <1>3 DEF Query!Offer, Query!Goto, Query!Doorbell, Query!WriteIndexes, Query!flagVars,
       Query!exchangeVars
  <2>2. linked => /\ \A y \in RingIds \ {x} : idx'[y] = idx[y]
                  /\ idx'[x].bell = 1 /\ idx'[x].write = 1 /\ idx'[x].read = idx[x].read
    <3>1. 1 \in {0, 1} /\ x \in RingIds
      BY <1>0
    <3>2. idx' = IF linked THEN [idx EXCEPT ![x].bell = 1, ![x].write = 1] ELSE idx
      BY <2>1
    <3> QED BY <1>0, <2>1, <3>1, <3>2, ByIndex, Zenon
  <2>3. /\ pc \in EarlyPCs /\ pc' \notin {"copy", "judge"} /\ ~ Answered /\ ~ success
    BY <1>3, <2>1 DEF EarlyPCs, AnswerInv, PublishedPCs, EnablingPCs, JustEnabled, RestorePCs, ExitPCs
  <2>4. linked => idx'[Resp0].bell = 1 /\ (idx'[Resp0].read = 0 \/ (idx'[Resp0].read = 1 /\ Full))
    <3>1. CASE p = "postResponse" /\ x = Resp0
      <4>1. linked => Zero(Resp0)
        BY <1>0, <2>1, <3>1 DEF Dsp0Card, EnablingPCs, JustEnabled, AllZero
      <4> QED BY <2>2, <3>1, <4>1 DEF Zero
    <3>2. CASE p = "postCommand" /\ x = Cmd0
      BY <1>0, <2>1, <2>2, <3>2 DEF AnswerInv
    <3> QED BY <1>3, <3>1, <3>2
  <2>5. (Answered' <=> Answered) /\ (Full' <=> Full) /\ ~ success'
    BY <2>1, <2>3 DEF Answered, Full
  <2>6. buf' \in [Words -> WordKinds] /\ resp' \in [Words -> WordKinds]
    BY <2>1 DEF AnswerInv
  <2> QED BY <2>1, <2>3, <2>4, <2>5, <2>6 DEF AnswerInv
<1>4. ASSUME Query!Poll PROVE AnswerInv'
  <2>1. /\ pc = "poll" /\ UNCHANGED <<dmaCtl, desc, idx, linked, success, buf, resp>>
        /\ ~ Answered /\ ~ success /\ 1 \in Words
    BY <1>4, ExchangeAssumption
       DEF Query!Poll, Query!cardVars, Query!flagVars, AnswerInv, RestorePCs, ExitPCs, Words
  <2>2. (Full' <=> Full) /\ ~ success' /\ buf' \in [Words -> WordKinds] /\ resp' \in [Words -> WordKinds]
    BY <2>1 DEF Full, AnswerInv
  <2>3. CASE poll < Polls /\ ~ interrupted
    <3>1. /\ cmdDone' = (ReadIndex(Cmd0) = 1) /\ respDone' = (ReadIndex(Resp0) = 1)
      BY <1>4, <2>3 DEF Query!Poll, Query!ReadIndex, ReadIndex
    <3>2. Answered' => ReadIndex(Cmd0) = 1 /\ ReadIndex(Resp0) = 1
      BY <3>1, Zenon DEF Answered
    <3>3. Answered' => linked /\ idx[Resp0].read = 1
      BY <3>2, BenchAssumption DEF ReadIndex
    <3>4. Answered' => Full /\ buf[1] # "canary"
      BY <2>1, <3>3, OneAnswer
    <3>5. CASE Query!AnswerSeen(1, 1)
      <4>1. pc' = "copy" /\ n' = 1 /\ UNCHANGED poll
        BY <1>4, <2>3, <3>5 DEF Query!Poll, Query!Goto
      <4>2. \A w \in 1 .. n' - 1 : resp'[w] = buf'[w]
        BY <4>1
      <4> QED BY <2>2, <2>3, <3>4, <4>1, <4>2 DEF AnswerInv, PublishedPCs, EnablingPCs, JustEnabled
    <3>6. CASE ~ Query!AnswerSeen(1, 1)
      <4>1. UNCHANGED pc
        BY <1>4, <2>3, <3>6 DEF Query!Poll
      <4>2. ~ Answered'
        BY <3>2, <3>4, <3>6 DEF Query!AnswerSeen, Query!ReadIndex, ReadIndex
      <4> QED BY <2>1, <2>2, <4>1, <4>2 DEF AnswerInv
    <3> QED BY <3>5, <3>6
  <2>4. CASE ~ (poll < Polls /\ ~ interrupted)
    <3>1. pc' = "copy" /\ UNCHANGED <<cmdDone, respDone>>
      BY <1>4, <2>4 DEF Query!Poll, Query!Goto
    <3>2. ~ Answered'
      BY <2>1, <3>1 DEF Answered
    <3> QED BY <2>2, <3>1, <3>2 DEF AnswerInv
  <2> QED BY <2>3, <2>4
<1>5. ASSUME Query!ReadBack PROVE AnswerInv'
  <2>1. /\ pc = "copy" /\ UNCHANGED <<success, poll, buf, cmdDone, respDone>>
        /\ resp' = [resp EXCEPT ![n] = buf[n]]
        /\ \/ pc' = "judge" /\ n = RespWords /\ n' = 1
           \/ pc' = "copy" /\ n # RespWords /\ n' = n + 1
    BY <1>5 DEF Query!ReadBack, Query!CopyWord, Query!Goto, Query!flagVars
  <2>2. n \in 1 .. RespWords /\ ~ success /\ RespWords \in Nat /\ Words = 1 .. RespWords
    BY <1>0, <2>1, ExchangeAssumption DEF Dsp0Stage, Words, AnswerInv, RestorePCs, ExitPCs
  <2>3. (Full' <=> Full) /\ (Answered' <=> Answered) /\ ~ success' /\ buf' \in [Words -> WordKinds]
    BY <2>1, <2>2 DEF Full, Answered, AnswerInv
  <2>4. resp' \in [Words -> WordKinds] /\ resp \in [Words -> WordKinds] /\ buf \in [Words -> WordKinds]
    BY <2>1, <2>2 DEF AnswerInv
  <2>5. Answered => /\ poll < Polls /\ Full /\ \A w \in 1 .. n - 1 : resp[w] = buf[w]
    BY <2>1 DEF AnswerInv
  <2>6. Answered => \A w \in 1 .. n : resp'[w] = buf'[w]
    BY <2>1, <2>2, <2>4, <2>5
  <2>7. CASE pc' = "judge" /\ n = RespWords
    <3>1. Answered => resp' = buf'
      BY <2>2, <2>3, <2>4, <2>6, <2>7
    <3> QED BY <2>1, <2>3, <2>4, <2>5, <2>7, <3>1 DEF AnswerInv, PublishedPCs, EnablingPCs, JustEnabled
  <2>8. CASE pc' = "copy" /\ n' = n + 1
    <3>1. Answered => \A w \in 1 .. n' - 1 : resp'[w] = buf'[w]
      BY <2>2, <2>6, <2>8
    <3> QED BY <2>1, <2>3, <2>4, <2>5, <2>8, <3>1 DEF AnswerInv, PublishedPCs, EnablingPCs, JustEnabled
  <2> QED BY <2>1, <2>7, <2>8
<1>6. ASSUME Query!Judge PROVE AnswerInv'
  <2>1. /\ pc = "judge" /\ pc' = "cleanup" /\ UNCHANGED <<poll, buf, resp, cmdDone, respDone>>
    BY <1>6 DEF Query!Judge, Query!JudgeAs, Query!Goto, Query!exchangeVars
  <2>2. success' => Answered
    BY <1>6, Zenon DEF Query!Judge, Query!JudgeAs, Answered
  <2>3. Answered => poll < Polls /\ Full /\ resp = buf
    BY <2>1 DEF AnswerInv
  <2>4. buf' \in [Words -> WordKinds] /\ resp' \in [Words -> WordKinds] /\ (Full' <=> Full)
    BY <2>1 DEF AnswerInv, Full
  <2> QED BY <2>1, <2>2, <2>3, <2>4 DEF AnswerInv, PublishedPCs, EnablingPCs, JustEnabled
<1>7. ASSUME Query!Disturb PROVE AnswerInv'
  <2>1. Kept5 /\ UNCHANGED success
    BY <1>7 DEF Query!Disturb, Query!exchangeVars, Query!Signal, Query!Kill, Query!flagVars
  <2>2. CASE Query!Kill
    <3>1. pc' = "killed"
      BY <2>2 DEF Query!Kill, Query!Goto
    <3> QED BY <2>1, <3>1, AnswerApart
  <2>3. CASE Query!Signal
    <3>1. UNCHANGED <<pc, n, idx, linked>>
      BY <2>3 DEF Query!Signal, Query!cardVars
    <3> QED BY <2>1, <3>1, AnswerKept
  <2> QED BY <1>7, <2>2, <2>3 DEF Query!Disturb
<1>8. ASSUME Query!Consume PROVE AnswerInv'
  <2>1. Kept5 /\ UNCHANGED <<success, pc, n, linked>>
    BY <1>8 DEF Query!Consume, Query!exchangeVars, Query!sessionVars
  <2>2. PICK d \in DSPS : idx' = [idx EXCEPT ![<<d, 0>>].read = (@ + 1) % Entries]
    BY <1>8 DEF Query!Consume, Query!Advance
  <2>3. <<d, 0>> # Resp0
    BY DEF Resp0
  <2>4. idx'[Resp0] = idx[Resp0]
    BY <1>0, <2>2, <2>3 DEF CardTypes, IdxOK
  <2> QED BY <2>1, <2>4, AnswerKept
<1>9. ASSUME Query!StrayWrite \/ (Query!CardStep /\ UNCHANGED <<Query!sessionVars, Query!exchangeVars>>)
      PROVE  AnswerInv'
  <2>1. Kept5 /\ UNCHANGED <<success, pc, n, idx>> /\ (linked' => linked)
    BY <1>9 DEF Query!StrayWrite, Query!CardStep, Query!ReadyFlip, Query!LinkLoss,
       Query!exchangeVars, Query!sessionVars, Query!cardVars
  <2> QED BY <2>1, AnswerKept
<1>10. ASSUME Query!AnswerWord(1) PROVE AnswerInv'
  <2>1. /\ UNCHANGED <<dmaCtl, desc, idx, linked, pc, n, success, poll, resp, cmdDone, respDone>>
        /\ \E w \in Words, v \in {"expected", "other"} :
             buf[w] = "canary" /\ buf' = [buf EXCEPT ![w] = v]
    BY <1>10 DEF Query!AnswerWord, Query!cardVars, Query!sessionVars
  <2>2. ~ Full
    BY <2>1 DEF Full
  <2>3. buf' \in [Words -> WordKinds] /\ resp' \in [Words -> WordKinds]
    BY <2>1 DEF AnswerInv, WordKinds
  <2>4. Answered' <=> Answered
    BY <2>1 DEF Answered
  <2>5. /\ ~ success /\ (pc \in {"copy", "judge"} => ~ Answered)
        /\ (pc \in {"postCommand", "poll"} /\ linked => idx[Resp0].read = 0 /\ idx[Resp0].bell = 1)
        /\ pc \in {"setup", "baseline", "publish", "postCommand", "poll"} \cup PublishedPCs
               \cup EnablingPCs => ~ Answered
    BY <2>2 DEF AnswerInv
  <2> QED BY <2>1, <2>3, <2>4, <2>5 DEF AnswerInv
<1>11. ASSUME Query!AnswerDone(1) PROVE AnswerInv'
  <2>1. /\ Kept5 /\ UNCHANGED <<dmaCtl, desc, linked, pc, n, success>>
        /\ idx[Resp0].read # idx[Resp0].bell /\ Full
        /\ idx' = [idx EXCEPT ![Resp0].read = (@ + 1) % Entries]
    BY <1>11 DEF Query!AnswerDone, Query!Answering, Query!Advance, Query!exchangeVars,
       Query!sessionVars, Full
  <2>2. CASE pc \in {"postCommand", "poll"} /\ linked
    <3>1. idx[Resp0].bell = 1 /\ idx[Resp0].read = 0
      BY <2>1, <2>2 DEF AnswerInv
    <3> DEFINE r == (idx[Resp0].read + 1) % Entries
    <3>2. r = 1
      BY <3>1, BenchAssumption, CardAssumption
    <3>3. idx' = [idx EXCEPT ![Resp0] = [idx[Resp0] EXCEPT !.read = r]]
      BY <1>0, <2>1 DEF CardTypes, IdxOK
    <3> HIDE DEF r
    <3>4. idx'[Resp0].bell = 1 /\ idx'[Resp0].read = 1
      BY <1>0, <3>1, <3>2, <3>3, IdxTyped DEF CardTypes, IdxOK
    <3>5. (Full' <=> Full) /\ (Answered' <=> Answered)
      BY <2>1 DEF Full, Answered
    <3>6. ~ Answered /\ ~ success
      BY <2>2 DEF AnswerInv, RestorePCs, ExitPCs
    <3>7. buf' \in [Words -> WordKinds] /\ resp' \in [Words -> WordKinds]
      BY <2>1 DEF AnswerInv
    <3> QED BY <2>1, <2>2, <3>4, <3>5, <3>6, <3>7 DEF AnswerInv
  <2>3. CASE ~ (pc \in {"postCommand", "poll"} /\ linked)
    <3>1. linked
      BY <1>11 DEF Query!AnswerDone, Query!Answering, Query!Working, Query!EngineLive
    <3> QED BY <2>1, <2>3, <3>1, AnswerKept
  <2> QED BY <2>2, <2>3
<1>12. CASE Query!Submit
  BY <1>3, <1>12 DEF Query!Submit
<1>13. CASE Query!CardWork(1)
  BY <1>8, <1>9, <1>10, <1>11, <1>13 DEF Query!CardWork
<1> QED
  BY <1>1, <1>2, <1>4, <1>5, <1>6, <1>7, <1>12, <1>13 DEF Query!Main, Query!Environment

----------------------------------------------------------------------------
(* The start of a process, and the induction.                              *)

\* Which tools start where.
StartAt ==
  \/ tool' = "query" /\ pc' \in {"setup", "cleanup", "exit"}
     /\ buf' = Canary /\ resp' = Canary /\ ~ cmdDone'
  \/ tool' = "descriptors" /\ pc' \in {"setup", "cleanup", "exit"}
  \/ tool' = "official" /\ pc' \in {"setup", "cleanup", "exit"}
     /\ indexes' = [r \in RINGS |-> 0]
  \/ tool' = "control" /\ pc' \in {"setup", "exit"} /\ target' \in {"bell", "write"}
  \/ tool' = "recovery" /\ pc' = "setup"
  \/ tool' = "reader" /\ pc' \in {"setup", "exit"}

LEMMA Started ==
  ASSUME Begin PROVE Launch /\ modified' = {} /\ StartAt
<1>1. CASE tool' = "query" /\ Query!Begin
  BY <1>1, QueryNames, QueryShared DEF Query!Begin, Query!ExchangeReset, StartAt
<1>2. CASE tool' = "descriptors" /\ Descriptors!Begin
  BY <1>2, DescriptorsShared DEF Descriptors!Begin, StartAt
<1>3. CASE tool' = "official" /\ Official!Begin /\ NoFlags
  BY <1>3, OfficialNames, OfficialShared DEF Official!Begin, StartAt, NoFlags
<1>4. CASE tool' = "control" /\ Control!Begin /\ NoFlags
  BY <1>4, ControlShared DEF Control!Begin, StartAt, NoFlags
<1>5. CASE tool' = "recovery" /\ Recovery!Begin /\ NoFlags
  BY <1>5, RecoveryShared DEF Recovery!Begin, StartAt, NoFlags
<1>6. CASE tool' = "reader" /\ Reader!Begin /\ NoFlags
  <2>1. pc' \in {"setup", "exit"}
    BY <1>6 DEF Reader!Begin
  <2> QED BY <1>6, <2>1, ReaderShared DEF Reader!Begin, StartAt, NoFlags
<1> QED BY <1>1, <1>2, <1>3, <1>4, <1>5, <1>6 DEF Begin

LEMMA BeginInv ==
  ASSUME BenchInv, Begin PROVE BenchInv'
<1>0. /\ run < MaxGen /\ run' = run + 1 /\ n' = 1 /\ dsp' = 0 /\ ring' = 0
      /\ toWrite' = {} /\ toClear' = {} /\ ~ started' /\ ~ success'
      /\ UNCHANGED <<dmaCtl, desc, idx, linked, has>>
      /\ modified' = {} /\ StartAt
  BY Started DEF Launch, cardVars
<1>1. /\ pc' \in {"setup", "cleanup", "exit"} /\ NoFlag'
      /\ tool' \in {"query", "descriptors", "official", "control", "recovery", "reader"}
  BY <1>0 DEF StartAt, NoFlag, WordFlags
<1>2. TypeInv'
  <2>1. CardTypes'
    BY <1>0, ByIdle DEF BenchInv, TypeInv
  <2>2. run' \in 0 .. MaxGen /\ run' # 0
    BY <1>0, CardAssumption DEF BenchInv, TypeInv
  <2> QED BY <1>0, <1>1, <2>1, <2>2 DEF TypeInv, Dsp0Tools
<1>3. CardInv'
  BY <1>0 DEF BenchInv, CardInv, WholeFive
<1>4. Dsp0Stage'
  BY <1>0, <1>1 DEF Dsp0Stage, Dsp0PCs, PublishedPCs, EnablingPCs, JustEnabled, ObservingPCs,
     RestorePCs, ExitPCs
<1>5. Dsp0Card'
  BY <1>0, <1>1 DEF Dsp0Card, PublishedPCs, EnablingPCs, JustEnabled, ObservingPCs
<1>6. OfficialInv'
  BY <1>0, <1>1 DEF OfficialInv, StartAt, OfficialPCs, InitPCs, RINGS
<1>7. ControlInv'
  BY <1>0, <1>1 DEF ControlInv, StartAt, ControlPCs, WrittenPCs
<1>8. ReaderInv'
  BY <1>0, <1>1 DEF ReaderInv, StartAt
<1>9. AnswerInv'
  <2>1. ASSUME tool' = "query" PROVE buf' = Canary /\ resp' = Canary /\ ~ Answered'
    BY <1>0, <2>1 DEF StartAt, Answered
  <2>2. Canary \in [Words -> WordKinds]
    BY DEF Canary, WordKinds
  <2> QED BY <1>0, <1>1, <2>1, <2>2 DEF AnswerInv
<1> QED BY <1>2, <1>3, <1>4, <1>5, <1>6, <1>7, <1>8, <1>9 DEF BenchInv

LEMMA GoInv ==
  ASSUME BenchInv, Go PROVE BenchInv'
<1>0. /\ TypeInv /\ CardInv /\ Dsp0Stage /\ Dsp0Card /\ OfficialInv /\ ControlInv /\ ReaderInv
      /\ AnswerInv /\ UNCHANGED tool
  BY DEF BenchInv, Go
<1>1. CASE tool = "query" /\ (Query!Main \/ Query!Environment) /\ UNCHANGED NotOfQuery
  <2>1. TypeInv' /\ CardInv' /\ Dsp0Stage' /\ Dsp0Card'
    BY <1>0, <1>1, QuerySteps, Dsp0Next DEF Dsp0Inv, Dsp0Tools
  <2>2. AnswerInv'
    BY <1>0, <1>1, QueryAnswers
  <2> QED BY <1>0, <1>1, <2>1, <2>2 DEF BenchInv, OfficialInv, ControlInv, ReaderInv
<1>2. CASE tool = "descriptors" /\ (Descriptors!Main \/ Descriptors!Environment)
             /\ UNCHANGED NotOfDescriptors
  <2>1. TypeInv' /\ CardInv' /\ Dsp0Stage' /\ Dsp0Card'
    BY <1>0, <1>2, DescriptorsSteps, Dsp0Next DEF Dsp0Inv, Dsp0Tools
  <2> QED BY <1>0, <1>2, <2>1 DEF BenchInv, OfficialInv, ControlInv, ReaderInv, AnswerInv
<1>3. CASE tool = "official" /\ (Official!Main \/ Official!Environment) /\ UNCHANGED NotOfOfficial
  <2>1. TypeInv' /\ CardInv' /\ OfficialInv'
    BY <1>0, <1>3, OfficialSteps, OfficialNext DEF OneInv
  <2> QED BY <1>0, <1>3, <2>1
       DEF BenchInv, Dsp0Stage, Dsp0Card, Dsp0Tools, ControlInv, ReaderInv, AnswerInv
<1>4. CASE tool = "control" /\ (Control!Main \/ Control!Environment) /\ UNCHANGED NotOfControl
  <2>1. TypeInv' /\ CardInv' /\ ControlInv'
    BY <1>0, <1>4, ControlSteps, ControlNext DEF ProbeInv
  <2> QED BY <1>0, <1>4, <2>1
       DEF BenchInv, Dsp0Stage, Dsp0Card, Dsp0Tools, OfficialInv, ReaderInv, AnswerInv
<1>5. CASE tool = "recovery" /\ (Recovery!Main \/ Recovery!Environment) /\ UNCHANGED NotOfRecovery
  <2>1. TypeInv' /\ CardInv' /\ ReaderInv'
    BY <1>0, <1>5, RecoverySteps, ReaderNext DEF QuietInv
  <2> QED BY <1>0, <1>5, <2>1
       DEF BenchInv, Dsp0Stage, Dsp0Card, Dsp0Tools, OfficialInv, ControlInv, AnswerInv
<1>6. CASE tool = "reader" /\ (Reader!Main \/ Reader!Environment) /\ UNCHANGED NotOfReader
  <2>1. TypeInv' /\ CardInv' /\ ReaderInv'
    BY <1>0, <1>6, ReaderSteps, ReaderNext DEF QuietInv
  <2> QED BY <1>0, <1>6, <2>1
       DEF BenchInv, Dsp0Stage, Dsp0Card, Dsp0Tools, OfficialInv, ControlInv, AnswerInv
<1> QED BY <1>1, <1>2, <1>3, <1>4, <1>5, <1>6 DEF Go

\* The first state, in this module's names.
LEMMA FirstState ==
  ASSUME Init
  PROVE  /\ CardInit /\ SessionInit /\ tool = "query"
         /\ modified = {} /\ buf = Canary /\ resp = Canary /\ ~ cmdDone
<1>1. Query!CardInit /\ Query!SessionInit /\ Query!ExchangeInit /\ modified = {} /\ tool = "query"
  BY DEF Init, Query!Init
<1>2. CardInit
  BY <1>1, QueryNames DEF Query!CardInit, CardInit
<1>3. SessionInit
  BY <1>1 DEF Query!SessionInit, SessionInit
<1>4. buf = Canary /\ resp = Canary /\ ~ cmdDone
  BY <1>1, QueryNames DEF Query!ExchangeInit
<1> QED BY <1>1, <1>2, <1>3, <1>4

LEMMA InitInv ==
  ASSUME Init PROVE BenchInv
<1>1. /\ run = 0 /\ pc = "idle" /\ n = 1 /\ toWrite = {} /\ toClear = {}
      /\ ~ started /\ ~ success /\ tool = "query" /\ modified = {} /\ buf = Canary /\ resp = Canary
      /\ dmaCtl \in {COLD_RESET, GLOBAL_ONLY} /\ desc = [s \in DescSlots |-> 0]
  BY FirstState DEF SessionInit, CardInit
<1>2. CardTypes
  <2>1. PICK i \in {0, Entries} :
          idx = [x \in RingIds |-> [bell |-> 0, write |-> 0, read |-> i]]
    BY FirstState DEF CardInit
  <2>2. i \in 0 .. Entries /\ 0 \in 0 .. Entries /\ 0 \in 0 .. MaxGen
    BY CardAssumption
  <2>3. IdxOK
    BY <2>1, <2>2 DEF IdxOK, IdxWord
  <2> QED BY <1>1, <2>2, <2>3 DEF CardTypes
<1>3. TypeInv
  BY <1>1, <1>2, CardAssumption DEF TypeInv, Dsp0Tools
<1>4. CardInv
  BY <1>1, FourWords DEF CardInv
<1>5. Dsp0Stage
  BY <1>1 DEF Dsp0Stage, Dsp0PCs, PublishedPCs, EnablingPCs, JustEnabled, ObservingPCs,
     RestorePCs, ExitPCs
<1>6. Dsp0Card
  BY <1>1 DEF Dsp0Card, PublishedPCs, EnablingPCs, JustEnabled, ObservingPCs
<1>7. AnswerInv
  BY <1>1 DEF AnswerInv, Canary, WordKinds, PublishedPCs, EnablingPCs, JustEnabled
<1> QED BY <1>1, <1>3, <1>4, <1>5, <1>6, <1>7 DEF BenchInv, OfficialInv, ControlInv, ReaderInv

LEMMA StutterInv ==
  ASSUME BenchInv, UNCHANGED vars PROVE BenchInv'
<1>1. UNCHANGED <<dmaCtl, desc, idx, linked, run, pc, n, dsp, ring, toWrite, toClear, has, started,
                  success, poll, buf, resp, cmdDone, respDone, modified, mode, indexes, target,
                  kind, tool>>
  BY DEF vars, cardVars, sessionVars, exchangeVars, toolVars
<1>2. TypeInv' /\ CardInv'
  BY <1>1, ByIdle DEF BenchInv, TypeInv, CardInv, WholeFive, Off, In001, Blank, LowBut, Low
<1>3. Dsp0Stage'
  BY <1>1 DEF BenchInv, Dsp0Stage, NoFlag, Mapped, In001
<1>4. Dsp0Card'
  BY <1>1 DEF BenchInv, Dsp0Card, Off, In001, AllZero, Zero, WholeFive, SetOnly, LowBut, Low,
     Offered, Rings
<1>5. OfficialInv'
  BY <1>1 DEF BenchInv, OfficialInv, Blank, AllZero, Zero, LowBut, Low, SetOnly
<1>6. ControlInv'
  BY <1>1 DEF BenchInv, ControlInv, Blank, LowBut, Low, OtherWord
<1>7. ReaderInv'
  BY <1>1 DEF BenchInv, ReaderInv
<1>8. AnswerInv'
  BY <1>1 DEF BenchInv, AnswerInv, Answered, Full
<1> QED BY <1>2, <1>3, <1>4, <1>5, <1>6, <1>7, <1>8 DEF BenchInv

\* Every history of runs of the small tools keeps the invariant.
THEOREM BenchInductive == Spec => []BenchInv
<1>1. ASSUME BenchInv, Next PROVE BenchInv'
  BY <1>1, BeginInv, GoInv DEF Next
<1>2. BenchInv /\ [Next]_vars => BenchInv'
  BY <1>1, StutterInv
<1> QED BY <1>2, InitInv, PTL DEF Spec

\* No tool runs an engine that it did not enable; GLOBAL_DSP0 is the only value
\* of the control register that runs one.
LEMMA OnlyEngine ==
  ASSUME CardTypes, NEW d \in DSPS, EngineLive(d) PROVE dmaCtl = GLOBAL_DSP0 /\ d = 0 /\ linked
BY DEF CardTypes, EngineLive, COLD_RESET, RESET_GLOBAL, GLOBAL_ONLY, GLOBAL_DSP0

\* However a run of a small tool ended, unless it was killed, a card that still
\* answers is cold with no descriptor (the cleanup labels of the four DMA tools
\* and the paths into die() of the others).
THEOREM BenchEndsCold == Spec => []BenchExitCold
<1>1. BenchInv => BenchExitCold
  BY DEF BenchInv, CardInv, OverPCs, BenchExitCold, ExitLeavesCold, Off, Blank
<1> QED BY <1>1, BenchInductive, PTL

\* What a killed run of any tool left in an index word never meets an enabled
\* engine: the baseline test of the two DMA tools comes first.
THEOREM EngineOverEmptyRings == Spec => []EngineStartsEmpty
<1>1. ASSUME BenchInv PROVE EngineStartsEmpty
  <2>1. SUFFICES ASSUME NEW x \in RingIds, EngineLive(x[1]), pc \in JustEnabled
                 PROVE  idx[x] = [bell |-> 0, write |-> 0, read |-> 0]
    BY DEF EngineStartsEmpty
  <2>2. linked
    BY <2>1 DEF EngineLive
  <2>3. tool \in Dsp0Tools
    BY <1>1, <2>1 DEF BenchInv, TypeInv, OfficialInv, ControlInv, ReaderInv, OfficialPCs, InitPCs,
       ControlPCs, WrittenPCs, JustEnabled
  <2> QED BY <1>1, <2>1, <2>2, <2>3 DEF BenchInv, Dsp0Card, EnablingPCs, AllZero, Zero
<1> QED BY <1>1, BenchInductive, PTL

\* A reported answer of the query tool was complete before the last poll, and
\* the copied words are those of the buffer (the loop and the copy of
\* vfio_query_command.c), whatever ran on the card before.
THEOREM QueryAnswersInTime == Spec => []AnswerInTime
<1>1. BenchInv => AnswerInTime
  BY QueryNames DEF BenchInv, AnswerInv, AnswerInTime, Query!AnswerInTime, Full
<1> QED BY <1>1, BenchInductive, PTL

\* Experiment 001, which does not look at the control register, never runs with
\* an engine on, although a killed run may have left one.
THEOREM No001Engine == Spec => []NoEngineIn001
<1>1. ASSUME BenchInv PROVE NoEngineIn001
  <2>1. SUFFICES ASSUME tool = "descriptors", mode = "001", started, pc \notin Stopped,
                        NEW d \in DSPS, EngineLive(d)
                 PROVE  FALSE
    BY DescriptorsNames DEF NoEngineIn001, Descriptors!NoEngineIn001, Descriptors!EngineLive, EngineLive
  <2>2. dmaCtl = GLOBAL_DSP0 /\ linked
    BY <1>1, <2>1, OnlyEngine DEF BenchInv, TypeInv
  <2>3. ~ Off
    BY <2>2, FourWords DEF Off
  <2>4. "dma" \notin modified /\ pc \in Dsp0PCs /\ pc \notin EnablingPCs \cup {"resetGlobal"}
        /\ pc \notin {"setup", "baseline"} /\ tool \in Dsp0Tools
    BY <1>1, <2>1 DEF BenchInv, Dsp0Stage, Dsp0Tools, In001
  <2>5. Off
    <3>1. CASE pc \in OverPCs
      BY <1>1, <2>1, <2>2, <3>1 DEF BenchInv, CardInv
    <3>2. CASE pc \in {"publish", "cClear"}
      BY <1>1, <2>1, <2>2, <2>4, <3>2 DEF BenchInv, Dsp0Card
    <3>3. CASE pc \in PublishedPCs \cup ObservingPCs \cup RestorePCs \cup {"cleanup"}
      BY <1>1, <2>1, <2>2, <2>4, <3>3 DEF BenchInv, Dsp0Card
    <3> QED BY <2>1, <2>4, <3>1, <3>2, <3>3 DEF Dsp0PCs, ExitPCs, OverPCs, Stopped
  <2> QED BY <2>3, <2>5
<1> QED BY <1>1, BenchInductive, PTL

----------------------------------------------------------------------------
(* What a step can be, for the properties of steps.                        *)

LEMMA StepKinds ==
  ASSUME BenchInv, Go
  PROVE  /\ UNCHANGED tool
         /\ \/ tool \in Dsp0Tools /\ Dsp0Step
            \/ tool = "official" /\ OfficialStep
            \/ tool = "control" /\ RingControlStep
            \/ tool = "recovery" /\ RecoveryStep
            \/ tool = "reader" /\ ReaderStep
<1>0. Dsp0Stage /\ OfficialInv /\ ControlInv /\ ReaderInv /\ UNCHANGED tool
  BY DEF BenchInv, Go
<1>1. CASE tool = "query" /\ (Query!Main \/ Query!Environment) /\ UNCHANGED NotOfQuery
  BY <1>0, <1>1, QuerySteps DEF Dsp0Tools
<1>2. CASE tool = "descriptors" /\ (Descriptors!Main \/ Descriptors!Environment)
             /\ UNCHANGED NotOfDescriptors
  BY <1>0, <1>2, DescriptorsSteps DEF Dsp0Tools
<1>3. CASE tool = "official" /\ (Official!Main \/ Official!Environment) /\ UNCHANGED NotOfOfficial
  BY <1>0, <1>3, OfficialSteps
<1>4. CASE tool = "control" /\ (Control!Main \/ Control!Environment) /\ UNCHANGED NotOfControl
  BY <1>0, <1>4, ControlSteps
<1>5. CASE tool = "recovery" /\ (Recovery!Main \/ Recovery!Environment) /\ UNCHANGED NotOfRecovery
  BY <1>0, <1>5, RecoverySteps
<1>6. CASE tool = "reader" /\ (Reader!Main \/ Reader!Environment) /\ UNCHANGED NotOfReader
  BY <1>0, <1>6, ReaderSteps
<1> QED BY <1>0, <1>1, <1>2, <1>3, <1>4, <1>5, <1>6 DEF Go

\* A tool that clears words of an answering card has made it cold before: the
\* DMA control comes first in the cleanup labels.
THEOREM ColdBeforeClearing == Spec => BenchColdFirst
<1>1. ASSUME BenchInv, Next, ~ In001, started, pc = "cClear", pc' # "killed",
             <<desc, idx>>' # <<desc, idx>>
      PROVE  dmaCtl = COLD_RESET
  <2>1. Go
    BY <1>1, Started DEF Next, Launch, Stopped
  <2>2. /\ tool \in Dsp0Tools \cup {"official"}
        /\ tool \in Dsp0Tools => Dsp0Step
        /\ tool = "official" => OfficialStep
    BY <1>1, <2>1, StepKinds
       DEF BenchInv, ControlInv, ReaderInv, ControlPCs, WrittenPCs, Dsp0Tools
  <2>3. CASE linked
    BY <1>1, <2>2, <2>3 DEF BenchInv, Dsp0Card, OfficialInv, Off
  <2>4. CASE ~ linked
    <3>1. CASE tool \in Dsp0Tools
      <4>1. Dsp0Step /\ pc = "cClear" /\ pc' # "killed"
        BY <1>1, <2>2, <3>1
      <4>2. ClearStep \/ AdvanceStep \/ IdleStep
        BY <4>1
           DEF Dsp0Step, OpenStep, FoundStep, LookStep, PublishStep, PublishedStep, ControlStep,
               IndexStep, ColdStep, ResetStep, CloseStep, GoneStep
      <4>3. UNCHANGED <<desc, idx>>
        BY <2>4, <4>2 DEF ClearStep, WordsKept, WriteIndexes, WriteDesc, AdvanceStep, EngineLive, IdleStep
      <4> QED BY <1>1, <4>3
    <3>2. CASE tool = "official"
      <4>1. OfficialStep /\ pc = "cClear" /\ pc' # "killed"
        BY <1>1, <2>2, <3>2
      <4>2. UNCHANGED <<desc, idx>>
        BY <2>4, <4>1
           DEF OfficialStep, WordsKept, WriteIndexes, WriteDesc, OpenStep, ResetStep, CloseStep,
               GoneStep, IdleStep
      <4> QED BY <1>1, <4>2
    <3> QED BY <2>2, <3>1, <3>2
  <2> QED BY <2>3, <2>4
<1> DEFINE A == (~ In001 /\ started /\ pc = "cClear" /\ pc' # "killed"
                   /\ <<desc, idx>>' # <<desc, idx>>) => dmaCtl = COLD_RESET
<1>2. BenchInv /\ [Next]_vars => [A]_vars
  BY <1>1
<1> QED BY <1>2, BenchInductive, PTL DEF Spec, BenchColdFirst

----------------------------------------------------------------------------
(* The bench implements Experiment: every step of every tool is one of its *)
(* steps, or leaves its state alone.                                       *)

Phase == IF pc \in {"idle", "exit"} THEN "rest"
         ELSE IF pc = "killed" THEN "killed" ELSE "running"
Dirty == /\ linked
         /\ \/ \E s \in DescSlots : desc[s] # 0
            \/ \E x \in RingIds : idx[x].bell # 0 \/ idx[x].write # 0
ContractStep == [Contract!Next]_(Contract!vars)
Live == {d \in DSPS : EngineLive(d)}

LEMMA AsStutter ==
  ASSUME Phase' = Phase, started' = started, MapKept, Live' = Live, Dirty' <=> Dirty
  PROVE  ContractStep
BY DEF ContractStep, Contract!vars, Phase, MapKept, Mapped, Dirty, Live

LEMMA AsMove ==
  ASSUME Phase = "running", Phase' = "running", started, started', MapKept,
         \/ Live' = Live
         \/ Live \subseteq Live' /\ Mapped /\ (Dirty' <=> Dirty)
         \/ Live' \subseteq Live /\ (Dirty' <=> Dirty)
  PROVE  ContractStep
<1> USE DEF Phase, MapKept, Mapped, Dirty, Live, ContractStep, Contract!Next
<1>1. CASE Live' = Live
  BY <1>1 DEF Contract!Write
<1>2. CASE Live \subseteq Live' /\ Mapped /\ (Dirty' <=> Dirty)
  <2>1. Live' \in SUBSET DSPS
    OBVIOUS
  <2> QED BY <1>2, <2>1 DEF Contract!Start
<1>3. CASE Live' \subseteq Live /\ (Dirty' <=> Dirty)
  BY <1>3 DEF Contract!Stop
<1> QED BY <1>1, <1>2, <1>3

LEMMA AsFirst ==
  ASSUME Phase = "running", Phase' = "running", started', MapKept, Live = {}, Live' = {}, ~ Dirty
  PROVE  ContractStep
<1>1. Contract!Write
  BY DEF Contract!Write, Phase, MapKept, Mapped, Dirty, Live
<1> QED BY <1>1 DEF ContractStep, Contract!Next

LEMMA AsClear ==
  ASSUME Phase' = Phase, started' = started, MapKept, Live' = {}, ~ Dirty' PROVE ContractStep
<1>1. Contract!Clear
  BY DEF Contract!Clear, Phase, MapKept, Mapped, Dirty, Live
<1> QED BY <1>1 DEF ContractStep, Contract!Next

LEMMA AsMap ==
  ASSUME Phase = "running", Phase' = "running", ~ started, started' = started, ~ Mapped, Mapped',
         Live' = Live, Dirty' <=> Dirty
  PROVE  ContractStep
<1>1. Contract!Map
  BY DEF Contract!Map, Phase, Mapped, Dirty, Live
<1> QED BY <1>1 DEF ContractStep, Contract!Next

LEMMA AsUnmap ==
  ASSUME Phase = "running", Phase' = "running", started => Live = {}, started' = started,
         ~ Mapped', Live' = Live, Dirty' <=> Dirty
  PROVE  ContractStep
<1>1. Contract!Unmap
  BY DEF Contract!Unmap, Phase, Mapped, Dirty, Live
<1> QED BY <1>1 DEF ContractStep, Contract!Next

LEMMA AsBegin ==
  ASSUME Phase # "running", Phase' \in {"running", "rest"}, ~ started', MapKept,
         Live' = Live, Dirty' <=> Dirty
  PROVE  ContractStep
<1>1. Contract!Begin
  BY DEF Contract!Begin, Phase, MapKept, Mapped, Dirty, Live
<1> QED BY <1>1 DEF ContractStep, Contract!Next

\* The process is gone: it was killed, or it exits over a clear card.
LEMMA AsGone ==
  ASSUME Phase = "running", started' = started, ~ Mapped',
         \/ Phase' = "killed"
         \/ Phase' = "rest" /\ (started => Live = {} /\ ~ Dirty),
         (Live' = Live /\ (Dirty' <=> Dirty)) \/ (Live' = {} /\ ~ Dirty')
  PROVE  ContractStep
<1>1. CASE Phase' = "killed"
  <2>1. Contract!Die
    BY <1>1 DEF Contract!Die, Phase, Mapped, Dirty, Live
  <2> QED BY <2>1 DEF ContractStep, Contract!Next
<1>2. CASE Phase' = "rest" /\ (started => Live = {} /\ ~ Dirty)
  <2>1. Contract!Safe
    BY <1>2 DEF Contract!Safe, Dirty, Live
  <2>2. Contract!End
    BY <1>2, <2>1 DEF Contract!End, Phase, Mapped, Dirty, Live
  <2> QED BY <2>2 DEF ContractStep, Contract!Next
<1> QED BY <1>1, <1>2

\* The state of the card as Experiment sees it.
LEMMA CardView ==
  /\ WordsKept => Live' = Live /\ (Dirty' <=> Dirty)
  /\ UNCHANGED <<dmaCtl, linked>> => Live' = Live
  /\ CardTypes /\ dmaCtl # GLOBAL_DSP0 => Live = {}
  /\ CardTypes /\ linked /\ dmaCtl = GLOBAL_DSP0 => Live = {0}
  /\ ~ linked => Live = {} /\ ~ Dirty
  /\ Blank /\ LowBut({}) => ~ Dirty
<1>1. WordsKept => Live' = Live /\ (Dirty' <=> Dirty)
  BY DEF WordsKept, Live, EngineLive, Dirty
<1>2. UNCHANGED <<dmaCtl, linked>> => Live' = Live
  BY DEF Live, EngineLive
<1>3. CardTypes /\ dmaCtl # GLOBAL_DSP0 => Live = {}
  BY OnlyEngine DEF Live
<1>4. CardTypes /\ linked /\ dmaCtl = GLOBAL_DSP0 => Live = {0}
  BY CardAssumption DEF Live, EngineLive, GLOBAL_DSP0, DSPS
<1>5. ~ linked => Live = {} /\ ~ Dirty
  BY DEF Live, EngineLive, Dirty
<1>6. Blank /\ LowBut({}) => ~ Dirty
  BY DEF Blank, LowBut, Low, Dirty
<1> QED BY <1>1, <1>2, <1>3, <1>4, <1>5, <1>6

\* Steps that do not reach the words of the card.
LEMMA ContractKeep ==
  ASSUME WordsKept, MapKept, UNCHANGED started, Phase' = Phase PROVE ContractStep
BY AsStutter, CardView

\* After its last write a tool has left no engine and no word.
LEMMA OverView ==
  ASSUME CardTypes, CardInv, started, pc \in OverPCs PROVE Live = {} /\ ~ Dirty
<1>1. CASE linked
  <2>1. Off /\ Blank /\ LowBut({})
    BY <1>1 DEF CardInv
  <2>2. dmaCtl # GLOBAL_DSP0
    BY <2>1, FourWords DEF Off
  <2> QED BY <2>1, <2>2, CardView
<1>2. CASE ~ linked
  BY <1>2, CardView
<1> QED BY <1>1, <1>2

\* The kernel's close and a reset leave the words alone or clear the card.
LEMMA CloseView ==
  ASSUME CardTypes, KernelCloses \/ WordsKept
  PROVE  (Live' = Live /\ (Dirty' <=> Dirty)) \/ (Live' = {} /\ ~ Dirty')
<1>1. /\ CardTypes' /\ UNCHANGED linked
      /\ \/ UNCHANGED <<dmaCtl, desc, idx>>
         \/ dmaCtl' = COLD_RESET /\ Blank' /\ AllZero' /\ LowBut({})'
  BY ByClose
<1>2. CASE UNCHANGED <<dmaCtl, desc, idx>>
  BY <1>1, <1>2, CardView DEF WordsKept
<1>3. CASE dmaCtl' = COLD_RESET /\ Blank' /\ LowBut({})'
  <2>1. Live' = {}
    BY <1>3 DEF Live, EngineLive, COLD_RESET
  <2>2. ~ Dirty'
    BY <1>3 DEF Blank, LowBut, Low, Dirty
  <2> QED BY <2>1, <2>2
<1> QED BY <1>1, <1>2, <1>3

\* The steps that all tools share.
LEMMA IdleView ==
  ASSUME IdleStep PROVE ContractStep
<1>1. UNCHANGED <<dmaCtl, desc, idx, pc, has, started>> /\ (linked' => linked)
  BY DEF IdleStep
<1>2. Phase' = Phase /\ MapKept
  BY <1>1 DEF Phase, MapKept, Mapped
<1>3. CASE linked'
  <2>1. Live' = Live /\ (Dirty' <=> Dirty)
    BY <1>1, <1>3 DEF Live, EngineLive, Dirty
  <2> QED BY <1>1, <1>2, <2>1, AsStutter
<1>4. CASE ~ linked'
  <2>1. Live' = {} /\ ~ Dirty'
    BY <1>4 DEF Live, EngineLive, Dirty
  <2> QED BY <1>1, <1>2, <2>1, AsClear
<1> QED BY <1>3, <1>4

LEMMA GoneView ==
  ASSUME CardTypes, CardInv, NEW last \in {"killed", "exit"}, GoneStep(last),
         last = "exit" /\ started => pc \in OverPCs
  PROVE  ContractStep
<1>1. /\ pc \notin Stopped /\ pc' = last /\ ~ Mapped' /\ UNCHANGED started
      /\ KernelCloses \/ WordsKept
  BY DEF GoneStep
<1>2. Phase = "running" /\ Phase' = (IF last = "exit" THEN "rest" ELSE "killed")
  BY <1>1 DEF Phase, Stopped
<1>3. last = "exit" /\ started => Live = {} /\ ~ Dirty
  BY OverView
<1>4. (Live' = Live /\ (Dirty' <=> Dirty)) \/ (Live' = {} /\ ~ Dirty')
  BY <1>1, CloseView
<1> QED BY <1>1, <1>2, <1>3, <1>4, AsGone

LEMMA CloseStepView ==
  ASSUME CardTypes, CardInv, NEW k, NEW last \in {"report", "exit"}, CloseStep(k, last)
  PROVE  ContractStep
<1>1. /\ pc = "release" /\ UNCHANGED started
      /\ \/ WordsKept /\ (MapKept \/ ~ Mapped')
         \/ KernelCloses /\ MapKept /\ n # k
      /\ pc' \in {"release", last} /\ (pc' = last => n = k /\ ~ Mapped')
  BY DEF CloseStep
<1>2. Phase = "running" /\ (pc' # "exit" => Phase' = "running") /\ (pc' = "exit" => Phase' = "rest")
  BY <1>1 DEF Phase
<1>3. started => Live = {} /\ ~ Dirty
  BY <1>1, OverView DEF OverPCs
<1>4. CASE KernelCloses /\ MapKept /\ n # k
  <2>1. Phase' = Phase
    BY <1>1, <1>2, <1>4
  <2>2. (Live' = Live /\ (Dirty' <=> Dirty)) \/ (Live' = {} /\ ~ Dirty')
    BY <1>4, CloseView
  <2> QED BY <1>1, <1>4, <2>1, <2>2, AsStutter, AsClear
<1>5. CASE WordsKept /\ (MapKept \/ ~ Mapped')
  <2>1. Live' = Live /\ (Dirty' <=> Dirty)
    BY <1>5, CardView
  <2>2. CASE pc' = "exit"
    BY <1>1, <1>2, <1>3, <2>1, <2>2, AsGone
  <2>3. CASE pc' # "exit" /\ MapKept
    BY <1>1, <1>2, <2>1, <2>3, AsStutter
  <2>4. CASE pc' # "exit" /\ ~ Mapped'
    BY <1>1, <1>2, <1>3, <2>1, <2>4, AsUnmap
  <2> QED BY <1>5, <2>2, <2>3, <2>4
<1> QED BY <1>1, <1>4, <1>5

LEMMA ResetView ==
  ASSUME CardTypes, KernelCloses \/ WordsKept, MapKept, UNCHANGED started, Phase' = Phase
  PROVE  ContractStep
BY CloseView, AsStutter, AsClear

LEMMA OpenView ==
  ASSUME ~ started, UNCHANGED started, WordsKept, pc = "setup", pc' # "exit", pc' # "killed",
         pc' # "idle", MapKept \/ Mapped'
  PROVE  ContractStep
<1>1. Phase = "running" /\ Phase' = "running"
  BY DEF Phase
<1>2. Live' = Live /\ (Dirty' <=> Dirty)
  BY CardView
<1>3. CASE MapKept
  BY <1>1, <1>2, <1>3, AsStutter
<1>4. CASE ~ MapKept /\ Mapped'
  BY <1>1, <1>2, <1>4, AsMap DEF MapKept
<1> QED BY <1>3, <1>4

\* A word of the card is written: no engine starts or stops.
LEMMA WriteView ==
  ASSUME UNCHANGED <<dmaCtl, linked, has>>, started', Phase = "running", Phase' = "running",
         started \/ (Live = {} /\ ~ Dirty)
  PROVE  ContractStep
<1>1. Live' = Live /\ MapKept
  BY CardView DEF MapKept, Mapped
<1>2. CASE started
  BY <1>1, <1>2, AsMove
<1>3. CASE Live = {} /\ ~ Dirty
  BY <1>1, <1>3, AsFirst
<1> QED BY <1>2, <1>3

\* Every step of the bench is a step of Experiment.
LEMMA Dsp0View ==
  ASSUME BenchInv, tool \in Dsp0Tools, Dsp0Step PROVE ContractStep
<1>0. CardTypes /\ CardInv /\ Dsp0Stage /\ Dsp0Card /\ TypeInv
  BY DEF BenchInv, TypeInv
<1> USE DEF PublishedPCs, EnablingPCs, JustEnabled, ObservingPCs, RestorePCs
<1>1. CASE OpenStep
  <2>1. ~ started /\ pc = "setup"
    BY <1>0, <1>1 DEF OpenStep, Dsp0Stage
  <2> QED BY <1>1, <2>1, OpenView DEF OpenStep, MapKept
<1>2. CASE FoundStep
  BY <1>2, ContractKeep DEF FoundStep, MapKept, Mapped, Phase
<1>3. CASE LookStep
  <2>1. WordsKept /\ MapKept /\ UNCHANGED started /\ pc \notin {"idle", "exit", "killed"}
        /\ pc' \notin {"idle", "killed"} /\ (pc' = "exit" => pc = "report")
    BY <1>3 DEF LookStep
  <2>2. CASE pc' = "exit"
    <3>1. ~ Mapped'
      BY <1>0, <2>1, <2>2 DEF Dsp0Stage, MapKept
    <3>2. Phase = "running" /\ Phase' = "rest"
      BY <2>1, <2>2 DEF Phase
    <3>3. started => Live = {} /\ ~ Dirty
      BY <1>0, <2>1, <2>2, OverView DEF OverPCs
    <3> QED BY <2>1, <3>1, <3>2, <3>3, CardView, AsGone
  <2>3. CASE pc' # "exit"
    <3>1. Phase' = Phase
      BY <2>1, <2>3 DEF Phase
    <3> QED BY <2>1, <3>1, ContractKeep
  <2> QED BY <2>2, <2>3
<1>4. CASE PublishStep
  <2>1. /\ pc = "publish" /\ pc' = "publish" /\ started' /\ UNCHANGED has
        /\ \E s \in toWrite : WriteDesc(s, run) /\ toWrite' = toWrite \ {s}
    BY <1>4 DEF PublishStep
  <2>2. UNCHANGED <<dmaCtl, linked>>
    BY <2>1 DEF WriteDesc
  <2>3. ASSUME ~ started PROVE Live = {} /\ ~ Dirty
    <3>1. CASE linked
      <4>1. toWrite = FiveDescriptors /\ Off /\ AllZero
            /\ \A s \in DescSlots : desc[s] # 0 <=> s \in FiveDescriptors \ toWrite
        BY <1>0, <2>1, <2>3, <3>1 DEF Dsp0Stage, Dsp0Card
      <4>2. Blank /\ LowBut({}) /\ dmaCtl # GLOBAL_DSP0
        BY <4>1, LowFacts, FourWords DEF Blank, Off
      <4> QED BY <1>0, <4>2, CardView
    <3> QED BY <3>1, CardView
  <2>4. Phase = "running" /\ Phase' = "running"
    BY <2>1 DEF Phase
  <2> QED BY <2>1, <2>2, <2>3, <2>4, WriteView
<1>5. CASE PublishedStep
  <2>1. Phase' = Phase
    BY <1>5 DEF PublishedStep, Phase
  <2> QED BY <1>5, <2>1, ContractKeep DEF PublishedStep, MapKept, Mapped
<1>6. ASSUME NEW p, NEW v, NEW q, ControlStep(p, v, q),
             \/ p = "resetGlobal" /\ v = RESET_GLOBAL /\ q = "resetRead"
             \/ p = "globalOnly" /\ v = GLOBAL_ONLY /\ q = "globalRead"
             \/ p = "enable" /\ v = GLOBAL_DSP0 /\ q = "enableRead"
      PROVE  ContractStep
  <2>1. pc = p /\ pc' = q /\ WriteDma(v) /\ UNCHANGED <<has, started>>
    BY <1>6 DEF ControlStep
  <2>2. started /\ Mapped
    BY <1>0, <1>6, <2>1 DEF Dsp0Stage
  <2>3. Phase = "running" /\ Phase' = "running" /\ MapKept
    BY <1>6, <2>1 DEF Phase, MapKept, Mapped
  <2>4. /\ UNCHANGED <<desc, linked>> /\ dmaCtl' = (IF linked THEN v ELSE dmaCtl)
        /\ \A x \in RingIds : Low(x) <=> Low(x)'
    BY <1>0, <1>6, <2>1, ByDma
  <2>5. Dirty' <=> Dirty
    BY <2>4 DEF Dirty, Low
  <2>6. Live' \subseteq Live \/ Live \subseteq Live'
    <3>1. CASE ~ linked
      BY <3>1, CardView
    <3>2. CASE linked /\ v # GLOBAL_DSP0
      <4>1. dmaCtl'.enable = {}
        BY <1>6, <2>4, <3>2 DEF RESET_GLOBAL, GLOBAL_ONLY
      <4> QED BY <4>1 DEF Live, EngineLive
    <3>3. CASE linked /\ v = GLOBAL_DSP0
      <4>1. Live' = {0}
        BY <2>4, <3>3, CardAssumption DEF Live, EngineLive, GLOBAL_DSP0, DSPS
      <4>2. Live = {} \/ Live = {0}
        BY <1>0, <3>3, CardView
      <4> QED BY <4>1, <4>2
    <3> QED BY <3>1, <3>2, <3>3
  <2> QED BY <2>1, <2>2, <2>3, <2>5, <2>6, AsMove
<1>7. ASSUME NEW p, NEW x, NEW v, NEW f, NEW q, IndexStep(p, x, v, f, q),
             p \in JustEnabled \cup {"postCommand"}, q \in ObservingPCs
      PROVE  ContractStep
  <2>1. /\ pc = p /\ pc' = q /\ UNCHANGED <<dmaCtl, linked, has, started>>
    BY <1>7 DEF IndexStep
  <2>2. started
    BY <1>0, <1>7, <2>1 DEF Dsp0Stage
  <2>3. Phase = "running" /\ Phase' = "running"
    BY <1>7, <2>1 DEF Phase
  <2> QED BY <2>1, <2>2, <2>3, WriteView
<1>8. CASE ColdStep
  <2>1. /\ pc = "cleanup" /\ pc' \in RestorePCs /\ UNCHANGED <<has, started>>
        /\ IF "dma" \in modified THEN WriteDma(COLD_RESET) ELSE WordsKept
    BY <1>8 DEF ColdStep
  <2>2. Phase = "running" /\ Phase' = "running" /\ MapKept
    BY <2>1 DEF Phase, MapKept, Mapped
  <2>3. CASE "dma" \in modified
    <3>1. started
      BY <1>0, <2>1, <2>3 DEF Dsp0Stage, NoFlag, WordFlags
    <3>2. /\ UNCHANGED <<desc, linked>> /\ dmaCtl' = (IF linked THEN COLD_RESET ELSE dmaCtl)
          /\ \A x \in RingIds : Low(x) <=> Low(x)'
      BY <1>0, <2>1, <2>3, ByDma
    <3>3. Dirty' <=> Dirty
      BY <3>2 DEF Dirty, Low
    <3>4. Live' = {}
      BY <3>2 DEF Live, EngineLive, COLD_RESET
    <3> QED BY <2>1, <2>2, <3>1, <3>3, <3>4, AsMove
  <2>4. CASE "dma" \notin modified
    BY <2>1, <2>2, <2>4, ContractKeep
  <2> QED BY <2>3, <2>4
<1>9. CASE ClearStep
  <2>1. /\ UNCHANGED <<has, started>> /\ pc \in {"cControls", "cClear"}
        /\ pc' \in {"cClear", "cVfioReset", "release"}
    BY <1>9 DEF ClearStep
  <2>2. Phase = "running" /\ Phase' = "running" /\ MapKept
    BY <2>1 DEF Phase, MapKept, Mapped
  <2>3. \/ WordsKept
        \/ UNCHANGED <<dmaCtl, linked>> /\ pc = "cClear" /\ (toClear # {} \/ toWrite # {})
    BY <1>9 DEF ClearStep, WriteIndexes, WriteDesc
  <2>4. CASE WordsKept
    BY <2>1, <2>2, <2>4, ContractKeep
  <2>5. CASE UNCHANGED <<dmaCtl, linked>> /\ pc = "cClear" /\ (toClear # {} \/ toWrite # {})
    <3>1. started
      BY <1>0, <2>5 DEF Dsp0Stage
    <3> QED BY <2>1, <2>2, <2>5, <3>1, WriteView
  <2> QED BY <2>3, <2>4, <2>5
<1>10. CASE ResetStep
  <2>1. Phase' = Phase /\ MapKept /\ UNCHANGED started /\ (KernelCloses \/ WordsKept)
    BY <1>10 DEF ResetStep, Phase
  <2> QED BY <1>0, <2>1, ResetView
<1>11. CASE CloseStep(7, "report") \/ CloseStep(7, "exit")
  BY <1>0, <1>11, CloseStepView
<1>12. CASE GoneStep("killed")
  BY <1>0, <1>12, GoneView
<1>13. CASE AdvanceStep
  <2>1. UNCHANGED <<pc, has, started>> /\ UNCHANGED <<dmaCtl, desc, linked>>
        /\ \A x \in RingIds : Low(x) <=> Low(x)'
    BY <1>0, <1>13, ByAdvance DEF AdvanceStep
  <2>2. (Dirty' <=> Dirty) /\ Live' = Live /\ Phase' = Phase /\ MapKept
    BY <2>1, CardView DEF Dirty, Low, Phase, MapKept, Mapped
  <2> QED BY <2>1, <2>2, AsStutter
<1>14. CASE IdleStep
  BY <1>14, IdleView
<1>15. CASE \/ ControlStep("resetGlobal", RESET_GLOBAL, "resetRead")
            \/ ControlStep("globalOnly", GLOBAL_ONLY, "globalRead")
            \/ ControlStep("enable", GLOBAL_DSP0, "enableRead")
  BY <1>6, <1>15
<1>16. CASE \/ IndexStep("zeroControls", Cmd0, 0, {}, "zeroRead")
            \/ IndexStep("oneEntry", Cmd0, 1, {"controls"}, "observe")
            \/ IndexStep("postResponse", Resp0, 1, {"controls"}, "postCommand")
            \/ IndexStep("postCommand", Cmd0, 1, {"controls"}, "poll")
  BY <1>7, <1>16
<1> HIDE DEF PublishedPCs, EnablingPCs, JustEnabled, ObservingPCs, RestorePCs
<1> QED
  BY <1>1, <1>2, <1>3, <1>4, <1>5, <1>8, <1>9, <1>10, <1>11, <1>12, <1>13, <1>14, <1>15, <1>16
  DEF Dsp0Step

LEMMA OfficialView ==
  ASSUME BenchInv, tool = "official", OfficialStep PROVE ContractStep
<1>0. CardTypes /\ CardInv /\ OfficialInv /\ UNCHANGED <<tool, mode, run>>
  BY DEF BenchInv, TypeInv, OfficialStep
<1> DEFINE Plain == pc \notin Stopped /\ pc' \notin Stopped
<1>p. Plain => Phase = "running" /\ Phase' = "running"
  BY DEF Phase, Stopped
<1>1. CASE OpenStep
  <2>1. ~ started /\ pc = "setup"
    BY <1>0, <1>1 DEF OpenStep, OfficialInv
  <2> QED BY <1>1, <2>1, OpenView DEF OpenStep, MapKept
<1>2. ASSUME WordsKept, UNCHANGED <<has, started>>, Plain PROVE ContractStep
  BY <1>2, <1>p, ContractKeep DEF MapKept, Mapped
<1>3. ASSUME UNCHANGED <<dmaCtl, linked, has, started>>, Plain, started PROVE ContractStep
  BY <1>3, <1>p, WriteView
<1>4. CASE /\ pc = "indexes" /\ pc' = "ringIndex" /\ started' /\ WordsKept /\ UNCHANGED has
  <2>1. linked => dmaCtl = COLD_RESET /\ Blank /\ LowBut({})
    BY <1>0, <1>4 DEF OfficialInv, InitPCs
  <2>2. Live = {} /\ ~ Dirty
    <3>1. CASE linked
      BY <1>0, <2>1, <3>1, CardView, FourWords
    <3> QED BY <3>1, CardView
  <2>3. Plain
    BY <1>4 DEF Stopped
  <2> QED BY <1>4, <1>p, <2>2, <2>3, WriteView DEF WordsKept
<1>5. CASE /\ pc \in {"baseline", "ringDesc", "enable", "observe", "cleanup", "cClear"}
           /\ pc' \in {"indexes", "cleanup", "ringIndex", "enable", "observe", "cClear", "cVfioReset"}
           /\ WordsKept /\ UNCHANGED <<has, started>>
  BY <1>2, <1>5 DEF Stopped
<1>6. CASE /\ pc = "ringIndex" /\ pc' = "ringDesc" /\ WriteIndexes(<<dsp, ring>>, indexes[ring])
           /\ UNCHANGED <<has, started>>
  <2>1. started /\ UNCHANGED <<dmaCtl, linked>>
    BY <1>0, <1>6 DEF OfficialInv, InitPCs, WriteIndexes
  <2> QED BY <1>3, <1>6, <2>1 DEF Stopped
<1>7. CASE /\ pc = "ringDesc" /\ pc' = "ringDesc"
           /\ \E s \in toWrite : WriteDesc(s, run) /\ toWrite' = toWrite \ {s}
           /\ UNCHANGED <<has, started>>
  <2>1. started /\ UNCHANGED <<dmaCtl, linked>>
    BY <1>0, <1>7 DEF OfficialInv, InitPCs, WriteDesc
  <2> QED BY <1>3, <1>7, <2>1 DEF Stopped
<1>8. CASE /\ pc = "cClear" /\ pc' = "cClear" /\ UNCHANGED <<has, started>>
           /\ \/ \E s \in toWrite : WriteDesc(s, 0) /\ toWrite' = toWrite \ {s}
              \/ \E x \in toClear : WriteIndexes(x, 0) /\ toClear' = toClear \ {x}
  <2>1. UNCHANGED <<dmaCtl, linked>> /\ (toWrite # {} \/ toClear # {})
    BY <1>8 DEF WriteDesc, WriteIndexes
  <2>2. started
    BY <1>0, <2>1 DEF OfficialInv
  <2> QED BY <1>3, <1>8, <2>1, <2>2 DEF Stopped
<1>9. CASE ResetStep
  <2>1. Phase' = Phase /\ MapKept /\ UNCHANGED started /\ (KernelCloses \/ WordsKept)
    BY <1>9 DEF ResetStep, Phase
  <2> QED BY <1>0, <2>1, ResetView
<1>10. CASE CloseStep(7, "exit") \/ GoneStep("killed") \/ IdleStep
  BY <1>0, <1>10, CloseStepView, GoneView, IdleView
<1> HIDE DEF Plain
<1> QED BY <1>1, <1>4, <1>5, <1>6, <1>7, <1>8, <1>9, <1>10 DEF OfficialStep

LEMMA ControlView ==
  ASSUME BenchInv, tool = "control", RingControlStep PROVE ContractStep
<1>0. CardTypes /\ CardInv /\ ControlInv
  BY DEF BenchInv, TypeInv
<1>1. CASE DirectOpen("baseline")
  <2>1. ~ started /\ pc = "setup"
    BY <1>0, <1>1 DEF DirectOpen, ControlInv
  <2> QED BY <1>1, <2>1, OpenView DEF DirectOpen, MapKept
<1>2. ASSUME NEW p, NEW q, DirectLook(p, q), p \notin {"idle", "exit", "killed"},
             q \notin {"idle", "exit", "killed"}
      PROVE  ContractStep
  BY <1>2, ContractKeep DEF DirectLook, MapKept, Mapped, Phase
<1>3. ASSUME NEW v, NEW p, NEW q, TargetStep(p, v, q),
             \/ p = "writeOne" /\ q = "afterWrite"
             \/ p = "writeZero" /\ q = "afterRestore"
      PROVE  ContractStep
  <2>1. pc = p /\ pc' = q /\ started' /\ UNCHANGED <<dmaCtl, linked, has>>
    BY <1>3 DEF TargetStep
  <2>2. Phase = "running" /\ Phase' = "running"
    BY <1>3, <2>1 DEF Phase
  <2>3. started \/ (linked => dmaCtl = COLD_RESET /\ Blank /\ LowBut({}))
    BY <1>0, <1>3, <2>1 DEF ControlInv, WrittenPCs
  <2>4. (linked => dmaCtl = COLD_RESET /\ Blank /\ LowBut({})) => Live = {} /\ ~ Dirty
    <3>1. CASE linked
      BY <1>0, <3>1, CardView, FourWords
    <3> QED BY <3>1, CardView
  <2> QED BY <2>1, <2>2, <2>3, <2>4, WriteView
<1>4. CASE /\ pc = "reset" /\ pc' = "recovered" /\ KernelCloses
           /\ UNCHANGED <<has, started>>
  <2>1. Phase' = Phase /\ MapKept
    BY <1>4 DEF Phase, MapKept, Mapped
  <2> QED BY <1>0, <1>4, <2>1, ResetView
<1>5. CASE pc \in {"setup", "baseline", "reset"} /\ GoneStep("exit")
  <2>1. started => pc \in OverPCs
    BY <1>0, <1>5 DEF ControlInv, OverPCs
  <2> QED BY <1>0, <1>5, <2>1, GoneView
<1>6. CASE CloseStep(5, "exit") \/ GoneStep("killed") \/ IdleStep
  BY <1>0, <1>6, CloseStepView, GoneView, IdleView
<1>7. CASE \/ DirectLook("baseline", "writeOne") \/ DirectLook("afterWrite", "afterWait")
           \/ DirectLook("afterWait", "writeZero") \/ DirectLook("afterRestore", "reset")
           \/ DirectLook("recovered", "release")
  BY <1>2, <1>7
<1>8. CASE TargetStep("writeOne", 1, "afterWrite") \/ TargetStep("writeZero", 0, "afterRestore")
  BY <1>3, <1>8
<1> QED BY <1>1, <1>4, <1>5, <1>6, <1>7, <1>8 DEF RingControlStep

LEMMA ReaderView ==
  ASSUME BenchInv, \/ tool = "recovery" /\ RecoveryStep
                   \/ tool = "reader" /\ ReaderStep
  PROVE  ContractStep
<1>0. CardTypes /\ CardInv /\ ~ started
  BY DEF BenchInv, TypeInv, ReaderInv
<1>1. ASSUME NEW next \in {"baseline", "canary", "read"}, DirectOpen(next) PROVE ContractStep
  <2>1. /\ pc = "setup" /\ pc' \notin {"exit", "killed", "idle"} /\ WordsKept /\ UNCHANGED started
        /\ MapKept \/ Mapped'
    BY <1>1 DEF DirectOpen, MapKept
  <2>2. CASE MapKept \/ Mapped'
    BY <1>0, <2>1, <2>2, OpenView
  <2> QED BY <2>1, <2>2
<1>2. ASSUME NEW p, NEW q, DirectLook(p, q), p \notin {"idle", "exit", "killed"},
             q \notin {"idle", "exit", "killed"}
      PROVE  ContractStep
  BY <1>2, ContractKeep DEF DirectLook, MapKept, Mapped, Phase
<1>3. CASE pc = "reset" /\ pc' = "recovery" /\ KernelCloses /\ UNCHANGED <<has, started>>
  <2>1. Phase' = Phase /\ MapKept
    BY <1>3 DEF Phase, MapKept, Mapped
  <2> QED BY <1>0, <1>3, <2>1, ResetView
<1>4. CASE pc = "unmap" /\ pc' = "release" /\ ~ Mapped' /\ WordsKept /\ UNCHANGED started
  <2>1. Phase = "running" /\ Phase' = "running" /\ Live' = Live /\ (Dirty' <=> Dirty)
    BY <1>4, CardView DEF Phase
  <2> QED BY <1>0, <1>4, <2>1, AsUnmap
<1>5. CASE GoneStep("exit") \/ GoneStep("killed") \/ IdleStep
  BY <1>0, <1>5, GoneView, IdleView
<1>6. ASSUME NEW k, CloseStep(k, "exit") PROVE ContractStep
  BY <1>0, <1>6, CloseStepView
<1>7. CASE RecoveryStep
  <2>1. CASE DirectLook("baseline", "reset") \/ DirectLook("recovery", "recovery")
             \/ DirectLook("recovery", "release")
    BY <1>2, <2>1
  <2> QED BY <1>1, <1>3, <1>5, <1>6, <1>7, <2>1 DEF RecoveryStep
<1>8. CASE ReaderStep
  <2>1. CASE DirectLook("read", "release") \/ DirectLook("canary", "unmap")
    BY <1>2, <2>1
  <2>2. CASE DirectOpen(IF kind = "map" THEN "canary" ELSE "read")
    BY <1>1, <2>2
  <2>3. CASE CloseStep(IF kind = "map" THEN 4 ELSE 5, "exit")
    BY <1>6, <2>3
  <2> QED BY <1>4, <1>5, <1>8, <2>1, <2>2, <2>3 DEF ReaderStep
<1> QED BY <1>7, <1>8

LEMMA BenchContract ==
  ASSUME BenchInv, [Next]_vars PROVE ContractStep
<1>1. CASE Begin
  <2>1. /\ pc \in Stopped /\ pc' \in {"setup", "cleanup", "exit"} /\ ~ started'
        /\ WordsKept /\ UNCHANGED has
    BY <1>1, Started DEF Launch, StartAt, cardVars, WordsKept
  <2>2. Phase # "running" /\ Phase' \in {"running", "rest"} /\ MapKept
    BY <2>1 DEF Phase, Stopped, MapKept, Mapped
  <2> QED BY <2>1, <2>2, CardView, AsBegin
<1>2. CASE Go
  BY <1>2, StepKinds, Dsp0View, OfficialView, ControlView, ReaderView
<1>3. CASE UNCHANGED vars
  <2>1. WordsKept /\ MapKept /\ UNCHANGED started /\ Phase' = Phase
    BY <1>3 DEF vars, cardVars, sessionVars, WordsKept, MapKept, Mapped, Phase
  <2> QED BY <2>1, ContractKeep
<1> QED BY <1>1, <1>2, <1>3 DEF Next

\* Any history of runs of the small tools is a history of abstract experiments:
\* a tool writes first to a card that it found clear, enables an engine over
\* mapped pages only, unmaps under no engine of its own, and leaves a clear
\* card behind its last write unless it is killed.
THEOREM BenchRefines == Spec => ImplementsExperiment
<1>1. ASSUME Init PROVE Contract!Init
  <2>1. pc = "idle" /\ ~ started /\ has = {} /\ dmaCtl.enable = {}
    BY <1>1, FirstState DEF SessionInit, CardInit, COLD_RESET, GLOBAL_ONLY
  <2>2. /\ \A s \in DescSlots : desc[s] = 0
        /\ \A x \in RingIds : idx[x].bell = 0 /\ idx[x].write = 0
    BY <1>1, FirstState DEF CardInit
  <2>3. {d \in DSPS : EngineLive(d)} = {}
    BY <2>1 DEF EngineLive
  <2> QED BY <2>1, <2>2, <2>3 DEF Contract!Init
<1>2. BenchInv /\ [Next]_vars => [Contract!Next]_(Contract!vars)
  BY BenchContract DEF ContractStep
<1> QED BY <1>1, <1>2, BenchInductive, PTL DEF Spec, ImplementsExperiment, Contract!Spec
=============================================================================
