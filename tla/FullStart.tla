----------------------------- MODULE FullStart -----------------------------
(***************************************************************************)
(* tools/vfio_full_octo_start.c, experiments 013 and 017: publish empty    *)
(* rings on every DSP, optionally reset each DSP on its own, look at the   *)
(* card and the pages, and put everything back.                            *)
(***************************************************************************)
EXTENDS VfioSession

VARIABLES
  exercise,   \* exercise_resets
  indexes,    \* the bounded hardware indexes written to the rings
  published,  \* publication_ok
  passed,     \* reset_pass_mask, as a set of DSPs
  resetsOk,   \* per_dsp_resets_ok
  changed,    \* a canary page no longer holds its canary
  pagesOk     \* pages_ok

toolVars == <<exercise, indexes, published, passed, resetsOk, changed, pagesOk>>
vars == <<cardVars, sessionVars, toolVars>>

SetupOrder ==
  <<"container", "group", "set", "memory", "dma", "device", "bar">>
ReleaseOrder ==
  <<"bar", "device", "dma", "memory", "set", "group", "container">>

Init ==
  /\ CardInit /\ SessionInit
  /\ exercise = FALSE
  /\ indexes = [x \in RingIds |-> 0]
  /\ published = FALSE /\ passed = {} /\ resetsOk = TRUE
  /\ changed = FALSE /\ pagesOk = FALSE

----------------------------------------------------------------------------
\* main() up to the first open: a wrong argument or page size goes straight
\* to the cleanup label.
Begin ==
  /\ Launch
  /\ exercise' \in BOOLEAN
  /\ pc' \in {"setup", "cleanup"}
  /\ indexes' = [x \in RingIds |-> 0]
  /\ published' = FALSE /\ passed' = {} /\ resetsOk' = TRUE
  /\ changed' = FALSE /\ pagesOk' = FALSE

Setup ==
  /\ Acquire("setup", SetupOrder, "baseline") \/ AcquireFails("setup", SetupOrder)
  /\ UNCHANGED toolVars

\* Mutant: leftover ring words are not refused.
Baseline_AnyRings ==
  /\ Check("baseline", AllDspsReady /\ linked /\ ~ intEn, "startup")
  /\ UNCHANGED toolVars

Baseline ==
  /\ Check("baseline", ColdBaseline, "startup") \/ Refuse("baseline")
  /\ UNCHANGED toolVars

Quiet == (Quiesce \/ ResetGlobal \/ GlobalOnly) /\ UNCHANGED toolVars

\* bounded_index, then the index words of the ring.
BoundedIndex ==
  LET raw == ReadIndex(<<dsp, ring>>)
      index == IF raw < Entries THEN raw ELSE 0
  IN  /\ RingIndex(index)
      /\ indexes' = [indexes EXCEPT ![<<dsp, ring>>] = index]
      /\ UNCHANGED <<exercise, published, passed, resetsOk, changed, pagesOk>>

Publish == (RingDesc \/ RingDone) /\ UNCHANGED toolVars

\* Mutant: every engine is enabled with the first shadow.
EnableDsp_All ==
  /\ pc = "enable"
  /\ WriteDma(ALL_DSPS)
  /\ IF dsp = NDsp - 1 THEN Goto("publication") /\ dsp' = 0
                       ELSE Goto("ringIndex") /\ dsp' = dsp + 1
  /\ UNCHANGED <<run, n, ring, toWrite, toClear, has, flagVars, toolVars>>

EnableDsp == Enable("publication") /\ UNCHANGED toolVars

----------------------------------------------------------------------------
\* all_rings_match
AllRingsMatch ==
  /\ linked
  /\ \A x \in RingIds : idx[x].bell = indexes[x] /\ idx[x].write = indexes[x]
  /\ \A s \in DescSlots : desc[s] # 0

Publication ==
  /\ pc = "publication"
  /\ published' = AllRingsMatch
  /\ Goto(IF exercise /\ AllRingsMatch THEN "rTest" ELSE "observe")
  /\ UNCHANGED <<cardVars, run, n, loopVars, has, flagVars, exercise, indexes,
                 passed, resetsOk, changed, pagesOk>>

(* The loop over the DSPs.  The pulse drops the enable bit of one DSP.     *)

Disabled(d) == [ALL_DSPS EXCEPT !.enable = DSPS \ {d}]

ResetTest ==
  /\ pc = "rTest"
  /\ Goto(IF interrupted THEN "observe" ELSE "rPulse")
  /\ UNCHANGED <<cardVars, run, n, loopVars, has, flagVars, toolVars>>

ResetPulse ==
  /\ pc = "rPulse"
  /\ WriteDma([Disabled(dsp) EXCEPT !.reset = {dsp}])
  /\ Goto("rRelease")
  /\ UNCHANGED <<run, n, loopVars, has, flagVars, toolVars>>

ResetRelease ==
  /\ pc = "rRelease"
  /\ WriteDma(Disabled(dsp))
  /\ Goto("rCheck")
  /\ UNCHANGED <<run, n, loopVars, has, flagVars, toolVars>>

ResetCheck ==
  LET ok == ReadDma = Disabled(dsp) /\ AllDspsReady
  IN  /\ pc = "rCheck"
      /\ resetsOk' = ok
      /\ Goto(IF ok THEN "rEnable" ELSE "observe")
      /\ UNCHANGED <<cardVars, run, n, loopVars, has, flagVars, exercise,
                     indexes, published, passed, changed, pagesOk>>

ResetEnable ==
  /\ pc = "rEnable"
  /\ WriteDma(ALL_DSPS)
  /\ Goto("rVerify")
  /\ UNCHANGED <<run, n, loopVars, has, flagVars, toolVars>>

ResetVerify ==
  LET ok == ReadDma = ALL_DSPS /\ AllDspsReady
      last == dsp = NDsp - 1
  IN  /\ pc = "rVerify"
      /\ resetsOk' = ok
      /\ passed' = IF ok THEN passed \cup {dsp} ELSE passed
      /\ dsp' = IF ok /\ ~ last THEN dsp + 1 ELSE dsp
      /\ Goto(IF ok /\ ~ last THEN "rTest" ELSE "observe")
      /\ UNCHANGED <<cardVars, run, n, ring, toWrite, toClear, has, flagVars,
                     exercise, indexes, published, changed, pagesOk>>

----------------------------------------------------------------------------
\* pages_unchanged after the wait
Observe ==
  /\ pc = "observe"
  /\ pagesOk' = ~ changed
  /\ Goto("judge")
  /\ UNCHANGED <<cardVars, run, n, loopVars, has, flagVars, exercise, indexes,
                 published, passed, resetsOk, changed>>

Verdict ==
  /\ published /\ pagesOk /\ AllDspsReady
  /\ linked /\ ~ intEn
  /\ ReadDma = ALL_DSPS
  /\ exercise => resetsOk

\* Mutant: a reset loop that a signal cut short is judged like a whole one.
Judge_IgnoreSignal ==
  /\ pc = "judge"
  /\ success' = Verdict
  /\ Goto("cleanup")
  /\ UNCHANGED <<cardVars, run, n, loopVars, has, interrupted, started, toolVars>>

Judge ==
  /\ pc = "judge"
  /\ success' = (~ interrupted /\ Verdict)
  /\ Goto("cleanup")
  /\ UNCHANGED <<cardVars, run, n, loopVars, has, interrupted, started, toolVars>>

\* Mutant: the registers are restored only after a good run.
Cleanup_OnlyIfGood ==
  /\ \/ /\ pc = "cleanup"
        /\ Goto(IF success THEN "cInt" ELSE "cVfioReset")
        /\ UNCHANGED <<cardVars, run, n, loopVars, has, flagVars>>
     \/ CleanupInt \/ CleanupReset \/ CleanupGlobal \/ CleanupClear
     \/ CleanupCold \/ CleanupRestored
  /\ UNCHANGED toolVars

Cleanup ==
  /\ \/ CleanupEnter \/ CleanupInt \/ CleanupReset \/ CleanupGlobal
     \/ CleanupClear \/ CleanupCold \/ CleanupRestored
  /\ UNCHANGED toolVars

DeviceReset ==
  /\ VfioReset("release") \/ VfioRecovered("release")
  /\ UNCHANGED toolVars

ReleaseAll ==
  Release("release", ReleaseOrder, "exit") /\ UNCHANGED toolVars

----------------------------------------------------------------------------
\* A running engine may write to the pages it can reach.
PageWrite ==
  /\ \E d \in DSPS : EngineLive(d)
  /\ "dma" \in has /\ ~ changed
  /\ changed' = TRUE
  /\ UNCHANGED <<cardVars, sessionVars, exercise, indexes, published, passed,
                 resetsOk, pagesOk>>

Environment ==
  \/ (Signal \/ Kill) /\ UNCHANGED toolVars
  \/ CardStep /\ UNCHANGED <<sessionVars, toolVars>>
  \/ PageWrite

Main ==
  \/ Setup \/ Baseline \/ Quiet \/ BoundedIndex \/ Publish \/ EnableDsp
  \/ Publication \/ ResetTest \/ ResetPulse \/ ResetRelease \/ ResetCheck
  \/ ResetEnable \/ ResetVerify \/ Observe \/ Judge
  \/ Cleanup \/ DeviceReset \/ ReleaseAll

Next == Begin \/ Main \/ Environment

Spec == Init /\ [][Next]_vars
FairSpec == Spec /\ WF_vars(Main)

----------------------------------------------------------------------------
\* Every variable stays in its type.
TypeOK ==
  /\ SessionTypeOK
  /\ exercise \in BOOLEAN /\ published \in BOOLEAN /\ resetsOk \in BOOLEAN
  /\ changed \in BOOLEAN /\ pagesOk \in BOOLEAN
  /\ passed \in SUBSET DSPS
  /\ indexes \in [RingIds -> 0 .. Entries - 1]

\* A success with --exercise-dsp-resets means that every DSP was reset and
\* came back, although a signal may end the loop with per_dsp_resets_ok still
\* true.
SuccessResetAll ==
  pc = "exit" /\ success /\ exercise => passed = DSPS
=============================================================================
