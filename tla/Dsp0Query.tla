----------------------------- MODULE Dsp0Query -----------------------------
(***************************************************************************)
(* tools/vfio_query_command.c, experiments 009 and 010: enable DSP 0 only, *)
(* offer a response buffer and one query, with or without the interrupt    *)
(* gates, and judge the answer by the index values of the last poll.       *)
(***************************************************************************)
EXTENDS VfioExchange, Dsp0Steps

VARIABLE gates   \* interrupt_gates_requested

toolVars == <<modified, gates>>
vars == <<cardVars, sessionVars, exchangeVars, toolVars>>

SetupOrder ==
  <<"container", "group", "set", "memory", "dma", "device", "bar">>
ReleaseOrder ==
  <<"bar", "device", "dma", "memory", "set", "group", "container">>

Init ==
  /\ CardInit /\ SessionInit /\ ExchangeInit
  /\ modified = {} /\ gates = FALSE

----------------------------------------------------------------------------
\* A usage error returns at once; a wrong page size goes to the cleanup label.
Begin ==
  /\ Launch /\ ExchangeReset
  /\ pc' \in {"setup", "cleanup", "exit"}
  /\ gates' \in BOOLEAN /\ modified' = {}

Setup ==
  /\ Acquire("setup", SetupOrder, "baseline") \/ AcquireFails("setup", SetupOrder)
  /\ UNCHANGED <<exchangeVars, toolVars>>

\* Mutant: the index words are not part of the baseline.
Baseline_NoIndexes ==
  /\ pc = "baseline"
  /\ IF /\ linked /\ AllDspsReady /\ ReadDma = COLD_RESET /\ ~ intEn
        /\ \A s \in DescSlots : desc[s] = 0
     THEN Goto("publish") /\ toWrite' = FiveDescriptors
     ELSE Goto("cleanup") /\ UNCHANGED toWrite
  /\ UNCHANGED <<cardVars, run, n, dsp, ring, toClear, has, flagVars,
                 exchangeVars, toolVars>>

Baseline ==
  /\ pc = "baseline"
  /\ IF ColdBaseline THEN Goto("publish") /\ toWrite' = FiveDescriptors
                     ELSE Goto("cleanup") /\ UNCHANGED toWrite
  /\ UNCHANGED <<cardVars, run, n, dsp, ring, toClear, has, flagVars,
                 exchangeVars, toolVars>>

Publish ==
  /\ PublishWord \/ Published("resetGlobal")
  /\ UNCHANGED <<exchangeVars, gates>>

EnableEngine ==
  EnableDsp0(IF gates THEN "gates" ELSE "postResponse")
  /\ UNCHANGED <<exchangeVars, gates>>

\* Three vectors are armed one after the other, then read back.
ArmGates ==
  \/ /\ pc = "gates"
     /\ intEn' = (linked \/ intEn)
     /\ modified' = modified \cup {"gates"}
     /\ Goto("gatesRead")
     /\ UNCHANGED <<dmaCtl, desc, idx, ready, linked, run, n, loopVars, has,
                    flagVars, exchangeVars, gates>>
  \/ /\ Check("gatesRead", linked, "postResponse") \/ Refuse("gatesRead")
     /\ UNCHANGED <<exchangeVars, toolVars>>

\* The two index words of a ring, and its interrupt bit behind the gates.
Offer(from, x, next) ==
  /\ pc = from
  /\ IF gates THEN Doorbell(x, 1) ELSE WriteIndexes(x, 1)
  /\ modified' = modified \cup {"controls"}
  /\ Goto(next)
  /\ UNCHANGED <<run, n, loopVars, has, flagVars, exchangeVars, gates>>

Submit ==
  \/ Offer("postResponse", Resp0, "postCommand")
  \/ Offer("postCommand", Cmd0, "poll")

\* Mutant: the positions are read again after the loop.
Poll_ReadAgain ==
  /\ pc = "poll"
  /\ IF poll < Polls /\ ~ interrupted /\ ~ AnswerSeen(1, 1)
     THEN poll' = poll + 1 /\ UNCHANGED <<pc, n, cmdDone, respDone>>
     ELSE /\ cmdDone' = (ReadIndex(Cmd0) = 1) /\ respDone' = (ReadIndex(Resp0) = 1)
          /\ Goto("copy") /\ n' = 1 /\ UNCHANGED poll
  /\ UNCHANGED <<cardVars, run, loopVars, has, flagVars, buf, stray, resp,
                 reported, toolVars>>

\* One turn of the loop keeps the two positions that it read.
Poll ==
  /\ pc = "poll"
  /\ IF poll < Polls /\ ~ interrupted
     THEN /\ cmdDone' = (ReadIndex(Cmd0) = 1)
          /\ respDone' = (ReadIndex(Resp0) = 1)
          /\ IF AnswerSeen(1, 1) THEN Goto("copy") /\ n' = 1 /\ UNCHANGED poll
                                 ELSE poll' = poll + 1 /\ UNCHANGED <<pc, n>>
     ELSE Goto("copy") /\ n' = 1 /\ UNCHANGED <<poll, cmdDone, respDone>>
  /\ UNCHANGED <<cardVars, run, loopVars, has, flagVars, buf, stray, resp,
                 reported, toolVars>>

ReadBack == CopyWord("judge") /\ UNCHANGED toolVars

Judge ==
  /\ JudgeAs(/\ ~ interrupted /\ cmdDone /\ respDone
             /\ resp[1] = "expected" /\ AllDspsReady /\ ~ stray)
  /\ UNCHANGED toolVars

\* interrupt_gates_restored
RestoreGates ==
  \/ /\ pc = "cGates"
     /\ IF "gates" \in modified THEN DisableInterrupts /\ Goto("cGatesRead")
                                ELSE UNCHANGED cardVars /\ Goto("cControls")
     /\ UNCHANGED <<run, n, loopVars, has, flagVars, modified>>
  \/ /\ pc = "cGatesRead"
     /\ success' = (success /\ linked /\ ~ intEn)
     /\ Goto("cControls")
     /\ UNCHANGED <<cardVars, run, n, loopVars, has, interrupted, started,
                    modified>>

\* Mutant: the control register is left as it is.
Cleanup_KeepEngine ==
  /\ \/ pc = "cleanup" /\ Goto("cControls")
        /\ UNCHANGED <<cardVars, run, n, loopVars, has, flagVars, modified>>
     \/ ClearEnter("cControls", {Cmd0, Resp0}, FiveDescriptors)
     \/ ClearWords(FiveDescriptors, "cVfioReset")
  /\ UNCHANGED <<exchangeVars, gates>>

Cleanup ==
  /\ \/ RestoreControl("cGates") \/ RestoreGates
     \/ ClearEnter("cControls", {Cmd0, Resp0}, FiveDescriptors)
     \/ ClearWords(FiveDescriptors, "cVfioReset")
  /\ UNCHANGED <<exchangeVars, gates>>

DeviceReset ==
  /\ VfioReset("release") \/ VfioRecovered("release")
  /\ UNCHANGED <<exchangeVars, toolVars>>

ReleaseAll ==
  /\ Release("release", ReleaseOrder, "report")
  /\ UNCHANGED <<exchangeVars, toolVars>>

Report == ReportThen("exit") /\ UNCHANGED toolVars

Environment == (Disturb \/ CardWork(1)) /\ UNCHANGED toolVars

Main ==
  \/ Setup \/ Baseline \/ Publish \/ EnableEngine \/ ArmGates \/ Submit \/ Poll
  \/ ReadBack \/ Judge \/ Cleanup \/ DeviceReset \/ ReleaseAll \/ Report

Next == Begin \/ Main \/ Environment

Spec == Init /\ [][Next]_vars

----------------------------------------------------------------------------
\* docs/experiment-009-official-query.md: "Any timeout or unexpected reply is
\* a failed observation".  A success was seen before the last poll ran out
\* and its words are the whole answer, although the words are copied after
\* the positions were read.
AnswerInTime ==
  pc = "exit" /\ success =>
    poll < Polls /\ resp = buf /\ \A w \in Words : buf[w] # "canary"
=============================================================================
