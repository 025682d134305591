-------------------------- MODULE FullQueryProofs --------------------------
(***************************************************************************)
(* TLAPS proofs about FullQuery, for any number of DSPs, ring pages,       *)
(* polls, response words and runs of the tool, and any ring that has room  *)
(* for the connect sequence: in which order the card sees the doorbells,   *)
(* what a success says about the answer, and that the tool implements the  *)
(* abstract Experiment.                                                    *)
(***************************************************************************)
EXTENDS FullQuery, UadCardProofs

----------------------------------------------------------------------------
(* The inductive invariant.                                                *)

\* From the baseline test to the last enable shadow.
EarlyPCs == {"indexes", "startup", "resetGlobal", "globalOnly", "ringIndex",
             "ringDesc", "enable"}
ConnectPCs == {"connect", "clock", "connectPoll"}
CopiedPCs == {"readCommand", "readResponse", "judge"}
\* After the verdict.
LatePCs == {"cleanup", "cInt", "cReset", "cGlobal", "cClear", "cCold",
            "cRestored", "cVfioReset", "cRecovered", "report", "release",
            "exit", "killed"}

Bell(x) == idx[x].bell
Read(x) == idx[x].read
\* Commands that the connect sequence sends to DSP d.
Sent(d) == IF d = 0 THEN 2 ELSE 1

Answers == {"canary", "expected", "other"}
Full == \A w \in Words : buf[w] # "canary"
\* The poll itself ended the wait.
Seen == poll < Polls /\ ~ interrupted

\* The indexes read before the startup are zero: the baseline test refuses
\* a card with any other, and what a lost card returns is not bounded.
QueryTypeOK ==
  /\ IdxOK
  /\ dsp \in DSPS /\ ring \in RINGS /\ toClear \in SUBSET RingIds
  /\ n \in Nat \ {0} /\ poll \in Nat
  /\ buf \in [Words -> Answers] /\ resp \in [Words -> Answers]
  /\ connect \in BOOLEAN
  /\ indexes = [x \in RingIds |-> 0]

\* The index words of an answering card, from the baseline test to the verdict.
BellInv ==
  linked =>
    /\ pc \in EarlyPCs => \A x \in RingIds : Bell(x) = 0 /\ Read(x) = 0
    /\ pc \in ConnectPCs \cup {"postResponse"} => Bell(Resp0) = 0 /\ Read(Resp0) = 0
    /\ pc = "connect" => \A d \in DSPS : Bell(<<d, 0>>) = (IF d < dsp THEN 1 ELSE 0)
    /\ pc = "clock" => \A d \in DSPS : Bell(<<d, 0>>) = 1
    /\ pc = "connectPoll" => \A d \in DSPS : Bell(<<d, 0>>) = Sent(d)
    /\ pc \in {"postResponse", "postCommand"} =>
         (connect => \A d \in DSPS : Bell(<<d, 0>>) = Sent(d) /\ Read(<<d, 0>>) = Sent(d))
    /\ pc \in {"postCommand"} \cup InFlight =>
         Bell(Resp0) = 1 /\ (Read(Resp0) = 0 \/ (Read(Resp0) = 1 /\ Full))
    /\ pc \in InFlight /\ connect =>
         /\ Bell(Cmd0) = 3 /\ Read(Cmd0) \in {2, 3}
         /\ \A d \in DSPS \ {0} : Bell(<<d, 0>>) = 1 /\ Read(<<d, 0>>) = 1

\* The query is visible only with its response buffer, to the end of the
\* clearing loop, which takes the command ring first.
OfferInv ==
  /\ pc \in ConnectPCs => connect
  /\ started /\ linked /\ Bell(Cmd0) = (IF connect THEN 3 ELSE 1) => Bell(Resp0) = 1
  /\ linked /\ pc = "cClear" => Cmd0 \in toClear \/ Bell(Cmd0) = 0

\* What has been copied, read and concluded.
AnswerInv ==
  /\ respDone => Full
  /\ pc = "copy" => /\ n \in Words
                    /\ Seen => Full /\ \A w \in 1 .. n - 1 : resp[w] = buf[w]
  /\ pc \in CopiedPCs /\ Seen => Full /\ resp = buf
  /\ success => /\ pc \in LatePCs
                /\ Full /\ resp[1] = "expected"
                /\ poll < Polls => resp = buf

QueryInv == QueryTypeOK /\ BellInv /\ OfferInv /\ AnswerInv

----------------------------------------------------------------------------
(* Facts about the operators.                                              *)

LEMMA Zeros == Cmd0 \in RingIds /\ Resp0 \in RingIds /\ 0 \in DSPS
               /\ \A d \in DSPS : <<d, 0>> \in RingIds
BY CardAssumption DEF Cmd0, Resp0, RingIds, DSPS, RINGS

\* With the indexes that the baseline test lets through.
LEMMA Positions ==
  ASSUME QueryTypeOK
  PROVE  /\ CommandPosition = IF connect THEN 3 ELSE 1
         /\ ResponsePosition = 1
<1>1. indexes[Cmd0] = 0 /\ indexes[Resp0] = 0
  BY Zeros DEF QueryTypeOK
<1>2. Entries \in Nat /\ Entries > 3
  BY CardAssumption, QueryAssumption
<1>3. 1 % Entries = 1 /\ 3 % Entries = 3
  BY <1>2, SmallMod
<1>4. 0 + 1 = 1 /\ 2 + 1 = 3
  OBVIOUS
<1> QED BY <1>1, <1>3, <1>4 DEF CommandPosition, ResponsePosition, QueryIndex

LEMMA Rung ==
  ASSUME IdxOK, NEW x \in RingIds, NEW v \in 0 .. Entries, Doorbell(x, v)
  PROVE  IdxOK' /\ linked' = linked /\ Placed(x, v)
BY PlacedBy DEF Doorbell

LEMMA Cleared ==
  ASSUME IdxOK, NEW x \in RingIds, ClearRing(x)
  PROVE  IdxOK' /\ linked' = linked /\ Placed(x, 0)
<1>1. 0 \in 0 .. Entries
  BY CardAssumption
<1> QED BY <1>1, PlacedBy DEF ClearRing

\* The card moves its own index.
LEMMA Advanced ==
  ASSUME IdxOK, NEW x \in RingIds, Advance(x)
  PROVE  /\ IdxOK'
         /\ idx'[x].bell = idx[x].bell
         /\ idx'[x].read = (idx[x].read + 1) % Entries
         /\ \A y \in RingIds \ {x} : idx'[y] = idx[y]
BY MovedBy DEF Advance

\* A reset by the kernel leaves the words as they are or makes them zero.
LEMMA Closed ==
  ASSUME IdxOK, KernelCloses
  PROVE  /\ IdxOK' /\ linked' = linked
         /\ idx' = idx \/ \A x \in RingIds : idx'[x].bell = 0
<1>1. CASE FunctionReset
  <2>1. CASE linked
    <3>1. idx' = [x \in RingIds |-> [bell |-> 0, write |-> 0, read |-> 0]] /\ linked' = linked
      BY <1>1, <2>1 DEF FunctionReset
    <3>2. [bell |-> 0, write |-> 0, read |-> 0] \in IdxWord
      BY CardAssumption DEF IdxWord
    <3> QED BY <3>1, <3>2 DEF IdxOK
  <2>2. CASE ~ linked
    BY <1>1, <2>2 DEF FunctionReset, IdxOK
  <2> QED BY <2>1, <2>2
<1>2. CASE UNCHANGED cardVars
  BY <1>2 DEF cardVars, IdxOK
<1> QED BY <1>1, <1>2 DEF KernelCloses

\* Every operation keeps the types; a card that passed the baseline test and
\* one that is lost both give zero for every index.
LEMMA TypeStep ==
  ASSUME QueryTypeOK, BellInv, AnswerInv, [Next]_vars PROVE QueryTypeOK'
<1> USE CardAssumption, ExchangeAssumption, Zeros DEF QueryTypeOK, loopVars, flagVars, sessionVars,
        exchangeVars, toolVars, Goto
<1>1. ASSUME Begin PROVE QueryTypeOK'
  <2>1. IdxOK' /\ Canary \in [Words -> Answers] /\ 0 \in RINGS
    BY <1>1 DEF Begin, Launch, cardVars, IdxOK, Canary, Answers, RINGS
  <2> QED BY <1>1, <2>1 DEF Begin, Launch, ExchangeReset
<1>2. ASSUME Acquire("setup", SetupOrder, "baseline"), UNCHANGED <<exchangeVars, toolVars>> PROVE QueryTypeOK'
  <2>1. IdxOK' /\ n' \in Nat \ {0}
    BY <1>2 DEF Acquire, cardVars, IdxOK
  <2> QED BY <1>2, <2>1 DEF Acquire
<1>3. ASSUME AcquireFails("setup", SetupOrder), UNCHANGED <<exchangeVars, toolVars>> PROVE QueryTypeOK'
  BY <1>3 DEF AcquireFails, cardVars, IdxOK
<1>4. ASSUME Baseline PROVE QueryTypeOK'
  BY <1>4 DEF Baseline, Check, cardVars, IdxOK
<1>5. ASSUME ReadIndexes PROVE QueryTypeOK'
  <2>1. ASSUME NEW x \in RingIds
        PROVE  (IF ReadIndex(x) < Entries THEN ReadIndex(x) ELSE 0) = 0
    <3>1. CASE linked
      BY <1>5, <3>1 DEF ReadIndexes, Check, BellInv, EarlyPCs, ReadIndex, Read
    <3>2. CASE ~ linked
      BY <3>2 DEF ReadIndex
    <3> QED BY <3>1, <3>2
  <2>2. indexes' = [x \in RingIds |-> IF ReadIndex(x) < Entries THEN ReadIndex(x) ELSE 0]
    BY <1>5 DEF ReadIndexes
  <2>3. indexes' = [x \in RingIds |-> 0]
    BY <2>1, <2>2
  <2>4. IdxOK'
    BY <1>5 DEF ReadIndexes, Check, cardVars, IdxOK
  <2> QED BY <1>5, <2>3, <2>4 DEF ReadIndexes, Check
<1>6. ASSUME Quiesce, UNCHANGED <<exchangeVars, toolVars>> PROVE QueryTypeOK'
  BY <1>6 DEF Quiesce, DisableInterrupts, cardVars, IdxOK
<1>7. ASSUME ResetGlobal, UNCHANGED <<exchangeVars, toolVars>> PROVE QueryTypeOK'
  <2>1. IdxOK'
    BY <1>7, DmaWrite DEF ResetGlobal
  <2> QED BY <1>7, <2>1 DEF ResetGlobal
<1>8. ASSUME GlobalOnly, UNCHANGED <<exchangeVars, toolVars>> PROVE QueryTypeOK'
  <2>1. IdxOK'
    BY <1>8, DmaWrite DEF GlobalOnly
  <2> QED BY <1>8, <2>1 DEF GlobalOnly, RINGS
<1>9. ASSUME RingIndex(indexes[<<dsp, ring>>]), UNCHANGED <<exchangeVars, toolVars>> PROVE QueryTypeOK'
  <2>1. <<dsp, ring>> \in RingIds
    BY DEF RingIds
  <2>2. indexes[<<dsp, ring>>] = 0 /\ 0 \in 0 .. Entries
    BY <2>1
  <2>3. IdxOK'
    BY <1>9, <2>1, <2>2, IndexWrite DEF RingIndex
  <2> QED BY <1>9, <2>3 DEF RingIndex
<1>10. ASSUME RingDesc, UNCHANGED <<exchangeVars, toolVars>> PROVE QueryTypeOK'
  BY <1>10 DEF RingDesc, WriteDesc, cardVars, IdxOK
<1>11. ASSUME RingDone, UNCHANGED <<exchangeVars, toolVars>> PROVE QueryTypeOK'
  <2>1. IdxOK' /\ ring' \in RINGS
    BY <1>11 DEF RingDone, cardVars, IdxOK, RINGS
  <2> QED BY <1>11, <2>1 DEF RingDone
<1>12. ASSUME Enable(IF connect THEN "connect" ELSE "postResponse"), UNCHANGED <<exchangeVars, toolVars>> PROVE QueryTypeOK'
  <2>1. IdxOK'
    BY <1>12, DmaWrite DEF Enable
  <2>2. dsp' \in DSPS
    BY <1>12 DEF Enable, DSPS
  <2> QED BY <1>12, <2>1, <2>2 DEF Enable
<1>13. ASSUME Connect, UNCHANGED toolVars PROVE QueryTypeOK'
  <2>1. IdxOK'
    BY <1>13, Rung, QueryAssumption DEF Connect
  <2>2. dsp' \in DSPS
    BY <1>13 DEF Connect, DSPS
  <2> QED BY <1>13, <2>1, <2>2 DEF Connect
<1>14. ASSUME Clock, UNCHANGED toolVars PROVE QueryTypeOK'
  <2>1. IdxOK'
    BY <1>14, Rung, QueryAssumption DEF Clock
  <2> QED BY <1>14, <2>1 DEF Clock
<1>15. ASSUME ConnectPoll, UNCHANGED toolVars PROVE QueryTypeOK'
  <2>1. IdxOK' /\ poll' \in Nat
    BY <1>15 DEF ConnectPoll, cardVars, IdxOK
  <2> QED BY <1>15, <2>1 DEF ConnectPoll
<1>16. ASSUME Post("postResponse", Resp0, ResponsePosition, "postCommand"), UNCHANGED toolVars PROVE QueryTypeOK'
  <2>1. CommandPosition \in 0 .. Entries /\ ResponsePosition \in 0 .. Entries
    BY Positions, QueryAssumption
  <2>2. IdxOK'
    BY <1>16, <2>1, Rung DEF Post
  <2> QED BY <1>16, <2>2 DEF Post
<1>17. ASSUME Post("postCommand", Cmd0, CommandPosition, "poll"), UNCHANGED toolVars PROVE QueryTypeOK'
  <2>1. CommandPosition \in 0 .. Entries /\ ResponsePosition \in 0 .. Entries
    BY Positions, QueryAssumption
  <2>2. IdxOK'
    BY <1>17, <2>1, Rung DEF Post
  <2> QED BY <1>17, <2>2 DEF Post
<1>18. ASSUME Poll PROVE QueryTypeOK'
  <2>1. IdxOK' /\ poll' \in Nat
    BY <1>18 DEF Poll, PollAnswer, cardVars, IdxOK
  <2> QED BY <1>18, <2>1 DEF Poll, PollAnswer
<1>19. ASSUME CopyWord("readCommand"), UNCHANGED toolVars PROVE QueryTypeOK'
  <2>1. IdxOK' /\ n' \in Nat \ {0}
    BY <1>19 DEF CopyWord, cardVars, IdxOK
  <2>2. resp' \in [Words -> Answers]
    BY <1>19 DEF CopyWord, AnswerInv
  <2> QED BY <1>19, <2>1, <2>2 DEF CopyWord
<1>20. ASSUME ReadCommand(CommandPosition), UNCHANGED toolVars PROVE QueryTypeOK'
  BY <1>20 DEF ReadCommand, cardVars, IdxOK
<1>21. ASSUME ReadResponse(ResponsePosition), UNCHANGED toolVars PROVE QueryTypeOK'
  BY <1>21 DEF ReadResponse, cardVars, IdxOK
<1>22. ASSUME Judge PROVE QueryTypeOK'
  BY <1>22 DEF Judge, JudgeAs, cardVars, IdxOK
<1>23. ASSUME CleanupEnter, UNCHANGED <<exchangeVars, toolVars>> PROVE QueryTypeOK'
  BY <1>23 DEF CleanupEnter, cardVars, IdxOK
<1>24. ASSUME CleanupInt, UNCHANGED <<exchangeVars, toolVars>> PROVE QueryTypeOK'
  BY <1>24 DEF CleanupInt, DisableInterrupts, cardVars, IdxOK
<1>25. ASSUME CleanupReset, UNCHANGED <<exchangeVars, toolVars>> PROVE QueryTypeOK'
  <2>1. IdxOK'
    BY <1>25, DmaWrite DEF CleanupReset
  <2> QED BY <1>25, <2>1 DEF CleanupReset
<1>26. ASSUME CleanupGlobal, UNCHANGED <<exchangeVars, toolVars>> PROVE QueryTypeOK'
  <2>1. IdxOK'
    BY <1>26, DmaWrite DEF CleanupGlobal
  <2> QED BY <1>26, <2>1 DEF CleanupGlobal, RINGS
<1>27. ASSUME CleanupClear, UNCHANGED <<exchangeVars, toolVars>> PROVE QueryTypeOK'
  <2>1. PICK x \in toClear : ClearRing(x) /\ toClear' = toClear \ {x}
    BY <1>27 DEF CleanupClear
  <2>2. IdxOK'
    BY <2>1, Cleared
  <2> QED BY <1>27, <2>1, <2>2 DEF CleanupClear
<1>28. ASSUME CleanupCold, UNCHANGED <<exchangeVars, toolVars>> PROVE QueryTypeOK'
  <2>1. IdxOK'
    BY <1>28, DmaWrite DEF CleanupCold
  <2> QED BY <1>28, <2>1 DEF CleanupCold
<1>29. ASSUME CleanupRestored, UNCHANGED <<exchangeVars, toolVars>> PROVE QueryTypeOK'
  BY <1>29 DEF CleanupRestored, cardVars, IdxOK
<1>30. ASSUME VfioReset("report"), UNCHANGED <<exchangeVars, toolVars>> PROVE QueryTypeOK'
  <2>1. KernelCloses \/ UNCHANGED cardVars
    BY <1>30 DEF VfioReset
  <2>2. IdxOK'
    BY <2>1, Closed DEF cardVars, IdxOK
  <2> QED BY <1>30, <2>2 DEF VfioReset
<1>31. ASSUME VfioRecovered("report"), UNCHANGED <<exchangeVars, toolVars>> PROVE QueryTypeOK'
  BY <1>31 DEF VfioRecovered, cardVars, IdxOK
<1>32. ASSUME Report PROVE QueryTypeOK'
  BY <1>32 DEF Report, ReportThen, cardVars, IdxOK
<1>33. ASSUME Release("release", ReleaseOrder, "exit"), UNCHANGED <<exchangeVars, toolVars>> PROVE QueryTypeOK'
  <2>1. KernelCloses \/ UNCHANGED cardVars
    BY <1>33 DEF Release
  <2>2. IdxOK' /\ n' \in Nat \ {0}
    <3>1. IdxOK'
      BY <2>1, Closed DEF cardVars, IdxOK
    <3> QED BY <1>33, <3>1 DEF Release
  <2> QED BY <1>33, <2>2 DEF Release
<1>34. ASSUME Signal, UNCHANGED <<exchangeVars, toolVars>> PROVE QueryTypeOK'
  BY <1>34 DEF Signal, cardVars, IdxOK
<1>35. ASSUME Kill, UNCHANGED <<exchangeVars, toolVars>> PROVE QueryTypeOK'
  <2>1. KernelCloses \/ UNCHANGED cardVars
    BY <1>35 DEF Kill
  <2>2. IdxOK'
    BY <2>1, Closed DEF cardVars, IdxOK
  <2> QED BY <1>35, <2>2 DEF Kill
<1>36. ASSUME Consume, UNCHANGED toolVars PROVE QueryTypeOK'
  <2>1. PICK d \in DSPS : Advance(<<d, 0>>)
    BY <1>36 DEF Consume
  <2>2. IdxOK'
    BY <2>1, Advanced
  <2> QED BY <1>36, <2>2 DEF Consume
<1>37. ASSUME AnswerWord(CommandPosition), UNCHANGED toolVars PROVE QueryTypeOK'
  <2>1. IdxOK'
    BY <1>37 DEF AnswerWord, cardVars, IdxOK
  <2>2. buf' \in [Words -> Answers]
    BY <1>37 DEF AnswerWord, Answers
  <2> QED BY <1>37, <2>1, <2>2 DEF AnswerWord
<1>38. ASSUME AnswerDone(CommandPosition), UNCHANGED toolVars PROVE QueryTypeOK'
  <2>1. IdxOK'
    BY <1>38, Advanced DEF AnswerDone
  <2> QED BY <1>38, <2>1 DEF AnswerDone
<1>39. ASSUME StrayWrite, UNCHANGED toolVars PROVE QueryTypeOK'
  BY <1>39 DEF StrayWrite, cardVars, IdxOK
<1>40. ASSUME CardStep, UNCHANGED <<sessionVars, exchangeVars, toolVars>> PROVE QueryTypeOK'
  BY <1>40 DEF CardStep, ReadyFlip, LinkLoss, cardVars, IdxOK
<1>41. ASSUME UNCHANGED vars PROVE QueryTypeOK'
  BY <1>41 DEF vars, cardVars, IdxOK
<1> QED
  BY <1>1, <1>2, <1>3, <1>4, <1>5, <1>6, <1>7, <1>8, <1>9, <1>10, <1>11,
     <1>12, <1>13, <1>14, <1>15, <1>16, <1>17, <1>18, <1>19, <1>20, <1>21,
     <1>22, <1>23, <1>24, <1>25, <1>26, <1>27, <1>28, <1>29, <1>30, <1>31,
     <1>32, <1>33, <1>34, <1>35, <1>36, <1>37, <1>38, <1>39, <1>40, <1>41
     DEF Next, Main, Environment, Setup, Startup, ConnectAll, Submit, ReadBack, Cleanup,
         DeviceReset, ReleaseAll, Disturb, CardWork

\* Control points at which nothing is said of the index words.
Elsewhere == LatePCs \cup {"idle", "setup", "baseline"}

LEMMA BellElsewhere == ASSUME pc' \in Elsewhere PROVE BellInv'
BY DEF BellInv, Elsewhere, LatePCs, EarlyPCs, ConnectPCs, InFlight

\* The words stand and only the control point, or the link, changes.
LEMMA BellKept ==
  ASSUME BellInv, UNCHANGED <<idx, buf, connect, dsp>>, linked' => linked,
         \/ pc' = pc
         \/ pc \in EarlyPCs /\ pc' \in EarlyPCs
         \/ pc \in InFlight /\ pc' \in InFlight
  PROVE  BellInv'
<1> USE DEF Bell, Read, Full
<1>1. CASE pc' = pc
  BY <1>1 DEF BellInv
<1>2. CASE pc \in EarlyPCs /\ pc' \in EarlyPCs
  BY <1>2 DEF BellInv, EarlyPCs, ConnectPCs, InFlight
<1>3. CASE pc \in InFlight /\ pc' \in InFlight
  BY <1>3 DEF BellInv, EarlyPCs, ConnectPCs, InFlight
<1> QED BY <1>1, <1>2, <1>3

\* Index words move only as the doorbells and the card move them, and the card
\* never moves past a doorbell.
LEMMA BellStep ==
  ASSUME QueryTypeOK, BellInv, OfferInv, [Next]_vars PROVE BellInv'
<1> USE CardAssumption, Zeros DEF loopVars, flagVars, sessionVars, exchangeVars, toolVars, Goto
<1>1. ASSUME Begin PROVE BellInv'
  <2>1. pc' \in Elsewhere
    BY <1>1 DEF Begin, Launch, ExchangeReset, Elsewhere, LatePCs
  <2> QED BY <2>1, BellElsewhere
<1>2. ASSUME Acquire("setup", SetupOrder, "baseline"), UNCHANGED <<exchangeVars, toolVars>> PROVE BellInv'
  <2>1. pc' \in Elsewhere
    BY <1>2 DEF Acquire, Elsewhere, LatePCs
  <2> QED BY <2>1, BellElsewhere
<1>3. ASSUME AcquireFails("setup", SetupOrder), UNCHANGED <<exchangeVars, toolVars>> PROVE BellInv'
  <2>1. pc' \in Elsewhere
    BY <1>3 DEF AcquireFails, Elsewhere, LatePCs
  <2> QED BY <2>1, BellElsewhere
<1>4. ASSUME Baseline PROVE BellInv'
  <2>1. CASE ColdBaseline
    <3>1. pc' = "indexes" /\ UNCHANGED cardVars /\ AllRingWordsZero
      BY <1>4, <2>1 DEF Baseline, Check, ColdBaseline
    <3>2. \A x \in RingIds : idx'[x].bell = 0 /\ idx'[x].read = 0
      BY <3>1 DEF AllRingWordsZero, cardVars
    <3> QED BY <3>1, <3>2 DEF BellInv, Bell, Read, EarlyPCs, ConnectPCs, InFlight
  <2>2. CASE ~ ColdBaseline
    <3>1. pc' \in Elsewhere
      BY <1>4, <2>2 DEF Baseline, Check, Elsewhere, LatePCs
    <3> QED BY <3>1, BellElsewhere
  <2> QED BY <2>1, <2>2
<1>5. ASSUME ReadIndexes PROVE BellInv'
  <2>1. pc = "indexes" /\ pc' \in {"startup", "cleanup"}
        /\ UNCHANGED <<idx, linked, buf, connect, dsp>>
    BY <1>5 DEF ReadIndexes, Check, cardVars
  <2>2. CASE pc' = "startup"
    BY <2>1, <2>2, BellKept DEF EarlyPCs
  <2>3. CASE pc' = "cleanup"
    BY <2>3, BellElsewhere DEF Elsewhere, LatePCs
  <2> QED BY <2>1, <2>2, <2>3
<1>6. ASSUME Quiesce, UNCHANGED <<exchangeVars, toolVars>> PROVE BellInv'
  <2>1. pc \in EarlyPCs /\ pc' \in EarlyPCs /\ UNCHANGED <<idx, linked, buf, connect, dsp>>
    BY <1>6 DEF Quiesce, DisableInterrupts, EarlyPCs
  <2> QED BY <2>1, BellKept
<1>7. ASSUME ResetGlobal, UNCHANGED <<exchangeVars, toolVars>> PROVE BellInv'
  <2>1. pc \in EarlyPCs /\ pc' \in EarlyPCs \ {"connect"}
    BY <1>7 DEF ResetGlobal, EarlyPCs
  <2>2. /\ linked' = linked
        /\ \A x \in RingIds :
             idx'[x].bell = idx[x].bell /\ (idx'[x].read = idx[x].read \/ idx'[x].read = 0)
    BY <1>7, DmaWrite DEF ResetGlobal, QueryTypeOK
  <2>3. linked => \A x \in RingIds : idx[x].bell = 0 /\ idx[x].read = 0
    BY <2>1 DEF BellInv, Bell, Read
  <2>4. linked' => \A x \in RingIds : idx'[x].bell = 0 /\ idx'[x].read = 0
    BY <2>2, <2>3
  <2> QED BY <2>1, <2>4 DEF BellInv, Bell, Read, EarlyPCs, ConnectPCs, InFlight
<1>8. ASSUME GlobalOnly, UNCHANGED <<exchangeVars, toolVars>> PROVE BellInv'
  <2>1. pc \in EarlyPCs /\ pc' \in EarlyPCs \ {"connect"}
    BY <1>8 DEF GlobalOnly, EarlyPCs
  <2>2. /\ linked' = linked
        /\ \A x \in RingIds :
             idx'[x].bell = idx[x].bell /\ (idx'[x].read = idx[x].read \/ idx'[x].read = 0)
    BY <1>8, DmaWrite DEF GlobalOnly, QueryTypeOK
  <2>3. linked => \A x \in RingIds : idx[x].bell = 0 /\ idx[x].read = 0
    BY <2>1 DEF BellInv, Bell, Read
  <2>4. linked' => \A x \in RingIds : idx'[x].bell = 0 /\ idx'[x].read = 0
    BY <2>2, <2>3
  <2> QED BY <2>1, <2>4 DEF BellInv, Bell, Read, EarlyPCs, ConnectPCs, InFlight
<1>9. ASSUME RingIndex(indexes[<<dsp, ring>>]), UNCHANGED <<exchangeVars, toolVars>> PROVE BellInv'
  <2>1. pc = "ringIndex" /\ pc' = "ringDesc"
    BY <1>9 DEF RingIndex
  <2>2. <<dsp, ring>> \in RingIds
    BY DEF RingIds, QueryTypeOK
  <2>3. indexes[<<dsp, ring>>] = 0 /\ 0 \in 0 .. Entries
    BY <2>2 DEF QueryTypeOK
  <2>4. linked' = linked /\ Placed(<<dsp, ring>>, 0)
    BY <1>9, <2>2, <2>3, IndexWrite DEF RingIndex, QueryTypeOK
  <2>5. linked => \A x \in RingIds : idx'[x].bell = 0 /\ idx'[x].read = 0
    BY <2>1, <2>2, <2>4 DEF Placed, BellInv, Bell, Read, EarlyPCs
  <2> QED BY <2>1, <2>4, <2>5 DEF BellInv, Bell, Read, EarlyPCs, ConnectPCs, InFlight
<1>10. ASSUME RingDesc, UNCHANGED <<exchangeVars, toolVars>> PROVE BellInv'
  <2>1. pc \in EarlyPCs /\ pc' \in EarlyPCs /\ UNCHANGED <<idx, linked, buf, connect, dsp>>
    BY <1>10 DEF RingDesc, WriteDesc, EarlyPCs
  <2> QED BY <2>1, BellKept
<1>11. ASSUME RingDone, UNCHANGED <<exchangeVars, toolVars>> PROVE BellInv'
  <2>1. pc \in EarlyPCs /\ pc' \in EarlyPCs /\ UNCHANGED <<idx, linked, buf, connect, dsp>>
    BY <1>11 DEF RingDone, cardVars, EarlyPCs
  <2> QED BY <2>1, BellKept
<1>12. ASSUME Enable(IF connect THEN "connect" ELSE "postResponse"), UNCHANGED <<exchangeVars, toolVars>> PROVE BellInv'
  <2>1. pc = "enable" /\ UNCHANGED connect
    BY <1>12 DEF Enable
  <2>2. /\ linked' = linked
        /\ \A x \in RingIds :
             idx'[x].bell = idx[x].bell /\ (idx'[x].read = idx[x].read \/ idx'[x].read = 0)
    BY <1>12, DmaWrite DEF Enable, QueryTypeOK
  <2>3. linked => \A x \in RingIds : idx'[x].bell = 0 /\ idx'[x].read = 0
    <3>1. linked => \A x \in RingIds : idx[x].bell = 0 /\ idx[x].read = 0
      BY <2>1 DEF BellInv, Bell, Read, EarlyPCs
    <3> QED BY <2>2, <3>1
  <2>4. \/ pc' = "ringIndex" \/ (pc' = "postResponse" /\ ~ connect)
        \/ (pc' = "connect" /\ dsp' = 0)
    BY <1>12 DEF Enable
  <2>5. \A d \in DSPS : ~ (d < 0)
    BY DEF DSPS
  <2> QED BY <2>1, <2>2, <2>3, <2>4, <2>5
          DEF BellInv, Bell, Read, EarlyPCs, ConnectPCs, InFlight
<1>13. ASSUME Connect, UNCHANGED toolVars PROVE BellInv'
  <2>1. linked' = linked /\ Placed(<<dsp, 0>>, 1)
    BY <1>13, Rung, QueryAssumption DEF Connect, QueryTypeOK
  <2>2. pc = "connect" /\ Resp0 # <<dsp, 0>> /\ dsp \in DSPS
    BY <1>13 DEF Connect, Resp0, QueryTypeOK
  <2>3. linked => idx'[Resp0].bell = 0 /\ idx'[Resp0].read = 0
    BY <2>1, <2>2 DEF Placed, BellInv, Bell, Read, ConnectPCs
  <2>4. ASSUME linked, NEW d \in DSPS
        PROVE  idx'[<<d, 0>>].bell = IF d < dsp + 1 THEN 1 ELSE 0
    <3>1. idx[<<d, 0>>].bell = IF d < dsp THEN 1 ELSE 0
      BY <2>2, <2>4 DEF BellInv, Bell
    <3>2. CASE d = dsp
      BY <2>1, <2>2, <2>4, <3>2 DEF Placed, DSPS
    <3>3. CASE d # dsp
      <4>1. <<d, 0>> # <<dsp, 0>>
        BY <3>3
      <4>2. idx'[<<d, 0>>] = idx[<<d, 0>>]
        BY <2>1, <2>4, <4>1 DEF Placed
      <4>3. (d < dsp) = (d < dsp + 1)
        BY <2>2, <3>3 DEF DSPS
      <4> QED BY <3>1, <4>2, <4>3
    <3> QED BY <3>2, <3>3
  <2>5. CASE dsp = NDsp - 1
    <3>1. pc' = "clock" /\ \A d \in DSPS : d < dsp + 1
      BY <1>13, <2>5 DEF Connect, DSPS
    <3> QED BY <2>1, <2>3, <2>4, <3>1 DEF BellInv, Bell, Read, EarlyPCs, ConnectPCs, InFlight
  <2>6. CASE dsp # NDsp - 1
    <3>1. pc' = "connect" /\ dsp' = dsp + 1
      BY <1>13, <2>6 DEF Connect
    <3> QED BY <2>1, <2>3, <2>4, <3>1 DEF BellInv, Bell, Read, EarlyPCs, ConnectPCs, InFlight
  <2> QED BY <2>5, <2>6
<1>14. ASSUME Clock, UNCHANGED toolVars PROVE BellInv'
  <2>1. linked' = linked /\ Placed(Cmd0, 2)
    BY <1>14, Rung, QueryAssumption DEF Clock, QueryTypeOK
  <2>2. pc = "clock" /\ pc' = "connectPoll" /\ Resp0 # Cmd0
    BY <1>14 DEF Clock, Resp0, Cmd0
  <2>3. linked => idx'[Resp0].bell = 0 /\ idx'[Resp0].read = 0
    BY <2>1, <2>2 DEF Placed, BellInv, Bell, Read, ConnectPCs
  <2>4. ASSUME linked, NEW d \in DSPS PROVE idx'[<<d, 0>>].bell = Sent(d)
    <3>1. idx[<<d, 0>>].bell = 1
      BY <2>2, <2>4 DEF BellInv, Bell
    <3>2. d = 0 => <<d, 0>> = Cmd0
      BY DEF Cmd0
    <3>3. d # 0 => <<d, 0>> # Cmd0
      BY DEF Cmd0
    <3> QED BY <2>1, <2>4, <3>1, <3>2, <3>3 DEF Placed, Sent
  <2> QED BY <2>1, <2>2, <2>3, <2>4 DEF BellInv, Bell, Read, EarlyPCs, ConnectPCs, InFlight
<1>15. ASSUME ConnectPoll, UNCHANGED toolVars PROVE BellInv'
  <2>1. pc = "connectPoll" /\ UNCHANGED <<idx, linked, buf, connect, dsp>>
        /\ pc' \in {"connectPoll", "postResponse", "cleanup"}
    BY <1>15 DEF ConnectPoll, cardVars
  <2>2. CASE pc' = "connectPoll"
    BY <2>1, <2>2, BellKept
  <2>3. CASE pc' = "postResponse"
    <3>1. ConnectsConsumed
      BY <1>15, <2>1, <2>3 DEF ConnectPoll
    <3>2. linked => \A d \in DSPS : idx[<<d, 0>>].read = Sent(d) /\ idx[<<d, 0>>].bell = Sent(d)
      BY <2>1, <3>1 DEF ConnectsConsumed, ReadIndex, Sent, BellInv, Bell
    <3>3. linked => idx[Resp0].bell = 0 /\ idx[Resp0].read = 0
      BY <2>1 DEF BellInv, Bell, Read, ConnectPCs
    <3> QED BY <2>1, <2>3, <3>2, <3>3 DEF BellInv, Bell, Read, EarlyPCs, ConnectPCs, InFlight
  <2>4. CASE pc' = "cleanup"
    BY <2>4, BellElsewhere DEF Elsewhere, LatePCs
  <2> QED BY <2>1, <2>2, <2>3, <2>4
<1>16. ASSUME Post("postResponse", Resp0, ResponsePosition, "postCommand"), UNCHANGED toolVars PROVE BellInv'
  <2>1. linked' = linked /\ Placed(Resp0, 1)
    BY <1>16, Rung, Positions, QueryAssumption DEF Post, QueryTypeOK
  <2>2. pc = "postResponse" /\ pc' = "postCommand" /\ UNCHANGED <<buf, connect>>
    BY <1>16 DEF Post
  <2>3. linked => idx'[Resp0].bell = 1 /\ idx'[Resp0].read = 0
    BY <2>1, <2>2 DEF Placed, BellInv, Read, Bell
  <2>4. ASSUME linked, connect, NEW d \in DSPS
        PROVE  idx'[<<d, 0>>].bell = Sent(d) /\ idx'[<<d, 0>>].read = Sent(d)
    <3>1. <<d, 0>> \in RingIds \ {Resp0}
      BY DEF Resp0
    <3> QED BY <2>1, <2>2, <2>4, <3>1 DEF Placed, BellInv, Bell, Read
  <2> QED BY <2>1, <2>2, <2>3, <2>4 DEF BellInv, Bell, Read, EarlyPCs, ConnectPCs, InFlight
<1>17. ASSUME Post("postCommand", Cmd0, CommandPosition, "poll"), UNCHANGED toolVars PROVE BellInv'
  <2>1. linked' = linked /\ Placed(Cmd0, IF connect THEN 3 ELSE 1)
    BY <1>17, Rung, Positions, QueryAssumption DEF Post, QueryTypeOK
  <2>2. pc = "postCommand" /\ pc' = "poll" /\ UNCHANGED <<buf, connect>>
    BY <1>17 DEF Post
  <2>3. linked => idx'[Resp0] = idx[Resp0]
    BY <2>1 DEF Placed, Resp0, Cmd0
  <2>4. ASSUME linked, connect
        PROVE  /\ idx'[Cmd0].bell = 3 /\ idx'[Cmd0].read = 2
               /\ \A d \in DSPS \ {0} : idx'[<<d, 0>>].bell = 1 /\ idx'[<<d, 0>>].read = 1
    <3>1. \A d \in DSPS : idx[<<d, 0>>].bell = Sent(d) /\ idx[<<d, 0>>].read = Sent(d)
      BY <2>2, <2>4 DEF BellInv, Bell, Read
    <3>2. \A d \in DSPS \ {0} : <<d, 0>> \in RingIds \ {Cmd0} /\ Sent(d) = 1
      BY DEF Cmd0, Sent
    <3>3. Cmd0 = <<0, 0>> /\ Sent(0) = 2
      BY DEF Cmd0, Sent
    <3> QED BY <2>1, <2>4, <3>1, <3>2, <3>3 DEF Placed
  <2>5. Full' = Full
    BY <2>2 DEF Full
  <2>6. linked => idx[Resp0].bell = 1 /\ (idx[Resp0].read = 0 \/ (idx[Resp0].read = 1 /\ Full))
    BY <2>2 DEF BellInv, Bell, Read
  <2> QED BY <2>1, <2>2, <2>3, <2>4, <2>5, <2>6 DEF BellInv, Bell, Read, EarlyPCs, ConnectPCs, InFlight
<1>18. ASSUME Poll PROVE BellInv'
  <2>1. pc \in InFlight /\ pc' \in InFlight /\ UNCHANGED <<idx, linked, buf, connect, dsp>>
    BY <1>18 DEF Poll, PollAnswer, cardVars, InFlight
  <2> QED BY <2>1, BellKept
<1>19. ASSUME CopyWord("readCommand"), UNCHANGED toolVars PROVE BellInv'
  <2>1. pc \in InFlight /\ pc' \in InFlight /\ UNCHANGED <<idx, linked, buf, connect, dsp>>
    BY <1>19 DEF CopyWord, cardVars, InFlight
  <2> QED BY <2>1, BellKept
<1>20. ASSUME ReadCommand(CommandPosition), UNCHANGED toolVars PROVE BellInv'
  <2>1. pc \in InFlight /\ pc' \in InFlight /\ UNCHANGED <<idx, linked, buf, connect, dsp>>
    BY <1>20 DEF ReadCommand, cardVars, InFlight
  <2> QED BY <2>1, BellKept
<1>21. ASSUME ReadResponse(ResponsePosition), UNCHANGED toolVars PROVE BellInv'
  <2>1. pc \in InFlight /\ pc' \in InFlight /\ UNCHANGED <<idx, linked, buf, connect, dsp>>
    BY <1>21 DEF ReadResponse, cardVars, InFlight
  <2> QED BY <2>1, BellKept
<1>22. ASSUME Judge PROVE BellInv'
  <2>1. pc' \in Elsewhere
    BY <1>22 DEF Judge, JudgeAs, Elsewhere, LatePCs
  <2> QED BY <2>1, BellElsewhere
<1>23. ASSUME CleanupEnter, UNCHANGED <<exchangeVars, toolVars>> PROVE BellInv'
  <2>1. pc' \in Elsewhere
    BY <1>23 DEF CleanupEnter, Elsewhere, LatePCs
  <2> QED BY <2>1, BellElsewhere
<1>24. ASSUME CleanupInt, UNCHANGED <<exchangeVars, toolVars>> PROVE BellInv'
  <2>1. pc' \in Elsewhere
    BY <1>24 DEF CleanupInt, DisableInterrupts, Elsewhere, LatePCs
  <2> QED BY <2>1, BellElsewhere
<1>25. ASSUME CleanupReset, UNCHANGED <<exchangeVars, toolVars>> PROVE BellInv'
  <2>1. pc' \in Elsewhere
    BY <1>25 DEF CleanupReset, Elsewhere, LatePCs
  <2> QED BY <2>1, BellElsewhere
<1>26. ASSUME CleanupGlobal, UNCHANGED <<exchangeVars, toolVars>> PROVE BellInv'
  <2>1. pc' \in Elsewhere
    BY <1>26 DEF CleanupGlobal, Elsewhere, LatePCs
  <2> QED BY <2>1, BellElsewhere
<1>27. ASSUME CleanupClear, UNCHANGED <<exchangeVars, toolVars>> PROVE BellInv'
  <2>1. pc' \in Elsewhere
    BY <1>27 DEF CleanupClear, Elsewhere, LatePCs
  <2> QED BY <2>1, BellElsewhere
<1>28. ASSUME CleanupCold, UNCHANGED <<exchangeVars, toolVars>> PROVE BellInv'
  <2>1. pc' \in Elsewhere
    BY <1>28 DEF CleanupCold, Elsewhere, LatePCs
  <2> QED BY <2>1, BellElsewhere
<1>29. ASSUME CleanupRestored, UNCHANGED <<exchangeVars, toolVars>> PROVE BellInv'
  <2>1. pc' \in Elsewhere
    BY <1>29 DEF CleanupRestored, Elsewhere, LatePCs
  <2> QED BY <2>1, BellElsewhere
<1>30. ASSUME VfioReset("report"), UNCHANGED <<exchangeVars, toolVars>> PROVE BellInv'
  <2>1. pc' \in Elsewhere
    BY <1>30 DEF VfioReset, Elsewhere, LatePCs
  <2> QED BY <2>1, BellElsewhere
<1>31. ASSUME VfioRecovered("report"), UNCHANGED <<exchangeVars, toolVars>> PROVE BellInv'
  <2>1. pc' \in Elsewhere
    BY <1>31 DEF VfioRecovered, Elsewhere, LatePCs
  <2> QED BY <2>1, BellElsewhere
<1>32. ASSUME Report PROVE BellInv'
  <2>1. pc' \in Elsewhere
    BY <1>32 DEF Report, ReportThen, Elsewhere, LatePCs
  <2> QED BY <2>1, BellElsewhere
<1>33. ASSUME Release("release", ReleaseOrder, "exit"), UNCHANGED <<exchangeVars, toolVars>> PROVE BellInv'
  <2>1. pc' \in Elsewhere
    BY <1>33 DEF Release, Elsewhere, LatePCs
  <2> QED BY <2>1, BellElsewhere
<1>34. ASSUME Signal, UNCHANGED <<exchangeVars, toolVars>> PROVE BellInv'
  <2>1. pc' = pc /\ UNCHANGED <<idx, buf, connect, dsp>> /\ (linked' => linked)
    BY <1>34 DEF Signal, cardVars
  <2> QED BY <2>1, BellKept
<1>35. ASSUME Kill, UNCHANGED <<exchangeVars, toolVars>> PROVE BellInv'
  <2>1. pc' \in Elsewhere
    BY <1>35 DEF Kill, Elsewhere, LatePCs
  <2> QED BY <2>1, BellElsewhere
<1>36. ASSUME Consume, UNCHANGED toolVars PROVE BellInv'
  <2>1. PICK d \in DSPS : /\ Working(d) /\ idx[<<d, 0>>].read # idx[<<d, 0>>].bell
                          /\ Advance(<<d, 0>>)
    BY <1>36 DEF Consume
  <2>2. /\ idx'[<<d, 0>>].bell = idx[<<d, 0>>].bell
        /\ idx'[<<d, 0>>].read = (idx[<<d, 0>>].read + 1) % Entries
        /\ \A y \in RingIds \ {<<d, 0>>} : idx'[y] = idx[y]
    BY <2>1, Advanced DEF QueryTypeOK
  <2>3. linked /\ UNCHANGED <<pc, linked, buf, connect, dsp>>
    BY <1>36, <2>1 DEF Consume, Working, EngineLive
  <2>4. idx'[Resp0] = idx[Resp0]
    BY <2>2 DEF Resp0
  <2>5. \A e \in DSPS : idx'[<<e, 0>>].bell = idx[<<e, 0>>].bell
    BY <2>2
  <2>6. \A e \in DSPS \ {d} : idx'[<<e, 0>>] = idx[<<e, 0>>]
    <3>1. \A e \in DSPS \ {d} : <<e, 0>> \in RingIds \ {<<d, 0>>}
      OBVIOUS
    <3> QED BY <2>2, <3>1
  <2>7. pc \notin EarlyPCs
    BY <2>1, <2>3 DEF BellInv, Bell, Read
  <2>8. ~ (pc \in {"postResponse", "postCommand"} /\ connect)
    BY <2>1, <2>3 DEF BellInv, Bell, Read
  <2>9. ASSUME pc \in InFlight, connect
        PROVE  /\ idx'[Cmd0].bell = 3 /\ idx'[Cmd0].read \in {2, 3}
               /\ \A e \in DSPS \ {0} : idx'[<<e, 0>>].bell = 1 /\ idx'[<<e, 0>>].read = 1
    <3>1. /\ idx[Cmd0].bell = 3 /\ idx[Cmd0].read \in {2, 3}
          /\ \A e \in DSPS \ {0} : idx[<<e, 0>>].bell = 1 /\ idx[<<e, 0>>].read = 1
      BY <2>3, <2>9 DEF BellInv, Bell, Read
    <3>2. d = 0 /\ <<d, 0>> = Cmd0
      BY <2>1, <3>1 DEF Cmd0
    <3>3. idx[Cmd0].read = 2 /\ 2 + 1 = 3
      BY <2>1, <3>1, <3>2
    <3>4. idx'[Cmd0].read = 3 % Entries
      BY <2>2, <3>2, <3>3
    <3>5. 3 % Entries = 3
      BY SmallMod, QueryAssumption
    <3> QED BY <2>2, <2>6, <3>1, <3>2, <3>4, <3>5
  <2>10. Full' = Full
    BY <2>3 DEF Full
  <2> QED BY <2>3, <2>4, <2>5, <2>7, <2>8, <2>9, <2>10 DEF BellInv, Bell, Read
<1>37. ASSUME AnswerWord(CommandPosition), UNCHANGED toolVars PROVE BellInv'
  <2>1. pc' = pc /\ UNCHANGED <<idx, linked, connect, dsp>> /\ (Full => Full')
    <3>1. PICK w \in Words, v \in {"expected", "other"} : buf[w] = "canary" /\ buf' = [buf EXCEPT ![w] = v]
      BY <1>37 DEF AnswerWord
    <3>2. Full => Full'
      BY <3>1 DEF Full
    <3> QED BY <1>37, <3>2 DEF AnswerWord, cardVars
  <2> QED BY <2>1 DEF BellInv, Bell, Read
<1>38. ASSUME AnswerDone(CommandPosition), UNCHANGED toolVars PROVE BellInv'
  <2>1. /\ idx'[Resp0].bell = idx[Resp0].bell
        /\ idx'[Resp0].read = (idx[Resp0].read + 1) % Entries
        /\ \A y \in RingIds \ {Resp0} : idx'[y] = idx[y]
    BY <1>38, Advanced DEF AnswerDone, QueryTypeOK
  <2>2. /\ linked /\ idx[Resp0].read # idx[Resp0].bell /\ Full
        /\ UNCHANGED <<pc, linked, buf, connect, dsp>>
    BY <1>38 DEF AnswerDone, Answering, Working, EngineLive, Full
  <2>3. \A e \in DSPS : idx'[<<e, 0>>] = idx[<<e, 0>>]
    <3>1. ASSUME NEW e \in DSPS PROVE <<e, 0>> \in RingIds \ {Resp0}
      BY DEF Resp0
    <3> QED BY <2>1, <3>1
  <2>4. pc \notin EarlyPCs /\ pc \notin ConnectPCs \cup {"postResponse"}
    BY <2>2 DEF BellInv, Bell, Read
  <2>5. Full'
    BY <2>2 DEF Full
  <2>6. ASSUME pc \in {"postCommand"} \cup InFlight
        PROVE  idx'[Resp0].bell = 1 /\ idx'[Resp0].read = 1
    <3>1. idx[Resp0].bell = 1 /\ idx[Resp0].read = 0 /\ 0 + 1 = 1
      BY <2>2, <2>6 DEF BellInv, Bell, Read
    <3>2. 1 % Entries = 1
      BY SmallMod, QueryAssumption
    <3> QED BY <2>1, <3>1, <3>2
  <2>7. idx'[Cmd0] = idx[Cmd0]
    BY <2>1 DEF Resp0, Cmd0
  <2> QED BY <2>2, <2>3, <2>4, <2>5, <2>6, <2>7 DEF BellInv, Bell, Read
<1>39. ASSUME StrayWrite, UNCHANGED toolVars PROVE BellInv'
  <2>1. pc' = pc /\ UNCHANGED <<idx, buf, connect, dsp>> /\ (linked' => linked)
    BY <1>39 DEF StrayWrite, cardVars
  <2> QED BY <2>1, BellKept
<1>40. ASSUME CardStep, UNCHANGED <<sessionVars, exchangeVars, toolVars>> PROVE BellInv'
  <2>1. pc' = pc /\ UNCHANGED <<idx, buf, connect, dsp>> /\ (linked' => linked)
    BY <1>40 DEF CardStep, ReadyFlip, LinkLoss, cardVars
  <2> QED BY <2>1, BellKept
<1>41. ASSUME UNCHANGED vars PROVE BellInv'
  <2>1. pc' = pc /\ UNCHANGED <<idx, buf, connect, dsp>> /\ (linked' => linked)
    BY <1>41 DEF vars, cardVars
  <2> QED BY <2>1, BellKept
<1> QED
  BY <1>1, <1>2, <1>3, <1>4, <1>5, <1>6, <1>7, <1>8, <1>9, <1>10, <1>11,
     <1>12, <1>13, <1>14, <1>15, <1>16, <1>17, <1>18, <1>19, <1>20, <1>21,
     <1>22, <1>23, <1>24, <1>25, <1>26, <1>27, <1>28, <1>29, <1>30, <1>31,
     <1>32, <1>33, <1>34, <1>35, <1>36, <1>37, <1>38, <1>39, <1>40, <1>41
     DEF Next, Main, Environment, Setup, Startup, ConnectAll, Submit, ReadBack, Cleanup,
         DeviceReset, ReleaseAll, Disturb, CardWork

LEMMA OfferKept ==
  ASSUME OfferInv, UNCHANGED <<connect, toClear>>, linked' => linked, started' => started,
         idx'[Cmd0].bell = idx[Cmd0].bell, idx'[Resp0].bell = idx[Resp0].bell,
         pc' \in ConnectPCs => connect, pc' = "cClear" => pc = "cClear"
  PROVE  OfferInv'
BY DEF OfferInv, Bell

\* The doorbell of the response buffer is rung first and cleared last.
LEMMA OfferStep ==
  ASSUME QueryTypeOK, BellInv, BellInv', OfferInv, [Next]_vars PROVE OfferInv'
<1> USE CardAssumption, Zeros DEF loopVars, flagVars, sessionVars, exchangeVars, toolVars, Goto
<1>1. ASSUME Begin PROVE OfferInv'
  BY <1>1 DEF Begin, Launch, OfferInv, ConnectPCs
<1>2. ASSUME Acquire("setup", SetupOrder, "baseline"), UNCHANGED <<exchangeVars, toolVars>> PROVE OfferInv'
  BY <1>2, OfferKept DEF Acquire, cardVars, OfferInv, ConnectPCs
<1>3. ASSUME AcquireFails("setup", SetupOrder), UNCHANGED <<exchangeVars, toolVars>> PROVE OfferInv'
  BY <1>3, OfferKept DEF AcquireFails, cardVars, OfferInv, ConnectPCs
<1>4. ASSUME Baseline PROVE OfferInv'
  BY <1>4, OfferKept DEF Baseline, Check, cardVars, OfferInv, ConnectPCs
<1>5. ASSUME ReadIndexes PROVE OfferInv'
  BY <1>5, OfferKept DEF ReadIndexes, Check, cardVars, OfferInv, ConnectPCs
<1>6. ASSUME Quiesce, UNCHANGED <<exchangeVars, toolVars>> PROVE OfferInv'
  <2>1. pc = "startup" /\ pc' = "resetGlobal" /\ UNCHANGED <<linked, idx, connect>>
    BY <1>6 DEF Quiesce, DisableInterrupts
  <2>2. linked => idx[Cmd0].bell = 0
    BY <2>1 DEF BellInv, Bell, EarlyPCs
  <2> QED BY <2>1, <2>2 DEF OfferInv, Bell, ConnectPCs
<1>7. ASSUME ResetGlobal, UNCHANGED <<exchangeVars, toolVars>> PROVE OfferInv'
  <2>1. linked' = linked /\ \A x \in RingIds : idx'[x].bell = idx[x].bell
    BY <1>7, DmaWrite DEF ResetGlobal, QueryTypeOK
  <2> QED BY <1>7, <2>1, OfferKept DEF ResetGlobal, ConnectPCs
<1>8. ASSUME GlobalOnly, UNCHANGED <<exchangeVars, toolVars>> PROVE OfferInv'
  <2>1. linked' = linked /\ \A x \in RingIds : idx'[x].bell = idx[x].bell
    BY <1>8, DmaWrite DEF GlobalOnly, QueryTypeOK
  <2> QED BY <1>8, <2>1, OfferKept DEF GlobalOnly, ConnectPCs
<1>9. ASSUME RingIndex(indexes[<<dsp, ring>>]), UNCHANGED <<exchangeVars, toolVars>> PROVE OfferInv'
  <2>1. pc' = "ringDesc" /\ UNCHANGED connect
    BY <1>9 DEF RingIndex
  <2>2. linked' => idx'[Cmd0].bell = 0
    BY <2>1 DEF BellInv, Bell, EarlyPCs
  <2> QED BY <2>1, <2>2 DEF OfferInv, Bell, ConnectPCs
<1>10. ASSUME RingDesc, UNCHANGED <<exchangeVars, toolVars>> PROVE OfferInv'
  BY <1>10, OfferKept DEF RingDesc, WriteDesc, cardVars, OfferInv, ConnectPCs
<1>11. ASSUME RingDone, UNCHANGED <<exchangeVars, toolVars>> PROVE OfferInv'
  BY <1>11, OfferKept DEF RingDone, cardVars, OfferInv, ConnectPCs
<1>12. ASSUME Enable(IF connect THEN "connect" ELSE "postResponse"), UNCHANGED <<exchangeVars, toolVars>> PROVE OfferInv'
  <2>1. linked' = linked /\ \A x \in RingIds : idx'[x].bell = idx[x].bell
    BY <1>12, DmaWrite DEF Enable, QueryTypeOK
  <2>2. (pc' = "connect" /\ connect) \/ pc' \in {"ringIndex", "postResponse"}
    BY <1>12 DEF Enable
  <2> QED BY <1>12, <2>1, <2>2, OfferKept DEF Enable, ConnectPCs
<1>13. ASSUME Connect, UNCHANGED toolVars PROVE OfferInv'
  <2>1. pc = "connect" /\ pc' \in {"connect", "clock"} /\ UNCHANGED connect
    BY <1>13 DEF Connect
  <2>2. connect /\ Cmd0 = <<0, 0>>
    BY <2>1 DEF OfferInv, ConnectPCs, Cmd0
  <2>3. linked' => idx'[Cmd0].bell \in {0, 1}
    BY <2>1, <2>2 DEF BellInv, Bell
  <2> QED BY <2>1, <2>2, <2>3 DEF OfferInv, Bell
<1>14. ASSUME Clock, UNCHANGED toolVars PROVE OfferInv'
  <2>1. pc = "clock" /\ pc' = "connectPoll" /\ UNCHANGED connect
    BY <1>14 DEF Clock
  <2>2. connect /\ Cmd0 = <<0, 0>> /\ Sent(0) = 2
    BY <2>1 DEF OfferInv, ConnectPCs, Cmd0, Sent
  <2>3. linked' => idx'[Cmd0].bell = 2
    BY <2>1, <2>2 DEF BellInv, Bell
  <2> QED BY <2>1, <2>2, <2>3 DEF OfferInv, Bell
<1>15. ASSUME ConnectPoll, UNCHANGED toolVars PROVE OfferInv'
  <2>1. pc = "connectPoll" /\ pc' \in {"connectPoll", "postResponse", "cleanup"}
    BY <1>15 DEF ConnectPoll
  <2>2. connect
    BY <2>1 DEF OfferInv, ConnectPCs
  <2> QED BY <1>15, <2>1, <2>2, OfferKept DEF ConnectPoll, cardVars
<1>16. ASSUME Post("postResponse", Resp0, ResponsePosition, "postCommand"), UNCHANGED toolVars PROVE OfferInv'
  <2>1. pc' \in {"postCommand", "poll"}
    BY <1>16 DEF Post
  <2>2. linked' => idx'[Resp0].bell = 1
    BY <2>1 DEF BellInv, Bell, InFlight
  <2> QED BY <2>1, <2>2 DEF OfferInv, Bell, ConnectPCs
<1>17. ASSUME Post("postCommand", Cmd0, CommandPosition, "poll"), UNCHANGED toolVars PROVE OfferInv'
  <2>1. pc' \in {"postCommand", "poll"}
    BY <1>17 DEF Post
  <2>2. linked' => idx'[Resp0].bell = 1
    BY <2>1 DEF BellInv, Bell, InFlight
  <2> QED BY <2>1, <2>2 DEF OfferInv, Bell, ConnectPCs
<1>18. ASSUME Poll PROVE OfferInv'
  BY <1>18, OfferKept DEF Poll, PollAnswer, cardVars, OfferInv, ConnectPCs
<1>19. ASSUME CopyWord("readCommand"), UNCHANGED toolVars PROVE OfferInv'
  BY <1>19, OfferKept DEF CopyWord, cardVars, OfferInv, ConnectPCs
<1>20. ASSUME ReadCommand(CommandPosition), UNCHANGED toolVars PROVE OfferInv'
  BY <1>20, OfferKept DEF ReadCommand, cardVars, OfferInv, ConnectPCs
<1>21. ASSUME ReadResponse(ResponsePosition), UNCHANGED toolVars PROVE OfferInv'
  BY <1>21, OfferKept DEF ReadResponse, cardVars, OfferInv, ConnectPCs
<1>22. ASSUME Judge PROVE OfferInv'
  BY <1>22, OfferKept DEF Judge, JudgeAs, cardVars, OfferInv, ConnectPCs
<1>23. ASSUME CleanupEnter, UNCHANGED <<exchangeVars, toolVars>> PROVE OfferInv'
  BY <1>23, OfferKept DEF CleanupEnter, cardVars, OfferInv, ConnectPCs
<1>24. ASSUME CleanupInt, UNCHANGED <<exchangeVars, toolVars>> PROVE OfferInv'
  BY <1>24, OfferKept DEF CleanupInt, DisableInterrupts, cardVars, OfferInv, ConnectPCs
<1>25. ASSUME CleanupReset, UNCHANGED <<exchangeVars, toolVars>> PROVE OfferInv'
  <2>1. linked' = linked /\ \A x \in RingIds : idx'[x].bell = idx[x].bell
    BY <1>25, DmaWrite DEF CleanupReset, QueryTypeOK
  <2> QED BY <1>25, <2>1, OfferKept DEF CleanupReset, ConnectPCs
<1>26. ASSUME CleanupGlobal, UNCHANGED <<exchangeVars, toolVars>> PROVE OfferInv'
  <2>1. linked' = linked /\ \A x \in RingIds : idx'[x].bell = idx[x].bell
    BY <1>26, DmaWrite DEF CleanupGlobal, QueryTypeOK
  <2>2. pc' = "cClear" /\ toClear' = RingIds /\ UNCHANGED <<started, connect>>
    BY <1>26 DEF CleanupGlobal
  <2> QED BY <2>1, <2>2 DEF OfferInv, Bell, ConnectPCs
<1>27. ASSUME CleanupClear, UNCHANGED <<exchangeVars, toolVars>> PROVE OfferInv'
  <2>1. PICK x \in toClear : FirstRing(x, toClear) /\ ClearRing(x) /\ toClear' = toClear \ {x}
    BY <1>27 DEF CleanupClear
  <2>2. x \in RingIds /\ linked' = linked /\ Placed(x, 0)
    BY <2>1, Cleared DEF QueryTypeOK
  <2>3. pc = "cClear" /\ pc' \in {"cClear", "cCold"} /\ UNCHANGED <<started, connect>>
    BY <1>27 DEF CleanupClear
  <2>4. ~ (x = Resp0 /\ Cmd0 \in toClear)
    BY <2>1 DEF FirstRing, Resp0, Cmd0
  <2>5. CASE x = Cmd0
    BY <2>2, <2>3, <2>5 DEF OfferInv, Bell, Placed, ConnectPCs
  <2>6. CASE x # Cmd0
    <3>1. linked => idx'[Cmd0] = idx[Cmd0] /\ (x # Resp0 => idx'[Resp0] = idx[Resp0])
      BY <2>2, <2>6 DEF Placed
    <3>2. linked => Cmd0 \in toClear' \/ idx[Cmd0].bell = 0
      BY <2>1, <2>3, <2>6 DEF OfferInv, Bell
    <3>3. x = Resp0 /\ linked => idx[Cmd0].bell = 0
      BY <2>3, <2>4 DEF OfferInv, Bell
    <3> QED BY <2>2, <2>3, <3>1, <3>2, <3>3 DEF OfferInv, Bell, ConnectPCs
  <2> QED BY <2>5, <2>6
<1>28. ASSUME CleanupCold, UNCHANGED <<exchangeVars, toolVars>> PROVE OfferInv'
  <2>1. linked' = linked /\ \A x \in RingIds : idx'[x].bell = idx[x].bell
    BY <1>28, DmaWrite DEF CleanupCold, QueryTypeOK
  <2> QED BY <1>28, <2>1, OfferKept DEF CleanupCold, ConnectPCs
<1>29. ASSUME CleanupRestored, UNCHANGED <<exchangeVars, toolVars>> PROVE OfferInv'
  BY <1>29, OfferKept DEF CleanupRestored, cardVars, OfferInv, ConnectPCs
<1>30. ASSUME VfioReset("report"), UNCHANGED <<exchangeVars, toolVars>> PROVE OfferInv'
  <2>1. KernelCloses \/ UNCHANGED cardVars
    BY <1>30 DEF VfioReset
  <2>2. linked' = linked /\ (idx' = idx \/ \A x \in RingIds : idx'[x].bell = 0)
    BY <2>1, Closed DEF cardVars, QueryTypeOK
  <2>3. pc' \notin ConnectPCs \cup {"cClear"} /\ UNCHANGED <<connect, started>>
    BY <1>30 DEF VfioReset, ConnectPCs
  <2> QED BY <2>2, <2>3 DEF OfferInv, Bell
<1>31. ASSUME VfioRecovered("report"), UNCHANGED <<exchangeVars, toolVars>> PROVE OfferInv'
  BY <1>31, OfferKept DEF VfioRecovered, cardVars, OfferInv, ConnectPCs
<1>32. ASSUME Report PROVE OfferInv'
  BY <1>32, OfferKept DEF Report, ReportThen, cardVars, OfferInv, ConnectPCs
<1>33. ASSUME Release("release", ReleaseOrder, "exit"), UNCHANGED <<exchangeVars, toolVars>> PROVE OfferInv'
  <2>1. KernelCloses \/ UNCHANGED cardVars
    BY <1>33 DEF Release
  <2>2. linked' = linked /\ (idx' = idx \/ \A x \in RingIds : idx'[x].bell = 0)
    BY <2>1, Closed DEF cardVars, QueryTypeOK
  <2>3. pc' \notin ConnectPCs \cup {"cClear"} /\ UNCHANGED <<connect, started>>
    BY <1>33 DEF Release, ConnectPCs
  <2> QED BY <2>2, <2>3 DEF OfferInv, Bell
<1>34. ASSUME Signal, UNCHANGED <<exchangeVars, toolVars>> PROVE OfferInv'
  BY <1>34, OfferKept DEF Signal, cardVars, OfferInv, ConnectPCs
<1>35. ASSUME Kill, UNCHANGED <<exchangeVars, toolVars>> PROVE OfferInv'
  <2>1. KernelCloses \/ UNCHANGED cardVars
    BY <1>35 DEF Kill
  <2>2. linked' = linked /\ (idx' = idx \/ \A x \in RingIds : idx'[x].bell = 0)
    BY <2>1, Closed DEF cardVars, QueryTypeOK
  <2>3. pc' \notin ConnectPCs \cup {"cClear"} /\ UNCHANGED <<connect, started>>
    BY <1>35 DEF Kill, ConnectPCs
  <2> QED BY <2>2, <2>3 DEF OfferInv, Bell
<1>36. ASSUME Consume, UNCHANGED toolVars PROVE OfferInv'
  <2>1. PICK d \in DSPS : Advance(<<d, 0>>)
    BY <1>36 DEF Consume
  <2>2. \A x \in RingIds : idx'[x].bell = idx[x].bell
    BY <2>1, Advanced DEF QueryTypeOK
  <2> QED BY <1>36, <2>2, OfferKept DEF Consume, OfferInv
<1>37. ASSUME AnswerWord(CommandPosition), UNCHANGED toolVars PROVE OfferInv'
  BY <1>37, OfferKept DEF AnswerWord, cardVars, OfferInv, ConnectPCs
<1>38. ASSUME AnswerDone(CommandPosition), UNCHANGED toolVars PROVE OfferInv'
  <2>1. \A x \in RingIds : idx'[x].bell = idx[x].bell
    BY <1>38, Advanced DEF AnswerDone, QueryTypeOK
  <2> QED BY <1>38, <2>1, OfferKept DEF AnswerDone, OfferInv
<1>39. ASSUME StrayWrite, UNCHANGED toolVars PROVE OfferInv'
  BY <1>39, OfferKept DEF StrayWrite, cardVars, OfferInv, ConnectPCs
<1>40. ASSUME CardStep, UNCHANGED <<sessionVars, exchangeVars, toolVars>> PROVE OfferInv'
  BY <1>40, OfferKept DEF CardStep, ReadyFlip, LinkLoss, cardVars, OfferInv, ConnectPCs
<1>41. ASSUME UNCHANGED vars PROVE OfferInv'
  BY <1>41, OfferKept DEF vars, cardVars, OfferInv, ConnectPCs
<1> QED
  BY <1>1, <1>2, <1>3, <1>4, <1>5, <1>6, <1>7, <1>8, <1>9, <1>10, <1>11,
     <1>12, <1>13, <1>14, <1>15, <1>16, <1>17, <1>18, <1>19, <1>20, <1>21,
     <1>22, <1>23, <1>24, <1>25, <1>26, <1>27, <1>28, <1>29, <1>30, <1>31,
     <1>32, <1>33, <1>34, <1>35, <1>36, <1>37, <1>38, <1>39, <1>40, <1>41
     DEF Next, Main, Environment, Setup, Startup, ConnectAll, Submit, ReadBack, Cleanup,
         DeviceReset, ReleaseAll, Disturb, CardWork

LEMMA AnswerKept ==
  ASSUME AnswerInv, UNCHANGED <<buf, resp, respDone, poll>>,
         success' => success, interrupted => interrupted',
         pc \in LatePCs => pc' \in LatePCs,
         (pc' = pc /\ n' = n) \/ pc' \notin {"copy"} \cup CopiedPCs
  PROVE  AnswerInv'
<1>1. Full' = Full /\ (Seen' => Seen)
  BY DEF Full, Seen
<1>2. /\ respDone' => Full'
      /\ success' => /\ pc' \in LatePCs
                     /\ Full' /\ resp'[1] = "expected"
                     /\ poll' < Polls => resp' = buf'
  BY <1>1 DEF AnswerInv
<1>3. /\ pc' = "copy" => /\ n' \in Words
                         /\ Seen' => Full' /\ \A w \in 1 .. n' - 1 : resp'[w] = buf'[w]
      /\ pc' \in CopiedPCs /\ Seen' => Full' /\ resp' = buf'
  BY <1>1 DEF AnswerInv
<1> QED BY <1>2, <1>3 DEF AnswerInv

\* There is no success before the verdict.
LEMMA Unjudged == ASSUME AnswerInv, pc \notin LatePCs PROVE ~ success
BY DEF AnswerInv

\* The response index moves last, so whoever has seen it move has a whole
\* answer before him.
LEMMA AnswerStep ==
  ASSUME QueryTypeOK, BellInv, AnswerInv, [Next]_vars PROVE AnswerInv'
<1> USE ExchangeAssumption DEF loopVars, flagVars, sessionVars, exchangeVars, toolVars, Goto
<1>1. ASSUME Begin PROVE AnswerInv'
  BY <1>1 DEF Begin, Launch, ExchangeReset, AnswerInv, CopiedPCs
<1>2. ASSUME Acquire("setup", SetupOrder, "baseline"), UNCHANGED <<exchangeVars, toolVars>> PROVE AnswerInv'
  BY <1>2, AnswerKept DEF Acquire, CopiedPCs, LatePCs
<1>3. ASSUME AcquireFails("setup", SetupOrder), UNCHANGED <<exchangeVars, toolVars>> PROVE AnswerInv'
  BY <1>3, AnswerKept DEF AcquireFails, CopiedPCs, LatePCs
<1>4. ASSUME Baseline PROVE AnswerInv'
  BY <1>4, AnswerKept DEF Baseline, Check, CopiedPCs, LatePCs
<1>5. ASSUME ReadIndexes PROVE AnswerInv'
  BY <1>5, AnswerKept DEF ReadIndexes, Check, CopiedPCs, LatePCs
<1>6. ASSUME Quiesce, UNCHANGED <<exchangeVars, toolVars>> PROVE AnswerInv'
  BY <1>6, AnswerKept DEF Quiesce, DisableInterrupts, CopiedPCs, LatePCs
<1>7. ASSUME ResetGlobal, UNCHANGED <<exchangeVars, toolVars>> PROVE AnswerInv'
  BY <1>7, AnswerKept DEF ResetGlobal, CopiedPCs, LatePCs
<1>8. ASSUME GlobalOnly, UNCHANGED <<exchangeVars, toolVars>> PROVE AnswerInv'
  BY <1>8, AnswerKept DEF GlobalOnly, CopiedPCs, LatePCs
<1>9. ASSUME RingIndex(indexes[<<dsp, ring>>]), UNCHANGED <<exchangeVars, toolVars>> PROVE AnswerInv'
  BY <1>9, AnswerKept DEF RingIndex, CopiedPCs, LatePCs
<1>10. ASSUME RingDesc, UNCHANGED <<exchangeVars, toolVars>> PROVE AnswerInv'
  BY <1>10, AnswerKept DEF RingDesc, WriteDesc, CopiedPCs, LatePCs
<1>11. ASSUME RingDone, UNCHANGED <<exchangeVars, toolVars>> PROVE AnswerInv'
  BY <1>11, AnswerKept DEF RingDone, CopiedPCs, LatePCs
<1>12. ASSUME Enable(IF connect THEN "connect" ELSE "postResponse"), UNCHANGED <<exchangeVars, toolVars>> PROVE AnswerInv'
  BY <1>12, AnswerKept DEF Enable, CopiedPCs, LatePCs
<1>13. ASSUME Connect, UNCHANGED toolVars PROVE AnswerInv'
  BY <1>13, AnswerKept DEF Connect, CopiedPCs, LatePCs
<1>14. ASSUME Clock, UNCHANGED toolVars PROVE AnswerInv'
  BY <1>14, AnswerKept DEF Clock, CopiedPCs, LatePCs
<1>15. ASSUME ConnectPoll, UNCHANGED toolVars PROVE AnswerInv'
  <2>1. /\ pc = "connectPoll" /\ ~ success /\ UNCHANGED <<buf, resp, respDone, success>>
        /\ pc' \notin {"copy"} \cup CopiedPCs
    BY <1>15, Unjudged DEF ConnectPoll, LatePCs, CopiedPCs
  <2> QED BY <2>1 DEF AnswerInv, Full
<1>16. ASSUME Post("postResponse", Resp0, ResponsePosition, "postCommand"), UNCHANGED toolVars PROVE AnswerInv'
  BY <1>16, AnswerKept DEF Post, CopiedPCs, LatePCs
<1>17. ASSUME Post("postCommand", Cmd0, CommandPosition, "poll"), UNCHANGED toolVars PROVE AnswerInv'
  BY <1>17, AnswerKept DEF Post, CopiedPCs, LatePCs
<1>18. ASSUME Poll PROVE AnswerInv'
  <2>1. /\ pc = "poll" /\ UNCHANGED <<buf, resp, respDone, success, interrupted>> /\ ~ success
    BY <1>18, Unjudged DEF Poll, PollAnswer, LatePCs
  <2>2. CASE pc' = "poll"
    BY <2>1, <2>2 DEF AnswerInv, CopiedPCs, Full
  <2>3. CASE pc' # "poll"
    <3>1. pc' = "copy" /\ n' = 1 /\ poll' = poll
      BY <1>18, <2>1, <2>3 DEF Poll, PollAnswer
    <3>2. ASSUME Seen PROVE Full
      <4>1. AnswerSeen(CommandPosition, ResponsePosition)
        BY <1>18, <2>1, <2>3, <3>2 DEF Poll, PollAnswer, Seen
      <4>2. ReadIndex(Resp0) = 1
        BY <4>1, Positions DEF AnswerSeen
      <4>3. linked /\ idx[Resp0].read = 1
        BY <4>2, QueryAssumption DEF ReadIndex
      <4> QED BY <2>1, <4>3 DEF BellInv, Bell, Read, InFlight
    <3>3. Full' = Full /\ Seen' = Seen
      BY <2>1, <3>1 DEF Full, Seen
    <3>4. 1 \in Words /\ 1 .. 1 - 1 = {}
      BY DEF Words
    <3>5. respDone' => Full'
      BY <2>1, <3>3 DEF AnswerInv
    <3> QED BY <2>1, <3>1, <3>2, <3>3, <3>4, <3>5 DEF AnswerInv, CopiedPCs
  <2> QED BY <2>2, <2>3
<1>19. ASSUME CopyWord("readCommand"), UNCHANGED toolVars PROVE AnswerInv'
  <2>1. /\ pc = "copy" /\ n \in Words /\ ~ success
        /\ UNCHANGED <<buf, poll, respDone, success, interrupted>>
        /\ resp' = [resp EXCEPT ![n] = buf[n]]
    BY <1>19, Unjudged DEF CopyWord, AnswerInv, LatePCs
  <2>2. Full' = Full /\ Seen' = Seen
    BY <2>1 DEF Full, Seen
  <2>3. Seen => Full /\ \A w \in 1 .. n - 1 : resp[w] = buf[w]
    BY <2>1 DEF AnswerInv
  <2>4. Seen => \A w \in 1 .. n : resp'[w] = buf[w]
    BY <2>1, <2>3 DEF QueryTypeOK, Words
  <2>5. respDone' => Full'
    BY <2>1, <2>2 DEF AnswerInv
  <2>6. CASE n = RespWords
    <3>1. pc' = "readCommand"
      BY <1>19, <2>6 DEF CopyWord
    <3>2. Seen => resp' = buf
      BY <2>1, <2>4, <2>6 DEF QueryTypeOK, Words
    <3> QED BY <2>1, <2>2, <2>3, <2>5, <3>1, <3>2 DEF AnswerInv, CopiedPCs
  <2>7. CASE n # RespWords
    <3>1. pc' = "copy" /\ n' = n + 1 /\ n' \in Words /\ n' - 1 = n
      BY <1>19, <2>1, <2>7 DEF CopyWord, Words
    <3> QED BY <2>1, <2>2, <2>3, <2>4, <2>5, <3>1 DEF AnswerInv, CopiedPCs
  <2> QED BY <2>6, <2>7
<1>20. ASSUME ReadCommand(CommandPosition), UNCHANGED toolVars PROVE AnswerInv'
  <2>1. /\ pc = "readCommand" /\ pc' = "readResponse" /\ ~ success
        /\ UNCHANGED <<buf, resp, poll, respDone, success, interrupted>>
    BY <1>20, Unjudged DEF ReadCommand, LatePCs
  <2> QED BY <2>1 DEF AnswerInv, CopiedPCs, Full, Seen
<1>21. ASSUME ReadResponse(ResponsePosition), UNCHANGED toolVars PROVE AnswerInv'
  <2>1. /\ pc = "readResponse" /\ pc' = "judge" /\ ~ success
        /\ UNCHANGED <<buf, resp, poll, success, interrupted>>
        /\ respDone' = (ReadIndex(Resp0) = 1)
    BY <1>21, Unjudged, Positions DEF ReadResponse, LatePCs
  <2>2. ASSUME respDone' PROVE Full
    <3>0. ReadIndex(Resp0) = 1
      BY <2>1, <2>2, Zenon
    <3>1. linked /\ idx[Resp0].read = 1
      BY <3>0, QueryAssumption DEF ReadIndex
    <3> QED BY <2>1, <3>1 DEF BellInv, Bell, Read, InFlight
  <2>3. Full' = Full /\ Seen' = Seen
    BY <2>1 DEF Full, Seen
  <2> QED BY <2>1, <2>2, <2>3 DEF AnswerInv, CopiedPCs
<1>22. ASSUME Judge PROVE AnswerInv'
  <2>1. /\ pc = "judge" /\ pc' = "cleanup"
        /\ UNCHANGED <<buf, resp, poll, respDone, interrupted>>
        /\ success' => ~ interrupted /\ respDone /\ resp[1] = "expected"
    BY <1>22 DEF Judge, JudgeAs, Accepted
  <2>2. Full' = Full
    BY <2>1 DEF Full
  <2>3. success' /\ poll < Polls => resp = buf
    BY <2>1 DEF AnswerInv, CopiedPCs, Seen
  <2> QED BY <2>1, <2>2, <2>3 DEF AnswerInv, CopiedPCs, LatePCs
<1>23. ASSUME CleanupEnter, UNCHANGED <<exchangeVars, toolVars>> PROVE AnswerInv'
  BY <1>23, AnswerKept DEF CleanupEnter, CopiedPCs, LatePCs
<1>24. ASSUME CleanupInt, UNCHANGED <<exchangeVars, toolVars>> PROVE AnswerInv'
  BY <1>24, AnswerKept DEF CleanupInt, DisableInterrupts, CopiedPCs, LatePCs
<1>25. ASSUME CleanupReset, UNCHANGED <<exchangeVars, toolVars>> PROVE AnswerInv'
  BY <1>25, AnswerKept DEF CleanupReset, CopiedPCs, LatePCs
<1>26. ASSUME CleanupGlobal, UNCHANGED <<exchangeVars, toolVars>> PROVE AnswerInv'
  BY <1>26, AnswerKept DEF CleanupGlobal, CopiedPCs, LatePCs
<1>27. ASSUME CleanupClear, UNCHANGED <<exchangeVars, toolVars>> PROVE AnswerInv'
  BY <1>27, AnswerKept DEF CleanupClear, CopiedPCs, LatePCs
<1>28. ASSUME CleanupCold, UNCHANGED <<exchangeVars, toolVars>> PROVE AnswerInv'
  BY <1>28, AnswerKept DEF CleanupCold, CopiedPCs, LatePCs
<1>29. ASSUME CleanupRestored, UNCHANGED <<exchangeVars, toolVars>> PROVE AnswerInv'
  BY <1>29, AnswerKept DEF CleanupRestored, CopiedPCs, LatePCs
<1>30. ASSUME VfioReset("report"), UNCHANGED <<exchangeVars, toolVars>> PROVE AnswerInv'
  BY <1>30, AnswerKept DEF VfioReset, CopiedPCs, LatePCs
<1>31. ASSUME VfioRecovered("report"), UNCHANGED <<exchangeVars, toolVars>> PROVE AnswerInv'
  BY <1>31, AnswerKept DEF VfioRecovered, CopiedPCs, LatePCs
<1>32. ASSUME Report PROVE AnswerInv'
  BY <1>32, AnswerKept DEF Report, ReportThen, CopiedPCs, LatePCs
<1>33. ASSUME Release("release", ReleaseOrder, "exit"), UNCHANGED <<exchangeVars, toolVars>> PROVE AnswerInv'
  BY <1>33, AnswerKept DEF Release, CopiedPCs, LatePCs
<1>34. ASSUME Signal, UNCHANGED <<exchangeVars, toolVars>> PROVE AnswerInv'
  BY <1>34, AnswerKept DEF Signal, CopiedPCs, LatePCs
<1>35. ASSUME Kill, UNCHANGED <<exchangeVars, toolVars>> PROVE AnswerInv'
  BY <1>35, AnswerKept DEF Kill, CopiedPCs, LatePCs
<1>36. ASSUME Consume, UNCHANGED toolVars PROVE AnswerInv'
  BY <1>36, AnswerKept DEF Consume, CopiedPCs, LatePCs
<1>37. ASSUME AnswerWord(CommandPosition), UNCHANGED toolVars PROVE AnswerInv'
  <2>1. PICK w \in Words : buf[w] = "canary"
    BY <1>37 DEF AnswerWord
  <2>2. ~ Full
    BY <2>1 DEF Full
  <2>3. UNCHANGED <<pc, n, resp, respDone, poll, success, interrupted>>
    BY <1>37 DEF AnswerWord
  <2>4. Seen' = Seen
    BY <2>3 DEF Seen
  <2> QED BY <2>2, <2>3, <2>4 DEF AnswerInv
<1>38. ASSUME AnswerDone(CommandPosition), UNCHANGED toolVars PROVE AnswerInv'
  BY <1>38, AnswerKept DEF AnswerDone, CopiedPCs, LatePCs
<1>39. ASSUME StrayWrite, UNCHANGED toolVars PROVE AnswerInv'
  BY <1>39, AnswerKept DEF StrayWrite, CopiedPCs, LatePCs
<1>40. ASSUME CardStep, UNCHANGED <<sessionVars, exchangeVars, toolVars>> PROVE AnswerInv'
  BY <1>40, AnswerKept DEF CardStep, ReadyFlip, LinkLoss, CopiedPCs, LatePCs
<1>41. ASSUME UNCHANGED vars PROVE AnswerInv'
  BY <1>41, AnswerKept DEF vars, CopiedPCs, LatePCs
<1> QED
  BY <1>1, <1>2, <1>3, <1>4, <1>5, <1>6, <1>7, <1>8, <1>9, <1>10, <1>11,
     <1>12, <1>13, <1>14, <1>15, <1>16, <1>17, <1>18, <1>19, <1>20, <1>21,
     <1>22, <1>23, <1>24, <1>25, <1>26, <1>27, <1>28, <1>29, <1>30, <1>31,
     <1>32, <1>33, <1>34, <1>35, <1>36, <1>37, <1>38, <1>39, <1>40, <1>41
     DEF Next, Main, Environment, Setup, Startup, ConnectAll, Submit, ReadBack, Cleanup,
         DeviceReset, ReleaseAll, Disturb, CardWork

----------------------------------------------------------------------------
(* The theorems.                                                           *)

LEMMA QueryInit == Init => QueryInv
<1> SUFFICES ASSUME Init PROVE QueryInv
  OBVIOUS
<1> USE CardAssumption, ExchangeAssumption, Zeros DEF Init, SessionInit, ExchangeInit
<1>1. IdxOK
  <2>1. PICK i \in {0, Entries} : idx = [x \in RingIds |-> [bell |-> 0, write |-> 0, read |-> i]]
    BY DEF CardInit
  <2>2. [bell |-> 0, write |-> 0, read |-> i] \in IdxWord
    BY DEF IdxWord
  <2> QED BY <2>1, <2>2 DEF IdxOK
<1>2. QueryTypeOK
  <2>1. Canary \in [Words -> Answers]
    BY DEF Canary, Answers
  <2>2. n \in Nat \ {0} /\ poll \in Nat /\ ring \in RINGS /\ dsp \in DSPS /\ toClear \in SUBSET RingIds
    BY DEF RINGS
  <2>3. connect \in BOOLEAN /\ indexes = [x \in RingIds |-> 0]
    OBVIOUS
  <2> QED BY <1>1, <2>1, <2>2, <2>3 DEF QueryTypeOK
<1>3. BellInv
  BY DEF BellInv, EarlyPCs, ConnectPCs, InFlight
<1>4. OfferInv /\ AnswerInv
  BY DEF OfferInv, AnswerInv, ConnectPCs, CopiedPCs
<1> QED BY <1>2, <1>3, <1>4 DEF QueryInv

LEMMA QueryStep == QueryInv /\ [Next]_vars => QueryInv'
<1> SUFFICES ASSUME QueryInv, [Next]_vars PROVE QueryInv'
  OBVIOUS
<1>1. BellInv'
  BY BellStep DEF QueryInv
<1> QED BY <1>1, TypeStep, OfferStep, AnswerStep DEF QueryInv

\* The strengthening is inductive: the indexes taken before the startup are
\* zero, the index words follow the doorbells, and no conclusion is drawn
\* from a partial answer.
THEOREM QueryInductive == Spec => []QueryInv
BY QueryInit, QueryStep, PTL DEF Spec

\* Main rings the doorbell of the response buffer before that of the query,
\* and cleanup clears the command ring before the response ring.
THEOREM OfferedFirst == Spec => []ResponseOffered
<1>1. QueryInv => ResponseOffered
  BY Positions DEF QueryInv, OfferInv, ResponseOffered, Bell
<1> QED BY <1>1, QueryInductive, PTL

\* In connect mode the query is sent only behind a consumed connect sequence,
\* which no later step of the card undoes.
THEOREM ConnectedQuery == Spec => []QueryAfterConnect
<1>1. QueryInv => QueryAfterConnect
  <2> SUFFICES ASSUME QueryInv, connect, pc \in InFlight, linked, NEW d \in DSPS
               PROVE  idx[<<d, 0>>].read >= (IF d = 0 THEN 2 ELSE 1)
    BY DEF QueryAfterConnect, ConnectedFirst
  <2>1. /\ idx[Cmd0].read \in {2, 3}
        /\ d # 0 => idx[<<d, 0>>].read = 1
    BY DEF QueryInv, BellInv, Read
  <2>2. d = 0 => <<d, 0>> = Cmd0
    BY DEF Cmd0
  <2> QED BY <2>1, <2>2
<1> QED BY <1>1, QueryInductive, PTL

\* The tool reports success only for an answer that the card wrote in full.
THEOREM AnsweredSuccess == Spec => []SuccessIsAnswered
<1>1. QueryInv => SuccessIsAnswered
  BY DEF QueryInv, AnswerInv, SuccessIsAnswered, Full
<1> QED BY <1>1, QueryInductive, PTL

\* A success whose poll saw the answer rests on words that are not stale.
THEOREM WholeAnswer == Spec => []PolledAnswerIsWhole
<1>1. QueryInv => PolledAnswerIsWhole
  BY DEF QueryInv, AnswerInv, PolledAnswerIsWhole
<1> QED BY <1>1, QueryInductive, PTL

----------------------------------------------------------------------------
(* The refinement: every step of the tool is a step of Experiment, or      *)
(* leaves its state alone.  It needs what the process holds, the DMA       *)
(* control register, and the words that the host owns.                     *)

InitLoop  == {"ringIndex", "ringDesc", "enable"}
BeforePCs == {"idle", "setup", "baseline", "indexes", "startup"}
\* From the first register write to the cleanup label.
WorkPCs == {"resetGlobal", "globalOnly", "postResponse", "postCommand"}
             \cup InitLoop \cup ConnectPCs \cup InFlight
\* The inverse register sequence, and what follows it.
RestorePCs == {"cInt", "cReset", "cGlobal", "cClear", "cCold", "cRestored"}
OverPCs == {"cVfioReset", "cRecovered", "report", "release", "exit"}

Held == {"container", "group", "set", "memory", "dma", "device", "bar"}
Blank == \A s \in DescSlots : desc[s] = 0
Zeroed == \A x \in RingIds : idx[x].bell = 0 /\ idx[x].write = 0

HeldInv ==
  /\ pc \in BeforePCs \cup WorkPCs \cup {"cleanup"} \cup RestorePCs \cup OverPCs \cup {"killed"}
  /\ pc \in {"setup", "release"} => n \in 1 .. 7
  /\ pc \notin {"setup", "release", "copy", "killed"} => n = 1
  /\ pc \in BeforePCs => ~ started
  /\ pc \in WorkPCs \cup RestorePCs => started
  /\ pc = "setup" => \A i \in 1 .. n - 1 : SetupOrder[i] \in has
  /\ pc \in {"baseline", "indexes", "startup"} => Held \subseteq has
  /\ started /\ pc \in WorkPCs \cup RestorePCs \cup {"cleanup"} => Held \subseteq has

WordInv ==
  linked =>
    /\ pc \in {"indexes", "startup", "resetGlobal"} => dmaCtl = COLD_RESET
    /\ pc = "globalOnly" => dmaCtl = RESET_GLOBAL
    /\ pc \in InitLoop => dmaCtl = EnableUpTo(dsp - 1)
    /\ pc = "cRestored" \/ (started /\ pc \in OverPCs) => dmaCtl = COLD_RESET

HostWordInv ==
  linked =>
    /\ pc \in {"indexes", "startup"} => Blank /\ Zeroed
    /\ pc = "cClear" =>
         /\ \A s \in DescSlots : <<s[1], s[2]>> \notin toClear => desc[s] = 0
         /\ \A x \in RingIds \ toClear : idx[x].bell = 0 /\ idx[x].write = 0
    /\ pc \in {"cCold", "cRestored"} \/ (started /\ pc \in OverPCs) => Blank /\ Zeroed

\* The two orders name the seven resources of the tool.
LEMMA Orders ==
  /\ Len(SetupOrder) = 7 /\ Len(ReleaseOrder) = 7
  /\ \A i \in 1 .. 7 : SetupOrder[i] \in Held /\ ReleaseOrder[i] \in Held
  /\ \A h \in Held : \E i \in 1 .. 7 : SetupOrder[i] = h
  /\ \A i \in 1 .. 7 : /\ ReleaseOrder[i] = "container" <=> i = 7
                       /\ ReleaseOrder[i] = "dma" <=> i = 3
<1>1. Len(SetupOrder) = 7 /\ Len(ReleaseOrder) = 7
  BY DEF SetupOrder, ReleaseOrder
<1>2. \A i \in 1 .. 7 : SetupOrder[i] \in Held /\ ReleaseOrder[i] \in Held
  BY DEF SetupOrder, ReleaseOrder, Held
<1>3. \A h \in Held : \E i \in 1 .. 7 : SetupOrder[i] = h
  <2>1. /\ SetupOrder[1] = "container" /\ SetupOrder[2] = "group" /\ SetupOrder[3] = "set"
        /\ SetupOrder[4] = "memory" /\ SetupOrder[5] = "dma" /\ SetupOrder[6] = "device"
        /\ SetupOrder[7] = "bar"
    BY DEF SetupOrder
  <2> QED BY <2>1 DEF Held
<1>4. \A i \in 1 .. 7 : /\ ReleaseOrder[i] = "container" <=> i = 7
                        /\ ReleaseOrder[i] = "dma" <=> i = 3
  BY DEF ReleaseOrder
<1> QED BY <1>1, <1>2, <1>3, <1>4

\* What the kernel may do to the card when it closes the device.
LEMMA CloseCard ==
  ASSUME KernelCloses
  PROVE  /\ linked' = linked
         /\ UNCHANGED cardVars \/ (linked => dmaCtl' = COLD_RESET /\ Blank' /\ Zeroed')
<1>1. CASE FunctionReset /\ linked
  <2>1. /\ dmaCtl' = COLD_RESET /\ desc' = [s \in DescSlots |-> 0] /\ linked' = linked
        /\ idx' = [x \in RingIds |-> [bell |-> 0, write |-> 0, read |-> 0]]
    BY <1>1 DEF FunctionReset
  <2> QED BY <2>1 DEF Blank, Zeroed
<1>2. CASE FunctionReset /\ ~ linked
  BY <1>2 DEF FunctionReset
<1>3. CASE UNCHANGED cardVars
  BY <1>3 DEF cardVars
<1> QED BY <1>1, <1>2, <1>3 DEF KernelCloses

\* A write to the DMA control register, and the card's own progress, reach no
\* other word that the host owns.
LEMMA DmaWritten ==
  ASSUME IdxOK, NEW v, WriteDma(v)
  PROVE  /\ UNCHANGED <<linked, desc>> /\ (linked => dmaCtl' = v)
         /\ \A x \in RingIds : idx'[x].bell = idx[x].bell /\ idx'[x].write = idx[x].write
<1>1. UNCHANGED <<linked, desc>> /\ (linked => dmaCtl' = v)
  BY DEF WriteDma
<1>2. ASSUME NEW x \in RingIds
      PROVE  idx'[x].bell = idx[x].bell /\ idx'[x].write = idx[x].write
  <2>1. idx'[x] = idx[x] \/ idx'[x] = [idx[x] EXCEPT !.read = 0]
    BY DEF WriteDma
  <2> QED BY <2>1, IdxTyped
<1> QED BY <1>1, <1>2
LEMMA ProgressKeeps ==
  ASSUME IdxOK, NEW x \in RingIds, Advance(x)
  PROVE  \A y \in RingIds : idx'[y].bell = idx[y].bell /\ idx'[y].write = idx[y].write
<1> DEFINE r == (idx[x].read + 1) % Entries
           e == [idx[x] EXCEPT !.read = r]
<1>1. idx' = [idx EXCEPT ![x] = e]
  BY DEF IdxOK, Advance
<1>2. e.bell = idx[x].bell /\ e.write = idx[x].write
  BY IdxTyped
<1> HIDE DEF e
<1> QED BY <1>1, <1>2 DEF IdxOK

\* Nor does anything else that the card does at work.
LEMMA CardKeeps ==
  ASSUME IdxOK, NEW p, CardWork(p)
  PROVE  /\ UNCHANGED <<dmaCtl, desc, sessionVars>> /\ (linked' => linked)
         /\ \A y \in RingIds : idx'[y].bell = idx[y].bell /\ idx'[y].write = idx[y].write
<1>1. CASE Consume
  <2>1. PICK d \in DSPS : Advance(<<d, 0>>)
    BY <1>1 DEF Consume
  <2> QED BY <1>1, <2>1, Zeros, ProgressKeeps DEF Consume
<1>2. CASE AnswerDone(p)
  BY <1>2, Zeros, ProgressKeeps DEF AnswerDone
<1>3. CASE AnswerWord(p) \/ StrayWrite
  BY <1>3 DEF AnswerWord, StrayWrite, cardVars
<1>4. CASE CardStep /\ UNCHANGED <<sessionVars, exchangeVars>>
  BY <1>4 DEF CardStep, ReadyFlip, LinkLoss
<1> QED BY <1>1, <1>2, <1>3, <1>4 DEF CardWork

\* The host-owned words of an answering card after one ring is cleared.
LEMMA RingCleared ==
  ASSUME IdxOK, NEW x \in RingIds, ClearRing(x)
  PROVE  /\ UNCHANGED <<linked, dmaCtl>>
         /\ linked => /\ \A s \in DescSlots :
                           desc'[s] = IF <<s[1], s[2]>> = x THEN 0 ELSE desc[s]
                      /\ idx'[x].bell = 0 /\ idx'[x].write = 0
                      /\ \A y \in RingIds \ {x} : idx'[y] = idx[y]
<1>1. UNCHANGED <<linked, dmaCtl>>
  BY DEF ClearRing
<1>2. ASSUME linked, NEW s \in DescSlots
      PROVE  desc'[s] = IF <<s[1], s[2]>> = x THEN 0 ELSE desc[s]
  <2>1. x = <<x[1], x[2]>>
    BY DEF RingIds
  <2> QED BY <1>2, <2>1 DEF ClearRing
<1>3. ASSUME linked
      PROVE  /\ idx'[x].bell = 0 /\ idx'[x].write = 0
             /\ \A y \in RingIds \ {x} : idx'[y] = idx[y]
  <2>1. /\ idx' = [idx EXCEPT ![x].bell = 0, ![x].write = 0]
        /\ idx \in [RingIds -> IdxWord]
    BY <1>3 DEF ClearRing, IdxOK
  <2> QED BY <2>1 DEF IdxWord
<1> QED BY <1>1, <1>2, <1>3

\* The process holds everything from the baseline test to the release.
LEMMA HeldStep ==
  ASSUME HeldInv, n \in Nat, [Next]_vars PROVE HeldInv'
<1> USE DEF loopVars, flagVars, sessionVars, exchangeVars, toolVars, cardVars, Goto, HeldInv, BeforePCs,
        WorkPCs, RestorePCs, OverPCs, InitLoop, ConnectPCs, InFlight
<1>1. ASSUME Begin PROVE HeldInv'
  BY <1>1 DEF Begin, Launch, Stopped
<1>2. ASSUME Acquire("setup", SetupOrder, "baseline") PROVE HeldInv'
  <2>1. pc = "setup" /\ SetupOrder[n] \in has' /\ has \subseteq has' /\ n \in 1 .. 7
    BY <1>2 DEF Acquire
  <2>2. \A i \in 1 .. n : SetupOrder[i] \in has'
    BY <2>1
  <2>3. CASE n = 7
    <3>1. Held \subseteq has'
      BY <2>2, <2>3, Orders
    <3> QED BY <1>2, <2>3, <3>1, Orders DEF Acquire
  <2>4. CASE n # 7
    BY <1>2, <2>1, <2>2, <2>4, Orders DEF Acquire
  <2> QED BY <2>3, <2>4
<1>3. ASSUME AcquireFails("setup", SetupOrder) PROVE HeldInv'
  BY <1>3 DEF AcquireFails
<1>4. ASSUME Baseline \/ ReadIndexes PROVE HeldInv'
  BY <1>4 DEF Baseline, ReadIndexes, Check
<1>5. ASSUME Quiesce \/ ResetGlobal \/ GlobalOnly PROVE HeldInv'
  BY <1>5 DEF Quiesce, ResetGlobal, GlobalOnly
<1>6. ASSUME \/ RingIndex(indexes[<<dsp, ring>>]) \/ RingDesc \/ RingDone
             \/ Enable(IF connect THEN "connect" ELSE "postResponse")
      PROVE  HeldInv'
  BY <1>6 DEF RingIndex, RingDesc, RingDone, Enable
<1>7. ASSUME ConnectAll \/ Submit PROVE HeldInv'
  BY <1>7 DEF ConnectAll, Connect, Clock, ConnectPoll, Submit, Post
<1>8. ASSUME Poll \/ Judge PROVE HeldInv'
  BY <1>8 DEF Poll, PollAnswer, Judge, JudgeAs
<1>9. ASSUME ReadBack PROVE HeldInv'
  BY <1>9 DEF ReadBack, CopyWord, ReadCommand, ReadResponse
<1>10. ASSUME CleanupEnter \/ CleanupInt \/ CleanupReset \/ CleanupGlobal PROVE HeldInv'
  BY <1>10 DEF CleanupEnter, CleanupInt, CleanupReset, CleanupGlobal, Held
<1>11. ASSUME CleanupClear \/ CleanupCold \/ CleanupRestored PROVE HeldInv'
  BY <1>11 DEF CleanupClear, CleanupCold, CleanupRestored
<1>12. ASSUME DeviceReset \/ Report PROVE HeldInv'
  BY <1>12 DEF DeviceReset, VfioReset, VfioRecovered, Report, ReportThen
<1>13. ASSUME ReleaseAll PROVE HeldInv'
  BY <1>13, Orders DEF ReleaseAll, Release
<1>14. ASSUME Disturb PROVE HeldInv'
  BY <1>14 DEF Disturb, Signal, Kill, Stopped
<1>15. ASSUME UNCHANGED sessionVars PROVE HeldInv'
  BY <1>15
<1>16. ASSUME CardWork(CommandPosition) PROVE UNCHANGED sessionVars
  BY <1>16 DEF CardWork, Consume, AnswerWord, AnswerDone, StrayWrite
<1> QED
  BY <1>1, <1>2, <1>3, <1>4, <1>5, <1>6, <1>7, <1>8, <1>9, <1>10, <1>11, <1>12, <1>13, <1>14,
     <1>15, <1>16 DEF Next, Main, Environment, Setup, Startup, Cleanup, vars

\* Each write leaves the register as the next control point says.
LEMMA WordStep ==
  ASSUME QueryTypeOK, HeldInv, WordInv, [Next]_vars PROVE WordInv'
<1>t. IdxOK /\ dsp \in DSPS /\ DSPS \subseteq Int
  BY CardAssumption DEF QueryTypeOK, DSPS
<1> USE DEF loopVars, flagVars, sessionVars, exchangeVars, toolVars, cardVars, Goto, WordInv, OverPCs,
        InitLoop
<1>1. ASSUME Begin PROVE WordInv'
  BY <1>1 DEF Begin, Launch, Stopped
<1>2. ASSUME Setup PROVE WordInv'
  BY <1>2 DEF Setup, Acquire, AcquireFails, HeldInv, BeforePCs
<1>3. ASSUME Baseline \/ ReadIndexes PROVE WordInv'
  BY <1>3 DEF Baseline, ReadIndexes, Check, ColdBaseline, ReadDma
<1>4. ASSUME Quiesce PROVE WordInv'
  BY <1>4 DEF Quiesce, DisableInterrupts
<1>5. ASSUME ResetGlobal PROVE WordInv'
  BY <1>5 DEF ResetGlobal, WriteDma
<1>6. ASSUME GlobalOnly PROVE WordInv'
  BY <1>6, Shadows DEF GlobalOnly, WriteDma
<1>7. ASSUME RingIndex(indexes[<<dsp, ring>>]) \/ RingDesc \/ RingDone PROVE WordInv'
  BY <1>7 DEF RingIndex, WriteIndexes, RingDesc, WriteDesc, RingDone
<1>8. ASSUME Enable(IF connect THEN "connect" ELSE "postResponse") PROVE WordInv'
  <2>1. pc' \in {"connect", "postResponse"} \/ (pc' = "ringIndex" /\ dsp' = dsp + 1)
    BY <1>8 DEF Enable
  <2>2. linked' => linked /\ dmaCtl' = EnableUpTo(dsp)
    BY <1>8 DEF Enable, WriteDma
  <2>3. dsp' = dsp + 1 => EnableUpTo(dsp' - 1) = EnableUpTo(dsp)
    BY <1>t DEF EnableUpTo
  <2>4. CASE pc' \in {"connect", "postResponse"}
    BY <2>4
  <2>5. CASE pc' = "ringIndex" /\ dsp' = dsp + 1
    BY <2>2, <2>3, <2>5
  <2> QED BY <2>1, <2>4, <2>5
<1>9. ASSUME ConnectAll \/ Submit \/ Poll \/ ReadBack \/ Judge PROVE WordInv'
  <2>1. pc' \in ConnectPCs \cup {"postResponse", "postCommand", "cleanup"} \cup InFlight
    BY <1>9 DEF ConnectAll, Connect, Clock, ConnectPoll, Submit, Post, Poll, PollAnswer, ReadBack,
       CopyWord, ReadCommand, ReadResponse, Judge, JudgeAs, ConnectPCs, InFlight
  <2> QED BY <2>1 DEF ConnectPCs, InFlight
<1>10. ASSUME CleanupEnter PROVE WordInv'
  BY <1>10 DEF CleanupEnter, HeldInv, Held
<1>11. ASSUME CleanupInt \/ CleanupReset \/ CleanupGlobal \/ CleanupClear PROVE WordInv'
  BY <1>11 DEF CleanupInt, CleanupReset, CleanupGlobal, CleanupClear
<1>12. ASSUME CleanupCold PROVE WordInv'
  BY <1>12 DEF CleanupCold, WriteDma
<1>13. ASSUME CleanupRestored PROVE WordInv'
  BY <1>13 DEF CleanupRestored, HeldInv, RestorePCs
<1>14. ASSUME VfioReset("report") \/ VfioRecovered("report") \/ Report PROVE WordInv'
  <2>1. UNCHANGED cardVars \/ KernelCloses
    BY <1>14 DEF VfioReset, VfioRecovered, Report, ReportThen
  <2>2. linked' = linked /\ (UNCHANGED cardVars \/ (linked => dmaCtl' = COLD_RESET))
    BY <2>1, CloseCard
  <2>3. pc \in OverPCs /\ pc' \in OverPCs /\ UNCHANGED started
    BY <1>14 DEF VfioReset, VfioRecovered, Report, ReportThen
  <2> QED BY <2>2, <2>3
<1>15. ASSUME ReleaseAll PROVE WordInv'
  <2>1. UNCHANGED cardVars \/ KernelCloses
    BY <1>15 DEF ReleaseAll, Release
  <2>2. linked' = linked /\ (UNCHANGED cardVars \/ (linked => dmaCtl' = COLD_RESET))
    BY <2>1, CloseCard
  <2>3. pc \in OverPCs /\ pc' \in OverPCs /\ UNCHANGED started
    BY <1>15 DEF ReleaseAll, Release
  <2> QED BY <2>2, <2>3
<1>16. ASSUME Disturb PROVE WordInv'
  BY <1>16 DEF Disturb, Signal, Kill
<1>17. ASSUME UNCHANGED <<dmaCtl, sessionVars>>, linked' => linked PROVE WordInv'
  BY <1>17
<1>18. ASSUME CardWork(CommandPosition) PROVE UNCHANGED <<dmaCtl, sessionVars>> /\ (linked' => linked)
  BY <1>18 DEF CardWork, Consume, AnswerWord, AnswerDone, StrayWrite, CardStep, ReadyFlip, LinkLoss
<1> QED
  BY <1>1, <1>2, <1>3, <1>4, <1>5, <1>6, <1>7, <1>8, <1>9, <1>10, <1>11, <1>12, <1>13, <1>14,
     <1>15, <1>16, <1>17, <1>18 DEF Next, Main, Environment, Startup, Cleanup, DeviceReset, vars

\* The clearing loop leaves nothing behind, and nothing is written after it.
LEMMA HostWordStep ==
  ASSUME QueryTypeOK, HeldInv, HostWordInv, [Next]_vars PROVE HostWordInv'
<1>t. IdxOK /\ toClear \in SUBSET RingIds
  BY DEF QueryTypeOK
<1> USE DEF loopVars, flagVars, sessionVars, exchangeVars, toolVars, cardVars, Goto, HostWordInv, OverPCs
<1>1. ASSUME Begin PROVE HostWordInv'
  BY <1>1 DEF Begin, Launch, Stopped
<1>2. ASSUME Setup PROVE HostWordInv'
  BY <1>2 DEF Setup, Acquire, AcquireFails, HeldInv, BeforePCs
<1>3. ASSUME Baseline PROVE HostWordInv'
  <2>1. CASE pc' = "indexes"
    <3>1. AllRingWordsZero /\ UNCHANGED cardVars
      BY <1>3, <2>1 DEF Baseline, Check, ColdBaseline
    <3>2. Blank' /\ Zeroed'
      BY <3>1 DEF AllRingWordsZero, Blank, Zeroed
    <3> QED BY <2>1, <3>2
  <2>2. CASE pc' = "cleanup"
    BY <2>2
  <2> QED BY <1>3, <2>1, <2>2 DEF Baseline, Check
<1>4. ASSUME ReadIndexes PROVE HostWordInv'
  BY <1>4 DEF ReadIndexes, Check, Blank, Zeroed
<1>5. ASSUME Startup \/ ConnectAll \/ Submit \/ Poll \/ ReadBack \/ Judge PROVE HostWordInv'
  <2>1. pc' \in WorkPCs \cup {"cleanup"}
    <3> USE DEF WorkPCs, ConnectPCs, InFlight, InitLoop
    <3>1. CASE Startup
      BY <3>1 DEF Startup, Quiesce, ResetGlobal, GlobalOnly, RingIndex, RingDesc, RingDone, Enable
    <3>2. CASE ConnectAll \/ Submit
      BY <3>2 DEF ConnectAll, Connect, Clock, ConnectPoll, Submit, Post
    <3>3. CASE Poll \/ ReadBack \/ Judge
      BY <3>3 DEF Poll, PollAnswer, ReadBack, CopyWord, ReadCommand, ReadResponse, Judge, JudgeAs
    <3> QED BY <1>5, <3>1, <3>2, <3>3
  <2> QED BY <2>1 DEF WorkPCs, ConnectPCs, InFlight, InitLoop
<1>6. ASSUME CleanupEnter PROVE HostWordInv'
  BY <1>6 DEF CleanupEnter, HeldInv, Held
<1>7. ASSUME CleanupInt \/ CleanupReset PROVE HostWordInv'
  BY <1>7 DEF CleanupInt, CleanupReset
<1>8. ASSUME CleanupGlobal PROVE HostWordInv'
  <2>1. pc' = "cClear" /\ toClear' = RingIds
    BY <1>8 DEF CleanupGlobal
  <2>2. \A s \in DescSlots : <<s[1], s[2]>> \in RingIds
    BY DEF DescSlots, RingIds
  <2> QED BY <2>1, <2>2
<1>9. ASSUME CleanupClear PROVE HostWordInv'
  <2>1. PICK x \in toClear : /\ ClearRing(x) /\ toClear' = toClear \ {x}
                             /\ pc' = (IF toClear = {x} THEN "cCold" ELSE "cClear")
    BY <1>9 DEF CleanupClear
  <2>2. x \in RingIds /\ pc = "cClear" /\ linked' = linked
    BY <1>t, <1>9, <2>1 DEF CleanupClear, ClearRing
  <2>3. ASSUME linked
        PROVE  /\ \A s \in DescSlots : <<s[1], s[2]>> \notin toClear' => desc'[s] = 0
               /\ \A y \in RingIds \ toClear' : idx'[y].bell = 0 /\ idx'[y].write = 0
    <3>1. /\ \A s \in DescSlots : desc'[s] = IF <<s[1], s[2]>> = x THEN 0 ELSE desc[s]
          /\ idx'[x].bell = 0 /\ idx'[x].write = 0
          /\ \A y \in RingIds \ {x} : idx'[y] = idx[y]
      BY <1>t, <2>1, <2>2, <2>3, RingCleared
    <3> QED BY <2>1, <2>2, <2>3, <3>1
  <2>4. CASE toClear = {x}
    <3>1. toClear' = {} /\ pc' = "cCold"
      BY <2>1, <2>4
    <3> QED BY <2>2, <2>3, <3>1 DEF Blank, Zeroed
  <2>5. CASE toClear # {x}
    BY <2>1, <2>2, <2>3, <2>5
  <2> QED BY <2>4, <2>5
<1>10. ASSUME CleanupCold PROVE HostWordInv'
  <2>1. /\ UNCHANGED <<linked, desc>>
        /\ \A x \in RingIds : idx'[x].bell = idx[x].bell /\ idx'[x].write = idx[x].write
    BY <1>t, <1>10, DmaWritten DEF CleanupCold
  <2> QED BY <1>10, <2>1 DEF CleanupCold, Blank, Zeroed
<1>11. ASSUME CleanupRestored PROVE HostWordInv'
  BY <1>11 DEF CleanupRestored, Blank, Zeroed
<1>12. ASSUME VfioReset("report") \/ VfioRecovered("report") \/ Report PROVE HostWordInv'
  <2>1. UNCHANGED cardVars \/ KernelCloses
    BY <1>12 DEF VfioReset, VfioRecovered, Report, ReportThen
  <2>2. linked' = linked /\ (UNCHANGED cardVars \/ (linked => Blank' /\ Zeroed'))
    BY <2>1, CloseCard
  <2>3. pc \in OverPCs /\ pc' \in OverPCs /\ UNCHANGED started
    BY <1>12 DEF VfioReset, VfioRecovered, Report, ReportThen
  <2> QED BY <2>2, <2>3 DEF Blank, Zeroed
<1>13. ASSUME ReleaseAll PROVE HostWordInv'
  <2>1. UNCHANGED cardVars \/ KernelCloses
    BY <1>13 DEF ReleaseAll, Release
  <2>2. linked' = linked /\ (UNCHANGED cardVars \/ (linked => Blank' /\ Zeroed'))
    BY <2>1, CloseCard
  <2>3. pc \in OverPCs /\ pc' \in OverPCs /\ UNCHANGED started
    BY <1>13 DEF ReleaseAll, Release
  <2> QED BY <2>2, <2>3 DEF Blank, Zeroed
<1>14. ASSUME Signal PROVE HostWordInv'
  BY <1>14 DEF Signal, Blank, Zeroed
<1>15. ASSUME Kill PROVE HostWordInv'
  BY <1>15 DEF Kill
<1>16. ASSUME UNCHANGED <<desc, sessionVars>>, linked' => linked,
              \A y \in RingIds : idx'[y].bell = idx[y].bell /\ idx'[y].write = idx[y].write
       PROVE  HostWordInv'
  BY <1>16 DEF Blank, Zeroed
<1>17. ASSUME CardWork(CommandPosition)
       PROVE  /\ UNCHANGED <<desc, sessionVars>> /\ (linked' => linked)
              /\ \A y \in RingIds : idx'[y].bell = idx[y].bell /\ idx'[y].write = idx[y].write
  BY <1>t, <1>17, CardKeeps
<1> QED
  BY <1>1, <1>2, <1>3, <1>4, <1>5, <1>6, <1>7, <1>8, <1>9, <1>10, <1>11, <1>12, <1>13, <1>14,
     <1>15, <1>16, <1>17 DEF Next, Main, Environment, Cleanup, DeviceReset, Disturb, vars

----------------------------------------------------------------------------
Phase == IF pc \in {"idle", "exit"} THEN "rest"
         ELSE IF pc = "killed" THEN "killed" ELSE "running"
Mapped == "dma" \in has
Dirty == /\ linked
         /\ \/ \E s \in DescSlots : desc[s] # 0
            \/ \E x \in RingIds : idx[x].bell # 0 \/ idx[x].write # 0
ContractStep == [Contract!Next]_(Contract!vars)

\* How a change of these is a step of Experiment.
LEMMA AsStutter ==
  ASSUME Phase' = Phase, started' = started, Mapped' <=> Mapped, Engines' = Engines,
         Dirty' <=> Dirty
  PROVE  ContractStep
<1>1. UNCHANGED {d \in DSPS : EngineLive(d)}
  BY MappedEngines DEF Engines, EnginesOf, EngineLive
<1> QED BY <1>1 DEF ContractStep, Contract!vars, Phase, Mapped, Dirty
LEMMA AsMove ==
  ASSUME Phase = "running", Phase' = "running", started, started', Mapped' <=> Mapped,
         \/ Engines' = Engines
         \/ Engines \subseteq Engines' /\ Mapped /\ (Dirty' <=> Dirty)
         \/ Engines' \subseteq Engines /\ (Dirty' <=> Dirty)
  PROVE  ContractStep
<1>1. {d \in DSPS : EngineLive(d)} = Engines /\ {d \in DSPS : EngineLive(d)}' = Engines'
  BY MappedEngines DEF Engines, EnginesOf, EngineLive
<1>2. Engines' \subseteq DSPS
  BY DEF Engines, EnginesOf
<1>3. CASE Engines' = Engines
  <2>1. Contract!Write
    BY <1>1, <1>3 DEF Contract!Write, Phase, Mapped
  <2> QED BY <2>1 DEF ContractStep, Contract!Next
<1>4. CASE Engines \subseteq Engines' /\ Mapped /\ (Dirty' <=> Dirty)
  <2>1. Contract!Start
    BY <1>1, <1>2, <1>4 DEF Contract!Start, Phase, Mapped, Dirty
  <2> QED BY <2>1 DEF ContractStep, Contract!Next
<1>5. CASE Engines' \subseteq Engines /\ (Dirty' <=> Dirty)
  <2>1. Contract!Stop
    BY <1>1, <1>5 DEF Contract!Stop, Phase, Mapped, Dirty
  <2> QED BY <2>1 DEF ContractStep, Contract!Next
<1> QED BY <1>3, <1>4, <1>5
LEMMA AsFirst ==
  ASSUME Phase = "running", Phase' = "running", started', Mapped' <=> Mapped,
         Engines = {}, Engines' = {}, ~ Dirty
  PROVE  ContractStep
<1>1. {d \in DSPS : EngineLive(d)} = {} /\ {d \in DSPS : EngineLive(d)}' = {}
  BY MappedEngines DEF Engines, EnginesOf, EngineLive
<1>2. Contract!Write
  BY <1>1 DEF Contract!Write, Phase, Mapped, Dirty
<1> QED BY <1>2 DEF ContractStep, Contract!Next
LEMMA AsClear ==
  ASSUME Phase' = Phase, started' = started, Mapped' <=> Mapped, Engines' = {}, ~ Dirty'
  PROVE  ContractStep
<1>1. {d \in DSPS : EngineLive(d)}' = {}
  BY MappedEngines DEF Engines, EnginesOf, EngineLive
<1>2. Contract!Clear
  BY <1>1 DEF Contract!Clear, Phase, Mapped, Dirty
<1> QED BY <1>2 DEF ContractStep, Contract!Next
LEMMA AsMap ==
  ASSUME Phase = "running", Phase' = "running", ~ started, started' = started, ~ Mapped, Mapped',
         UNCHANGED cardVars
  PROVE  ContractStep
<1>1. UNCHANGED {d \in DSPS : EngineLive(d)} /\ (Dirty' <=> Dirty)
  BY DEF EngineLive, cardVars, Dirty
<1>2. Contract!Map
  BY <1>1 DEF Contract!Map, Phase, Mapped, Dirty
<1> QED BY <1>2 DEF ContractStep, Contract!Next
LEMMA AsUnmap ==
  ASSUME Phase = "running", Phase' = "running", started => Engines = {}, started' = started,
         ~ Mapped', UNCHANGED cardVars
  PROVE  ContractStep
<1>1. UNCHANGED {d \in DSPS : EngineLive(d)} /\ (Dirty' <=> Dirty)
  BY DEF EngineLive, cardVars, Dirty
<1>2. {d \in DSPS : EngineLive(d)} = Engines
  BY MappedEngines
<1>3. Contract!Unmap
  BY <1>1, <1>2 DEF Contract!Unmap, Phase, Mapped, Dirty
<1> QED BY <1>3 DEF ContractStep, Contract!Next
LEMMA AsBegin ==
  ASSUME Phase # "running", Phase' \in {"running", "rest"}, ~ started', UNCHANGED <<cardVars, has>>
  PROVE  ContractStep
<1>1. /\ UNCHANGED {d \in DSPS : EngineLive(d)}
      /\ (Dirty' <=> Dirty) /\ (Mapped' <=> Mapped)
  BY DEF EngineLive, cardVars, Dirty, Mapped
<1>2. Contract!Begin
  BY <1>1 DEF Contract!Begin, Phase, Mapped, Dirty
<1> QED BY <1>2 DEF ContractStep, Contract!Next
\* The process is gone: it was killed, or it exits over a clear card.
LEMMA AsGone ==
  ASSUME Phase = "running", started' = started, ~ Mapped',
         \/ Phase' = "killed"
         \/ Phase' = "rest" /\ (started => Engines = {} /\ ~ Dirty),
         UNCHANGED cardVars \/ (Engines' = {} /\ ~ Dirty')
  PROVE  ContractStep
<1>1. {d \in DSPS : EngineLive(d)} = Engines /\ {d \in DSPS : EngineLive(d)}' = Engines'
  BY MappedEngines DEF Engines, EnginesOf, EngineLive
<1>2. UNCHANGED cardVars => Engines' = Engines /\ (Dirty' <=> Dirty)
  BY DEF Engines, cardVars, Dirty
<1>3. CASE Phase' = "killed"
  <2>1. Contract!Die
    BY <1>1, <1>2, <1>3 DEF Contract!Die, Phase, Mapped, Dirty
  <2> QED BY <2>1 DEF ContractStep, Contract!Next
<1>4. CASE Phase' = "rest" /\ (started => Engines = {} /\ ~ Dirty)
  <2>1. Contract!Safe
    BY <1>1, <1>4 DEF Contract!Safe, Dirty
  <2>2. Contract!End
    BY <1>1, <1>2, <1>4, <2>1 DEF Contract!End, Phase, Mapped, Dirty
  <2> QED BY <2>2 DEF ContractStep, Contract!Next
<1> QED BY <1>3, <1>4

\* Steps that do not reach the card.
LEMMA ContractKeep ==
  ASSUME UNCHANGED <<dmaCtl, desc, idx, linked, has, started>>, Phase' = Phase PROVE ContractStep
BY AsStutter DEF Mapped, Engines, Dirty

\* A DMA write changes no word that the host owns, and on a lost card nothing.
LEMMA DirtyKeep ==
  ASSUME IdxOK, NEW v, WriteDma(v)
  PROVE  (Dirty' <=> Dirty) /\ Engines' = (IF linked THEN EnginesOf(v) ELSE {})
<1>1. /\ UNCHANGED <<linked, desc>> /\ (linked => dmaCtl' = v)
      /\ \A x \in RingIds : idx'[x].bell = idx[x].bell /\ idx'[x].write = idx[x].write
  BY DmaWritten
<1>2. Dirty' <=> Dirty
  BY <1>1 DEF Dirty
<1> QED BY <1>1, <1>2 DEF Engines

\* The engines that the words of the tool let run.
LEMMA WordEngines ==
  /\ EnginesOf(COLD_RESET) = {} /\ EnginesOf(RESET_GLOBAL) = {} /\ EnginesOf(GLOBAL_ONLY) = {}
  /\ \A d \in DSPS : /\ EnginesOf(EnableUpTo(d)) = 0 .. d
                     /\ EnginesOf(EnableUpTo(d - 1)) = 0 .. d - 1
<1>1. EnginesOf(COLD_RESET) = {} /\ EnginesOf(RESET_GLOBAL) = {} /\ EnginesOf(GLOBAL_ONLY) = {}
  BY CardEngines
<1>2. ASSUME NEW d \in DSPS
      PROVE  EnginesOf(EnableUpTo(d)) = 0 .. d /\ EnginesOf(EnableUpTo(d - 1)) = 0 .. d - 1
  BY <1>2, CardEngines
<1> QED BY <1>1, <1>2

\* A function reset that takes effect clears the card.
LEMMA ClearedCard ==
  ASSUME KernelCloses
  PROVE  UNCHANGED cardVars \/ (Engines' = {} /\ ~ Dirty')
<1>1. CASE UNCHANGED cardVars
  BY <1>1
<1>2. CASE linked' = linked /\ (linked => dmaCtl' = COLD_RESET /\ Blank' /\ Zeroed')
  <2>1. Engines' = {}
    BY <1>2, WordEngines DEF Engines
  <2>2. ~ Dirty'
    BY <1>2 DEF Dirty, Blank, Zeroed
  <2> QED BY <2>1, <2>2
<1> QED BY <1>1, <1>2, CloseCard

\* Every step of the tool is a step of Experiment.
LEMMA ContractNext ==
  ASSUME QueryTypeOK, HeldInv, WordInv, HostWordInv, [Next]_vars PROVE ContractStep
<1>t. IdxOK /\ dsp \in DSPS /\ DSPS \subseteq Int /\ (pc \in WorkPCs \cup RestorePCs => started)
  BY CardAssumption DEF QueryTypeOK, DSPS, HeldInv
<1>e. \A w : EnginesOf(w) \subseteq DSPS
  BY DEF EnginesOf
<1> USE DEF loopVars, flagVars, sessionVars, exchangeVars, toolVars, cardVars, Goto
<1>1. ASSUME Begin PROVE ContractStep
  <2>1. Phase # "running" /\ Phase' \in {"running", "rest"} /\ ~ started' /\ UNCHANGED <<cardVars, has>>
    BY <1>1 DEF Begin, Launch, Stopped, Phase
  <2> QED BY <2>1, AsBegin
<1>2. ASSUME Acquire("setup", SetupOrder, "baseline") PROVE ContractStep
  <2>1. /\ Phase = "running" /\ Phase' = "running" /\ ~ started /\ started' = started
        /\ UNCHANGED cardVars /\ has \subseteq has'
    BY <1>t, <1>2 DEF Acquire, Phase, HeldInv, BeforePCs
  <2>2. CASE ~ Mapped /\ Mapped'
    BY <2>1, <2>2, AsMap
  <2>3. CASE Mapped' <=> Mapped
    BY <2>1, <2>3, AsStutter DEF Engines, Dirty
  <2> QED BY <2>1, <2>2, <2>3 DEF Mapped
<1>3. ASSUME AcquireFails("setup", SetupOrder) PROVE ContractStep
  <2>1. Phase' = Phase /\ started' = started /\ UNCHANGED cardVars
    BY <1>3 DEF AcquireFails, Phase
  <2>2. Mapped' <=> Mapped
    BY <1>3 DEF AcquireFails, HalfAcquired, Mapped
  <2> QED BY <2>1, <2>2, AsStutter DEF Engines, Dirty
<1>4. ASSUME Baseline \/ ReadIndexes \/ RingDone \/ CleanupEnter PROVE ContractStep
  <2>1. UNCHANGED <<dmaCtl, desc, idx, linked, has, started>> /\ Phase' = Phase
    BY <1>4 DEF Baseline, ReadIndexes, Check, RingDone, CleanupEnter, Phase
  <2> QED BY <2>1, ContractKeep
<1>5. ASSUME Poll \/ ReadBack \/ Judge \/ Report PROVE ContractStep
  <2>1. UNCHANGED <<dmaCtl, desc, idx, linked, has, started>> /\ Phase' = Phase
    BY <1>5 DEF Poll, PollAnswer, ReadBack, CopyWord, ReadCommand, ReadResponse, Judge, JudgeAs,
       Report, ReportThen, Phase
  <2> QED BY <2>1, ContractKeep
<1>6. ASSUME ConnectPoll \/ CleanupRestored \/ VfioRecovered("report") \/ Signal PROVE ContractStep
  <2>1. UNCHANGED <<dmaCtl, desc, idx, linked, has, started>> /\ Phase' = Phase
    BY <1>6 DEF ConnectPoll, CleanupRestored, VfioRecovered, Signal, Phase
  <2> QED BY <2>1, ContractKeep
<1>7. ASSUME Quiesce PROVE ContractStep
  <2>1. /\ Phase = "running" /\ Phase' = "running" /\ started' /\ (Mapped' <=> Mapped)
        /\ UNCHANGED <<dmaCtl, linked>> /\ pc = "startup"
    BY <1>7 DEF Quiesce, DisableInterrupts, Phase, Mapped
  <2>2. Engines = {} /\ Engines' = {}
    BY <2>1, WordEngines DEF WordInv, Engines
  <2>3. ~ Dirty
    BY <2>1 DEF HostWordInv, Dirty, Blank, Zeroed
  <2> QED BY <2>1, <2>2, <2>3, AsFirst
<1>8. ASSUME ResetGlobal PROVE ContractStep
  <2>1. Phase = "running" /\ Phase' = "running" /\ started /\ started' /\ (Mapped' <=> Mapped)
    BY <1>t, <1>8 DEF ResetGlobal, Phase, Mapped, WorkPCs, RestorePCs, InitLoop
  <2>2. (Dirty' <=> Dirty) /\ Engines' = (IF linked THEN EnginesOf(RESET_GLOBAL) ELSE {})
    BY <1>t, <1>8, DirtyKeep DEF ResetGlobal
  <2>3. linked => dmaCtl = COLD_RESET
    BY <1>8 DEF ResetGlobal, WordInv
  <2>4. Engines' = Engines
    BY <2>2, <2>3, WordEngines DEF Engines
  <2> QED BY <2>1, <2>2, <2>4, AsMove
<1>9. ASSUME GlobalOnly PROVE ContractStep
  <2>1. Phase = "running" /\ Phase' = "running" /\ started /\ started' /\ (Mapped' <=> Mapped)
    BY <1>t, <1>9 DEF GlobalOnly, Phase, Mapped, WorkPCs, RestorePCs, InitLoop
  <2>2. (Dirty' <=> Dirty) /\ Engines' = (IF linked THEN EnginesOf(GLOBAL_ONLY) ELSE {})
    BY <1>t, <1>9, DirtyKeep DEF GlobalOnly
  <2>3. linked => dmaCtl = RESET_GLOBAL
    BY <1>9 DEF GlobalOnly, WordInv
  <2>4. Engines' = Engines
    BY <2>2, <2>3, WordEngines DEF Engines
  <2> QED BY <2>1, <2>2, <2>4, AsMove
<1>10. ASSUME Enable(IF connect THEN "connect" ELSE "postResponse") PROVE ContractStep
  <2>1. Phase = "running" /\ Phase' = "running" /\ started /\ started' /\ (Mapped' <=> Mapped)
    BY <1>t, <1>10 DEF Enable, Phase, Mapped, WorkPCs, RestorePCs, InitLoop
  <2>2. (Dirty' <=> Dirty) /\ Engines' = (IF linked THEN EnginesOf(EnableUpTo(dsp)) ELSE {})
    BY <1>t, <1>10, DirtyKeep DEF Enable
  <2>3. linked => dmaCtl = EnableUpTo(dsp - 1)
    BY <1>10 DEF Enable, WordInv, InitLoop
  <2>4. Engines \subseteq Engines'
    <3>1. Engines = (IF linked THEN 0 .. dsp - 1 ELSE {}) /\ Engines' = (IF linked THEN 0 .. dsp ELSE {})
      BY <1>t, <2>2, <2>3, WordEngines DEF Engines
    <3>2. dsp \in Int
      BY <1>t
    <3> QED BY <3>1, <3>2
  <2>5. Mapped
    BY <1>10 DEF Enable, HeldInv, WorkPCs, InitLoop, Held, Mapped
  <2> QED BY <2>1, <2>2, <2>4, <2>5, AsMove
<1>11. ASSUME CleanupReset PROVE ContractStep
  <2>1. Phase = "running" /\ Phase' = "running" /\ started /\ started' /\ (Mapped' <=> Mapped)
    BY <1>t, <1>11 DEF CleanupReset, Phase, Mapped, WorkPCs, RestorePCs, InitLoop
  <2>2. (Dirty' <=> Dirty) /\ Engines' = (IF linked THEN EnginesOf(RESET_GLOBAL) ELSE {})
    BY <1>t, <1>11, DirtyKeep DEF CleanupReset
  <2>3. Engines' \subseteq Engines
    BY <2>2, WordEngines
  <2> QED BY <2>1, <2>2, <2>3, AsMove
<1>12. ASSUME CleanupGlobal PROVE ContractStep
  <2>1. Phase = "running" /\ Phase' = "running" /\ started /\ started' /\ (Mapped' <=> Mapped)
    BY <1>t, <1>12 DEF CleanupGlobal, Phase, Mapped, WorkPCs, RestorePCs, InitLoop
  <2>2. (Dirty' <=> Dirty) /\ Engines' = (IF linked THEN EnginesOf(GLOBAL_ONLY) ELSE {})
    BY <1>t, <1>12, DirtyKeep DEF CleanupGlobal
  <2>3. Engines' \subseteq Engines
    BY <2>2, WordEngines
  <2> QED BY <2>1, <2>2, <2>3, AsMove
<1>13. ASSUME CleanupCold PROVE ContractStep
  <2>1. Phase = "running" /\ Phase' = "running" /\ started /\ started' /\ (Mapped' <=> Mapped)
    BY <1>t, <1>13 DEF CleanupCold, Phase, Mapped, WorkPCs, RestorePCs, InitLoop
  <2>2. (Dirty' <=> Dirty) /\ Engines' = (IF linked THEN EnginesOf(COLD_RESET) ELSE {})
    BY <1>t, <1>13, DirtyKeep DEF CleanupCold
  <2>3. Engines' \subseteq Engines
    BY <2>2, WordEngines
  <2> QED BY <2>1, <2>2, <2>3, AsMove
<1>14. ASSUME RingIndex(indexes[<<dsp, ring>>]) \/ RingDesc \/ CleanupInt \/ CleanupClear
       PROVE  ContractStep
  <2>1. Phase = "running" /\ Phase' = "running" /\ started /\ started' /\ (Mapped' <=> Mapped)
    BY <1>t, <1>14 DEF RingIndex, RingDesc, CleanupInt, CleanupClear, Phase, Mapped, WorkPCs,
       RestorePCs, InitLoop
  <2>2. UNCHANGED <<dmaCtl, linked>>
    <3>1. CASE RingIndex(indexes[<<dsp, ring>>])
      BY <3>1 DEF RingIndex, WriteIndexes
    <3>2. CASE RingDesc
      BY <3>2 DEF RingDesc, WriteDesc
    <3>3. CASE CleanupInt
      BY <3>3 DEF CleanupInt, DisableInterrupts
    <3>4. CASE CleanupClear
      BY <3>4 DEF CleanupClear, ClearRing
    <3> QED BY <1>14, <3>1, <3>2, <3>3, <3>4
  <2>3. Engines' = Engines
    BY <2>2 DEF Engines
  <2> QED BY <2>1, <2>3, AsMove
<1>15. ASSUME Connect \/ Clock \/ Submit PROVE ContractStep
  <2>1. Phase = "running" /\ Phase' = "running" /\ started /\ started' /\ (Mapped' <=> Mapped)
    BY <1>t, <1>15 DEF Connect, Clock, Submit, Post, Phase, Mapped, WorkPCs, ConnectPCs
  <2>2. Engines' = Engines
    BY <1>15 DEF Connect, Clock, Submit, Post, Doorbell, Engines
  <2> QED BY <2>1, <2>2, AsMove
<1>16. ASSUME VfioReset("report") PROVE ContractStep
  <2>1. Phase' = Phase /\ started' = started /\ (Mapped' <=> Mapped)
    BY <1>16 DEF VfioReset, Phase, Mapped
  <2>2. UNCHANGED cardVars \/ KernelCloses
    BY <1>16 DEF VfioReset
  <2>3. CASE UNCHANGED cardVars
    BY <2>1, <2>3, AsStutter DEF Engines, Dirty
  <2>4. CASE Engines' = {} /\ ~ Dirty'
    BY <2>1, <2>4, AsClear
  <2> QED BY <2>2, <2>3, <2>4, ClearedCard
<1>17. ASSUME Release("release", ReleaseOrder, "exit") PROVE ContractStep
  <2>1. Phase = "running" /\ started' = started /\ pc = "release" /\ n \in 1 .. 7
    BY <1>17 DEF Release, Phase, HeldInv
  <2>2. UNCHANGED cardVars \/ (Engines' = {} /\ ~ Dirty')
    BY <1>17, ClearedCard DEF Release
  <2>3. started => Engines = {} /\ ~ Dirty
    <3>1. started /\ linked => dmaCtl = COLD_RESET /\ Blank /\ Zeroed
      BY <2>1 DEF WordInv, HostWordInv, OverPCs
    <3>2. started => Engines = {}
      BY <3>1, WordEngines DEF Engines
    <3>3. started => ~ Dirty
      BY <3>1 DEF Dirty, Blank, Zeroed
    <3> QED BY <3>2, <3>3
  <2>4. CASE n = 7
    <3>1. Phase' = "rest" /\ ~ Mapped'
      BY <1>17, <2>4, Orders DEF Release, Phase, Mapped
    <3> QED BY <2>1, <2>2, <2>3, <3>1, AsGone
  <2>5. CASE n = 3
    <3>1. Phase' = "running" /\ UNCHANGED cardVars
      BY <1>17, <2>1, <2>5, Orders DEF Release, Phase
    <3>2. CASE ~ Mapped'
      BY <2>1, <2>3, <3>1, <3>2, AsUnmap
    <3>3. CASE Mapped'
      <4>1. Mapped' <=> Mapped
        BY <1>17, <3>3 DEF Release, Mapped
      <4> QED BY <2>1, <3>1, <4>1, AsStutter DEF Engines, Dirty
    <3> QED BY <3>2, <3>3
  <2>6. CASE n \notin {3, 7}
    <3>1. Phase' = "running"
      BY <1>17, <2>1, <2>6, Orders DEF Release, Phase
    <3>2. Mapped' <=> Mapped
      BY <1>17, <2>1, <2>6, Orders DEF Release, Mapped
    <3>3. CASE UNCHANGED cardVars
      BY <2>1, <3>1, <3>2, <3>3, AsStutter DEF Engines, Dirty
    <3>4. CASE Engines' = {} /\ ~ Dirty'
      BY <2>1, <3>1, <3>2, <3>4, AsClear
    <3> QED BY <2>2, <3>3, <3>4
  <2> QED BY <2>4, <2>5, <2>6
<1>18. ASSUME Kill PROVE ContractStep
  <2>1. Phase = "running" /\ Phase' = "killed" /\ started' = started /\ ~ Mapped'
    BY <1>18 DEF Kill, Stopped, Phase, Mapped
  <2>2. UNCHANGED cardVars \/ (Engines' = {} /\ ~ Dirty')
    BY <1>18, ClearedCard DEF Kill
  <2> QED BY <2>1, <2>2, AsGone
<1>19. ASSUME CardWork(CommandPosition) PROVE ContractStep
  <2>1. /\ Phase' = Phase /\ started' = started /\ (Mapped' <=> Mapped) /\ (linked' => linked)
        /\ UNCHANGED <<dmaCtl, desc>>
        /\ \A y \in RingIds : idx'[y].bell = idx[y].bell /\ idx'[y].write = idx[y].write
    BY <1>t, <1>19, CardKeeps DEF Phase, Mapped
  <2>2. CASE ~ linked'
    <3>1. Engines' = {} /\ ~ Dirty'
      BY <2>2 DEF Engines, Dirty
    <3> QED BY <2>1, <3>1, AsClear
  <2>3. CASE linked'
    <3>1. Engines' = Engines /\ (Dirty' <=> Dirty)
      BY <2>1, <2>3 DEF Engines, Dirty
    <3> QED BY <2>1, <3>1, AsStutter
  <2> QED BY <2>2, <2>3
<1>20. ASSUME UNCHANGED vars PROVE ContractStep
  <2>1. UNCHANGED <<dmaCtl, desc, idx, linked, has, started>> /\ Phase' = Phase
    BY <1>20 DEF vars, Phase
  <2> QED BY <2>1, ContractKeep
<1> QED
  BY <1>1, <1>2, <1>3, <1>4, <1>5, <1>6, <1>7, <1>8, <1>9, <1>10, <1>11, <1>12, <1>13,
     <1>14, <1>15, <1>16, <1>17, <1>18, <1>19, <1>20
     DEF Next, Main, Environment, Setup, Startup, ConnectAll, Cleanup, DeviceReset, ReleaseAll,
         Disturb

\* The query tool implements the abstract experiment: it writes first to a card
\* that it found clear, lets engines run over mapped pages only, and whatever
\* the card is doing when it gives up, unmaps and exits over a clear card.
THEOREM QueryRefines == Spec => ImplementsExperiment
<1>1. ASSUME Init PROVE Contract!Init /\ HeldInv /\ WordInv /\ HostWordInv
  <2>1. pc = "idle" /\ ~ started /\ has = {} /\ n = 1 /\ dmaCtl.enable = {} /\ Blank /\ Zeroed
    BY <1>1 DEF Init, SessionInit, CardInit, COLD_RESET, GLOBAL_ONLY, Blank, Zeroed
  <2>2. {d \in DSPS : EngineLive(d)} = {}
    BY <2>1 DEF EngineLive
  <2>3. HeldInv /\ WordInv /\ HostWordInv
    BY <2>1 DEF HeldInv, WordInv, HostWordInv, BeforePCs, WorkPCs, RestorePCs, OverPCs, InitLoop,
       ConnectPCs, InFlight
  <2> QED BY <2>1, <2>2, <2>3 DEF Contract!Init, Blank, Zeroed
<1>2. QueryInv /\ HeldInv /\ WordInv /\ HostWordInv /\ [Next]_vars =>
        HeldInv' /\ WordInv' /\ HostWordInv'
  BY HeldStep, WordStep, HostWordStep DEF QueryInv, QueryTypeOK
<1>3. QueryInv /\ HeldInv /\ WordInv /\ HostWordInv /\ [Next]_vars =>
        [Contract!Next]_(Contract!vars)
  BY ContractNext DEF QueryInv, ContractStep
<1> QED BY <1>1, <1>2, <1>3, QueryInductive, PTL DEF Spec, ImplementsExperiment, Contract!Spec

=============================================================================
