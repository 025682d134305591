---------------------------- MODULE LoaderProofs ----------------------------
(***************************************************************************)
(* TLAPS proofs about the two tools that offer a block to the loader of    *)
(* the card: RuntimeLoad, for any number of DSPs, ring pages, ring         *)
(* entries, polls, response words and runs and any size of file and page,  *)
(* and LoaderRejection, which is instantiated as Probe.                    *)
(***************************************************************************)
EXTENDS RuntimeLoad, UadCardProofs, WellFoundedInduction

----------------------------------------------------------------------------
(* The inductive invariant of the load tool.                               *)

\* From the baseline test to the last enable shadow.
EarlyPCs == {"startup", "resetGlobal", "globalOnly", "ringIndex", "ringDesc",
             "enable"}
ConnectPCs == {"connect", "clock", "connectPoll"}
FinalPCs == {"finalCommand", "finalResponse"}
\* After the poll, until the verdict.
EndedPCs == FinalPCs \cup {"copy", "readCommand", "readResponse", "judge"}
\* After the verdict.
LatePCs == {"cleanup", "cInt", "cReset", "cGlobal", "cClear", "cCold",
            "cRestored", "cVfioReset", "cRecovered", "unmap", "report",
            "release", "exit", "killed"}
\* The chain is on offer.
OfferPCs == InFlight \cup FinalPCs
\* The chain is built.
ChainPCs == {"setup", "baseline"} \cup EarlyPCs \cup ConnectPCs
              \cup {"postResponse", "postCommand"} \cup OfferPCs
LoadPCs == {"idle", "file", "capacity", "memory", "read", "chain"} \cup ChainPCs
             \cup LatePCs

Bell(x) == idx[x].bell
Read(x) == idx[x].read
Answers == {"canary", "expected", "other"}

LoadTypeOK ==
  /\ pc \in LoadPCs
  /\ IdxOK
  /\ dsp \in DSPS /\ ring \in RINGS /\ toClear \in SUBSET RingIds
  /\ poll \in Nat
  /\ fileWords \in 1 .. MaxFileWords /\ done \in 0 .. fileWords
  /\ final \in (0 .. Entries) \X (0 .. Entries)

\* n counts the stages of the one sequence that the process is in.
StageInv ==
  /\ n \in Nat \ {0}
  /\ pc = "setup" => n \in 1 .. 6
  /\ pc = "unmap" => n \in 1 .. 3
  /\ pc = "release" => n \in 1 .. 5
  /\ pc = "copy" => n \in Words
  /\ pc \notin {"setup", "unmap", "release", "copy", "killed"} => n = 1
  /\ pc \in {"release", "exit"} => reported = success

\* Words of descriptor i of the chain.
Part(i) == LET remaining == fileWords - (i - 1) * PageWords
           IN  IF remaining > PageWords THEN PageWords ELSE remaining

\* What has been checked before the chain is shown to the card.
ChainInv ==
  /\ pc \in {"memory", "read", "chain"} \cup ChainPCs => PayloadPageCount + 3 < Entries
  /\ pc \in {"chain"} \cup ChainPCs => exact /\ done = fileWords
  /\ pc \in ChainPCs => chain = [i \in 1 .. PayloadPageCount |-> Part(i)]

\* The index words of the rings of DSP 0 on an answering card, from the
\* baseline test to the verdict.
BellInv ==
  linked =>
    /\ pc \in EarlyPCs \cup ConnectPCs \cup {"postResponse"} =>
         Bell(Resp0) = 0 /\ Read(Resp0) = 0
    /\ pc = "connectPoll" => Bell(Cmd0) = 2
    /\ pc \in {"postResponse", "postCommand"} => Bell(Cmd0) = 2 /\ Read(Cmd0) = 2
    /\ pc \in {"postCommand"} \cup OfferPCs => Bell(Resp0) = 1 /\ Read(Resp0) \in {0, 1}
    /\ pc \in OfferPCs => /\ Bell(Cmd0) = CommandPosition
                          /\ Read(Cmd0) \in 2 .. CommandPosition

\* The poll itself ended the wait, and not for want of progress.
Seen == poll < Polls /\ ~ interrupted /\ progress

\* What the printed indexes are, when the poll has seen the answer.
FinalInv ==
  /\ pc \in EndedPCs /\ Seen /\ linked =>
       /\ Read(Cmd0) = CommandPosition /\ Read(Resp0) = ResponsePosition
       /\ pc # "finalCommand" => final[1] = CommandPosition
       /\ pc \notin FinalPCs => final[2] = ResponsePosition
  /\ pc \in {"readResponse", "judge"} /\ Seen /\ cmdDone =>
       final = <<CommandPosition, ResponsePosition>>
  /\ success =>
       /\ pc \in LatePCs
       /\ progress /\ poll < Polls => final = <<CommandPosition, ResponsePosition>>

\* From the first printed index to the verdict.
PrintPCs == {"finalResponse", "copy", "readCommand", "readResponse", "judge"}

\* An index printed at the position of the command stays there, and the verdict
\* reads it there, on a card that goes on answering.
PrintInv ==
  linked =>
    /\ final[1] = CommandPosition =>
         \/ pc \in {"finalResponse", "copy", "readCommand"} /\ Read(Cmd0) = CommandPosition
         \/ pc \in {"readResponse", "judge"} \cup LatePCs /\ cmdDone
         \/ pc = "killed"
    /\ final[2] = ResponsePosition =>
         \/ pc \in {"copy", "readCommand", "readResponse"} /\ Read(Resp0) = ResponsePosition
         \/ pc \in {"judge"} \cup LatePCs /\ respDone
         \/ pc = "killed"

LoadInv == LoadTypeOK /\ StageInv /\ ChainInv /\ BellInv /\ FinalInv /\ PrintInv

----------------------------------------------------------------------------
(* Facts about the operators.                                              *)

LEMMA Zeros == Cmd0 \in RingIds /\ Resp0 \in RingIds /\ 0 \in DSPS
               /\ Cmd0 # Resp0 /\ \A d \in DSPS : <<d, 0>> \in RingIds
BY CardAssumption DEF Cmd0, Resp0, RingIds, DSPS, RINGS

\* The pages hold the file, and the last of them is needed.
LEMMA Pages ==
  ASSUME fileWords \in 1 .. MaxFileWords
  PROVE  /\ PayloadPageCount \in Nat \ {0}
         /\ (PayloadPageCount - 1) * PageWords < fileWords
         /\ fileWords <= PayloadPageCount * PageWords
<1> DEFINE a == fileWords + PageWords - 1
           q == a \div PageWords
<1>1. /\ fileWords \in Nat \ {0} /\ PageWords \in Nat \ {0}
      /\ a \in Nat /\ a >= PageWords
  BY LoadAssumption
<1>2. q \in Int /\ q * PageWords <= a /\ a < q * PageWords + PageWords
  BY <1>1
<1> HIDE DEF q
<1>3. q # 0 /\ q >= 0
  BY <1>1, <1>2
<1>4. (q - 1) * PageWords = q * PageWords - PageWords
  BY <1>1, <1>2
<1> QED BY <1>1, <1>2, <1>3, <1>4 DEF PayloadPageCount, q

\* After the capacity test every position fits in the ring.
LEMMA Room ==
  ASSUME LoadTypeOK, ChainInv,
         pc \in {"memory", "read", "chain"} \cup ChainPCs
  PROVE  /\ CommandPosition \in 4 .. Entries - 1 /\ ResponsePosition = 1
         /\ 1 \in 0 .. Entries /\ 2 \in 0 .. Entries
         /\ CommandPosition \in 0 .. Entries /\ ResponsePosition \in 0 .. Entries
<1>1. PayloadPageCount \in Nat \ {0} /\ PayloadPageCount + 3 < Entries /\ Entries \in Nat
  BY Pages, CardAssumption DEF LoadTypeOK, ChainInv
<1> QED BY <1>1 DEF CommandPosition, ResponsePosition

\* What a doorbell, the clearing of a ring, the card and the kernel do to the
\* index words.
LEMMA Rung ==
  ASSUME IdxOK, NEW x \in RingIds, NEW v \in 0 .. Entries, Doorbell(x, v)
  PROVE  IdxOK' /\ linked' = linked /\ Placed(x, v)
BY PlacedBy DEF Doorbell

LEMMA Cleared == ASSUME IdxOK, NEW x \in RingIds, ClearRing(x) PROVE IdxOK'
<1>1. 0 \in 0 .. Entries
  BY CardAssumption
<1> QED BY <1>1, PlacedBy DEF ClearRing

LEMMA Advanced ==
  ASSUME IdxOK, NEW x \in RingIds, Advance(x)
  PROVE  /\ IdxOK'
         /\ idx'[x].bell = idx[x].bell
         /\ idx'[x].read = (idx[x].read + 1) % Entries
         /\ \A y \in RingIds \ {x} : idx'[y] = idx[y]
BY MovedBy DEF Advance

LEMMA Closed == ASSUME IdxOK, KernelCloses PROVE IdxOK'
<1>1. [bell |-> 0, write |-> 0, read |-> 0] \in IdxWord
  BY CardAssumption DEF IdxWord
<1>2. \/ idx' = idx
      \/ idx' = [x \in RingIds |-> [bell |-> 0, write |-> 0, read |-> 0]]
  BY DEF KernelCloses, FunctionReset, cardVars
<1> QED BY <1>1, <1>2 DEF IdxOK

----------------------------------------------------------------------------
(* The load tool, step by step.                                            *)

\* Every operation keeps the types.
LEMMA TypeStep ==
  ASSUME LoadTypeOK, ChainInv, [Next]_vars PROVE LoadTypeOK'
<1> USE CardAssumption, LoadAssumption, Zeros DEF LoadTypeOK, loopVars, flagVars, sessionVars,
        exchangeVars, toolVars, Goto
<1>1. ASSUME Begin PROVE LoadTypeOK'
  <2>1. pc' \in LoadPCs
    BY <1>1 DEF Begin, Launch, ExchangeReset, LoadPCs, ChainPCs, OfferPCs, EarlyPCs, ConnectPCs, FinalPCs, InFlight, LatePCs
  <2> QED BY <1>1, <2>1 DEF Begin, Launch, ExchangeReset, cardVars, IdxOK, RINGS
<1>2. ASSUME Acquire("file", <<"file">>, "capacity"), UNCHANGED <<exchangeVars, toolVars>>
      PROVE  LoadTypeOK'
  <2>1. pc' \in LoadPCs
    BY <1>2 DEF Acquire, LoadPCs, ChainPCs, OfferPCs, EarlyPCs, ConnectPCs, FinalPCs, InFlight, LatePCs
  <2> QED BY <1>2, <2>1 DEF Acquire, cardVars, IdxOK
<1>3. ASSUME AcquireFails("file", <<"file">>), UNCHANGED <<exchangeVars, toolVars>>
      PROVE  LoadTypeOK'
  <2>1. pc' \in LoadPCs
    BY <1>3 DEF AcquireFails, LoadPCs, ChainPCs, OfferPCs, EarlyPCs, ConnectPCs, FinalPCs, InFlight, LatePCs
  <2> QED BY <1>3, <2>1 DEF AcquireFails, cardVars, IdxOK
<1>4. ASSUME Capacity PROVE LoadTypeOK'
  <2>1. pc' \in LoadPCs
    BY <1>4 DEF Capacity, Check, LoadPCs, ChainPCs, OfferPCs, EarlyPCs, ConnectPCs, FinalPCs, InFlight, LatePCs
  <2> QED BY <1>4, <2>1 DEF Capacity, Check, cardVars, IdxOK
<1>5. ASSUME Acquire("memory", <<"memory">>, "read"), UNCHANGED <<exchangeVars, toolVars>>
      PROVE  LoadTypeOK'
  <2>1. pc' \in LoadPCs
    BY <1>5 DEF Acquire, LoadPCs, ChainPCs, OfferPCs, EarlyPCs, ConnectPCs, FinalPCs, InFlight, LatePCs
  <2> QED BY <1>5, <2>1 DEF Acquire, cardVars, IdxOK
<1>6. ASSUME AcquireFails("memory", <<"memory">>), UNCHANGED <<exchangeVars, toolVars>>
      PROVE  LoadTypeOK'
  <2>1. pc' \in LoadPCs
    BY <1>6 DEF AcquireFails, LoadPCs, ChainPCs, OfferPCs, EarlyPCs, ConnectPCs, FinalPCs, InFlight, LatePCs
  <2> QED BY <1>6, <2>1 DEF AcquireFails, cardVars, IdxOK
<1>7. ASSUME ReadFirmware PROVE LoadTypeOK'
  <2>1. pc' \in LoadPCs
    BY <1>7 DEF ReadFirmware, LoadPCs, ChainPCs, OfferPCs, EarlyPCs, ConnectPCs, FinalPCs, InFlight, LatePCs
  <2> QED BY <1>7, <2>1 DEF ReadFirmware, cardVars, IdxOK
<1>8. ASSUME CheckFirmware PROVE LoadTypeOK'
  <2>1. pc' \in LoadPCs
    BY <1>8 DEF CheckFirmware, LoadPCs, ChainPCs, OfferPCs, EarlyPCs, ConnectPCs, FinalPCs, InFlight, LatePCs
  <2> QED BY <1>8, <2>1 DEF CheckFirmware, cardVars, IdxOK
<1>9. ASSUME BuildChain PROVE LoadTypeOK'
  <2>1. pc' \in LoadPCs
    BY <1>9 DEF BuildChain, LoadPCs, ChainPCs, OfferPCs, EarlyPCs, ConnectPCs, FinalPCs, InFlight, LatePCs
  <2> QED BY <1>9, <2>1 DEF BuildChain, cardVars, IdxOK
<1>10. ASSUME Acquire("setup", Host, "baseline"), UNCHANGED <<exchangeVars, toolVars>>
       PROVE  LoadTypeOK'
  <2>1. pc' \in LoadPCs
    BY <1>10 DEF Acquire, LoadPCs, ChainPCs, OfferPCs, EarlyPCs, ConnectPCs, FinalPCs, InFlight, LatePCs
  <2> QED BY <1>10, <2>1 DEF Acquire, cardVars, IdxOK
<1>11. ASSUME AcquireFails("setup", Host), UNCHANGED <<exchangeVars, toolVars>>
       PROVE  LoadTypeOK'
  <2>1. pc' \in LoadPCs
    BY <1>11 DEF AcquireFails, LoadPCs, ChainPCs, OfferPCs, EarlyPCs, ConnectPCs, FinalPCs, InFlight, LatePCs
  <2> QED BY <1>11, <2>1 DEF AcquireFails, cardVars, IdxOK
<1>12. ASSUME Baseline PROVE LoadTypeOK'
  <2>1. pc' \in LoadPCs
    BY <1>12 DEF Baseline, Check, Refuse, LoadPCs, ChainPCs, OfferPCs, EarlyPCs, ConnectPCs, FinalPCs, InFlight, LatePCs
  <2> QED BY <1>12, <2>1 DEF Baseline, Check, Refuse, cardVars, IdxOK
<1>13. ASSUME Quiesce, UNCHANGED <<exchangeVars, toolVars>> PROVE LoadTypeOK'
  <2>1. pc' \in LoadPCs
    BY <1>13 DEF Quiesce, DisableInterrupts, LoadPCs, ChainPCs, OfferPCs, EarlyPCs, ConnectPCs, FinalPCs, InFlight, LatePCs
  <2> QED BY <1>13, <2>1 DEF Quiesce, DisableInterrupts, cardVars, IdxOK
<1>14. ASSUME ResetGlobal, UNCHANGED <<exchangeVars, toolVars>>
       PROVE  LoadTypeOK'
  <2>1. pc' \in LoadPCs
    BY <1>14 DEF ResetGlobal, LoadPCs, ChainPCs, OfferPCs, EarlyPCs, ConnectPCs, FinalPCs, InFlight, LatePCs
  <2>2. IdxOK'
    BY <1>14, DmaWrite DEF ResetGlobal
  <2> QED BY <1>14, <2>1, <2>2 DEF ResetGlobal, RINGS
<1>15. ASSUME GlobalOnly, UNCHANGED <<exchangeVars, toolVars>>
       PROVE  LoadTypeOK'
  <2>1. pc' \in LoadPCs
    BY <1>15 DEF GlobalOnly, LoadPCs, ChainPCs, OfferPCs, EarlyPCs, ConnectPCs, FinalPCs, InFlight, LatePCs
  <2>2. IdxOK'
    BY <1>15, DmaWrite DEF GlobalOnly
  <2> QED BY <1>15, <2>1, <2>2 DEF GlobalOnly, RINGS
<1>16. ASSUME RingIndex(0), UNCHANGED <<exchangeVars, toolVars>>
       PROVE  LoadTypeOK'
  <2>1. pc' \in LoadPCs
    BY <1>16 DEF RingIndex, LoadPCs, ChainPCs, OfferPCs, EarlyPCs, ConnectPCs, FinalPCs, InFlight, LatePCs
  <2>2. <<dsp, ring>> \in RingIds /\ 0 \in 0 .. Entries
    BY DEF RingIds
  <2>3. IdxOK'
    BY <1>16, <2>2, IndexWrite DEF RingIndex
  <2> QED BY <1>16, <2>1, <2>3 DEF RingIndex
<1>17. ASSUME RingDesc, UNCHANGED <<exchangeVars, toolVars>> PROVE LoadTypeOK'
  <2>1. pc' \in LoadPCs
    BY <1>17 DEF RingDesc, WriteDesc, LoadPCs, ChainPCs, OfferPCs, EarlyPCs, ConnectPCs, FinalPCs, InFlight, LatePCs
  <2> QED BY <1>17, <2>1 DEF RingDesc, WriteDesc, cardVars, IdxOK
<1>18. ASSUME RingDone, UNCHANGED <<exchangeVars, toolVars>> PROVE LoadTypeOK'
  <2>1. pc' \in LoadPCs
    BY <1>18 DEF RingDone, LoadPCs, ChainPCs, OfferPCs, EarlyPCs, ConnectPCs, FinalPCs, InFlight, LatePCs
  <2>2. ring' \in RINGS
    BY <1>18 DEF RingDone, RINGS
  <2> QED BY <1>18, <2>1, <2>2 DEF RingDone, cardVars, IdxOK
<1>19. ASSUME Enable("connect"), UNCHANGED <<exchangeVars, toolVars>>
       PROVE  LoadTypeOK'
  <2>1. pc' \in LoadPCs
    BY <1>19 DEF Enable, LoadPCs, ChainPCs, OfferPCs, EarlyPCs, ConnectPCs, FinalPCs, InFlight, LatePCs
  <2>2. IdxOK'
    BY <1>19, DmaWrite DEF Enable
  <2>3. dsp' \in DSPS
    BY <1>19 DEF Enable, DSPS
  <2> QED BY <1>19, <2>1, <2>2, <2>3 DEF Enable
<1>20. ASSUME Connect, UNCHANGED toolVars PROVE LoadTypeOK'
  <2>1. pc' \in LoadPCs
    BY <1>20 DEF Connect, LoadPCs, ChainPCs, OfferPCs, EarlyPCs, ConnectPCs, FinalPCs, InFlight, LatePCs
  <2>2. 1 \in 0 .. Entries /\ 2 \in 0 .. Entries /\ CommandPosition \in 0 .. Entries
        /\ ResponsePosition \in 0 .. Entries
    BY <1>20, Room DEF Connect, LoadPCs, ChainPCs, OfferPCs, EarlyPCs, ConnectPCs, FinalPCs, InFlight, LatePCs
  <2>3. IdxOK'
    BY <1>20, <2>2, Rung DEF Connect
  <2>4. dsp' \in DSPS
    BY <1>20 DEF Connect, DSPS
  <2> QED BY <1>20, <2>1, <2>3, <2>4 DEF Connect
<1>21. ASSUME Clock, UNCHANGED toolVars PROVE LoadTypeOK'
  <2>1. pc' \in LoadPCs
    BY <1>21 DEF Clock, LoadPCs, ChainPCs, OfferPCs, EarlyPCs, ConnectPCs, FinalPCs, InFlight, LatePCs
  <2>2. 1 \in 0 .. Entries /\ 2 \in 0 .. Entries /\ CommandPosition \in 0 .. Entries
        /\ ResponsePosition \in 0 .. Entries
    BY <1>21, Room DEF Clock, LoadPCs, ChainPCs, OfferPCs, EarlyPCs, ConnectPCs, FinalPCs, InFlight, LatePCs
  <2>3. IdxOK'
    BY <1>21, <2>2, Rung DEF Clock
  <2> QED BY <1>21, <2>1, <2>3 DEF Clock
<1>22. ASSUME ConnectPoll, UNCHANGED toolVars PROVE LoadTypeOK'
  <2>1. pc' \in LoadPCs
    BY <1>22 DEF ConnectPoll, LoadPCs, ChainPCs, OfferPCs, EarlyPCs, ConnectPCs, FinalPCs, InFlight, LatePCs
  <2> QED BY <1>22, <2>1 DEF ConnectPoll, cardVars, IdxOK
<1>23. ASSUME Post("postResponse", Resp0, ResponsePosition, "postCommand"), UNCHANGED toolVars
       PROVE  LoadTypeOK'
  <2>1. pc' \in LoadPCs
    BY <1>23 DEF Post, LoadPCs, ChainPCs, OfferPCs, EarlyPCs, ConnectPCs, FinalPCs, InFlight, LatePCs
  <2>2. 1 \in 0 .. Entries /\ 2 \in 0 .. Entries /\ CommandPosition \in 0 .. Entries
        /\ ResponsePosition \in 0 .. Entries
    BY <1>23, Room DEF Post, LoadPCs, ChainPCs, OfferPCs, EarlyPCs, ConnectPCs, FinalPCs, InFlight, LatePCs
  <2>3. IdxOK'
    BY <1>23, <2>2, Rung DEF Post
  <2> QED BY <1>23, <2>1, <2>3 DEF Post
<1>24. ASSUME Post("postCommand", Cmd0, CommandPosition, "poll"), UNCHANGED toolVars
       PROVE  LoadTypeOK'
  <2>1. pc' \in LoadPCs
    BY <1>24 DEF Post, LoadPCs, ChainPCs, OfferPCs, EarlyPCs, ConnectPCs, FinalPCs, InFlight, LatePCs
  <2>2. 1 \in 0 .. Entries /\ 2 \in 0 .. Entries /\ CommandPosition \in 0 .. Entries
        /\ ResponsePosition \in 0 .. Entries
    BY <1>24, Room DEF Post, LoadPCs, ChainPCs, OfferPCs, EarlyPCs, ConnectPCs, FinalPCs, InFlight, LatePCs
  <2>3. IdxOK'
    BY <1>24, <2>2, Rung DEF Post
  <2> QED BY <1>24, <2>1, <2>3 DEF Post
<1>25. ASSUME Poll PROVE LoadTypeOK'
  <2>1. pc' \in LoadPCs
    BY <1>25 DEF Poll, PollAnswer, LoadPCs, ChainPCs, OfferPCs, EarlyPCs, ConnectPCs, FinalPCs, InFlight, LatePCs
  <2> QED BY <1>25, <2>1 DEF Poll, PollAnswer, cardVars, IdxOK
<1>26. ASSUME FinalReads PROVE LoadTypeOK'
  <2>1. pc' \in LoadPCs
    BY <1>26 DEF FinalReads, LoadPCs, ChainPCs, OfferPCs, EarlyPCs, ConnectPCs, FinalPCs, InFlight, LatePCs
  <2>2. ReadIndex(Cmd0) \in 0 .. Entries /\ ReadIndex(Resp0) \in 0 .. Entries
    BY IdxTyped DEF ReadIndex
  <2>3. final' \in (0 .. Entries) \X (0 .. Entries)
    BY <1>26, <2>2 DEF FinalReads
  <2> QED BY <1>26, <2>1, <2>3 DEF FinalReads, cardVars, IdxOK
<1>27. ASSUME CopyWord("readCommand"), UNCHANGED toolVars PROVE LoadTypeOK'
  <2>1. pc' \in LoadPCs
    BY <1>27 DEF CopyWord, LoadPCs, ChainPCs, OfferPCs, EarlyPCs, ConnectPCs, FinalPCs, InFlight, LatePCs
  <2> QED BY <1>27, <2>1 DEF CopyWord, cardVars, IdxOK
<1>28. ASSUME ReadCommand(CommandPosition), UNCHANGED toolVars
       PROVE  LoadTypeOK'
  <2>1. pc' \in LoadPCs
    BY <1>28 DEF ReadCommand, LoadPCs, ChainPCs, OfferPCs, EarlyPCs, ConnectPCs, FinalPCs, InFlight, LatePCs
  <2> QED BY <1>28, <2>1 DEF ReadCommand, cardVars, IdxOK
<1>29. ASSUME ReadResponse(ResponsePosition), UNCHANGED toolVars
       PROVE  LoadTypeOK'
  <2>1. pc' \in LoadPCs
    BY <1>29 DEF ReadResponse, LoadPCs, ChainPCs, OfferPCs, EarlyPCs, ConnectPCs, FinalPCs, InFlight, LatePCs
  <2> QED BY <1>29, <2>1 DEF ReadResponse, cardVars, IdxOK
<1>30. ASSUME Judge PROVE LoadTypeOK'
  <2>1. pc' \in LoadPCs
    BY <1>30 DEF Judge, JudgeAs, LoadPCs, ChainPCs, OfferPCs, EarlyPCs, ConnectPCs, FinalPCs, InFlight, LatePCs
  <2> QED BY <1>30, <2>1 DEF Judge, JudgeAs, cardVars, IdxOK
<1>31. ASSUME CleanupEnter, UNCHANGED <<exchangeVars, toolVars>>
       PROVE  LoadTypeOK'
  <2>1. pc' \in LoadPCs
    BY <1>31 DEF CleanupEnter, LoadPCs, ChainPCs, OfferPCs, EarlyPCs, ConnectPCs, FinalPCs, InFlight, LatePCs
  <2> QED BY <1>31, <2>1 DEF CleanupEnter, cardVars, IdxOK
<1>32. ASSUME CleanupInt, UNCHANGED <<exchangeVars, toolVars>>
       PROVE  LoadTypeOK'
  <2>1. pc' \in LoadPCs
    BY <1>32 DEF CleanupInt, DisableInterrupts, LoadPCs, ChainPCs, OfferPCs, EarlyPCs, ConnectPCs, FinalPCs, InFlight, LatePCs
  <2> QED BY <1>32, <2>1 DEF CleanupInt, DisableInterrupts, cardVars, IdxOK
<1>33. ASSUME CleanupReset, UNCHANGED <<exchangeVars, toolVars>>
       PROVE  LoadTypeOK'
  <2>1. pc' \in LoadPCs
    BY <1>33 DEF CleanupReset, LoadPCs, ChainPCs, OfferPCs, EarlyPCs, ConnectPCs, FinalPCs, InFlight, LatePCs
  <2>2. IdxOK'
    BY <1>33, DmaWrite DEF CleanupReset
  <2> QED BY <1>33, <2>1, <2>2 DEF CleanupReset, RINGS
<1>34. ASSUME CleanupGlobal, UNCHANGED <<exchangeVars, toolVars>>
       PROVE  LoadTypeOK'
  <2>1. pc' \in LoadPCs
    BY <1>34 DEF CleanupGlobal, LoadPCs, ChainPCs, OfferPCs, EarlyPCs, ConnectPCs, FinalPCs, InFlight, LatePCs
  <2>2. IdxOK'
    BY <1>34, DmaWrite DEF CleanupGlobal
  <2> QED BY <1>34, <2>1, <2>2 DEF CleanupGlobal, RINGS
<1>35. ASSUME CleanupClear, UNCHANGED <<exchangeVars, toolVars>>
       PROVE  LoadTypeOK'
  <2>1. pc' \in LoadPCs
    BY <1>35 DEF CleanupClear, LoadPCs, ChainPCs, OfferPCs, EarlyPCs, ConnectPCs, FinalPCs, InFlight, LatePCs
  <2>2. PICK x \in toClear : ClearRing(x) /\ toClear' = toClear \ {x}
    BY <1>35 DEF CleanupClear
  <2>3. IdxOK'
    BY <2>2, Cleared
  <2> QED BY <1>35, <2>1, <2>2, <2>3 DEF CleanupClear
<1>36. ASSUME CleanupCold, UNCHANGED <<exchangeVars, toolVars>>
       PROVE  LoadTypeOK'
  <2>1. pc' \in LoadPCs
    BY <1>36 DEF CleanupCold, LoadPCs, ChainPCs, OfferPCs, EarlyPCs, ConnectPCs, FinalPCs, InFlight, LatePCs
  <2>2. IdxOK'
    BY <1>36, DmaWrite DEF CleanupCold
  <2> QED BY <1>36, <2>1, <2>2 DEF CleanupCold, RINGS
<1>37. ASSUME CleanupRestored, UNCHANGED <<exchangeVars, toolVars>>
       PROVE  LoadTypeOK'
  <2>1. pc' \in LoadPCs
    BY <1>37 DEF CleanupRestored, LoadPCs, ChainPCs, OfferPCs, EarlyPCs, ConnectPCs, FinalPCs, InFlight, LatePCs
  <2> QED BY <1>37, <2>1 DEF CleanupRestored, cardVars, IdxOK
<1>38. ASSUME VfioReset("unmap"), UNCHANGED <<exchangeVars, toolVars>>
       PROVE  LoadTypeOK'
  <2>1. pc' \in LoadPCs
    BY <1>38 DEF VfioReset, LoadPCs, ChainPCs, OfferPCs, EarlyPCs, ConnectPCs, FinalPCs, InFlight, LatePCs
  <2>2. IdxOK'
    BY <1>38, Closed DEF VfioReset, cardVars, IdxOK
  <2> QED BY <1>38, <2>1, <2>2 DEF VfioReset
<1>39. ASSUME VfioRecovered("unmap"), UNCHANGED <<exchangeVars, toolVars>>
       PROVE  LoadTypeOK'
  <2>1. pc' \in LoadPCs
    BY <1>39 DEF VfioRecovered, LoadPCs, ChainPCs, OfferPCs, EarlyPCs, ConnectPCs, FinalPCs, InFlight, LatePCs
  <2> QED BY <1>39, <2>1 DEF VfioRecovered, cardVars, IdxOK
<1>40. ASSUME Release("unmap", FirstReleases, "report"), UNCHANGED <<exchangeVars, toolVars>>
       PROVE  LoadTypeOK'
  <2>1. pc' \in LoadPCs
    BY <1>40 DEF Release, LoadPCs, ChainPCs, OfferPCs, EarlyPCs, ConnectPCs, FinalPCs, InFlight, LatePCs
  <2>2. IdxOK'
    BY <1>40, Closed DEF Release, cardVars, IdxOK
  <2> QED BY <1>40, <2>1, <2>2 DEF Release
<1>41. ASSUME ReportThen("release"), UNCHANGED toolVars PROVE LoadTypeOK'
  <2>1. pc' \in LoadPCs
    BY <1>41 DEF ReportThen, LoadPCs, ChainPCs, OfferPCs, EarlyPCs, ConnectPCs, FinalPCs, InFlight, LatePCs
  <2> QED BY <1>41, <2>1 DEF ReportThen, cardVars, IdxOK
<1>42. ASSUME Release("release", SecondReleases, "exit"), UNCHANGED <<exchangeVars, toolVars>>
       PROVE  LoadTypeOK'
  <2>1. pc' \in LoadPCs
    BY <1>42 DEF Release, LoadPCs, ChainPCs, OfferPCs, EarlyPCs, ConnectPCs, FinalPCs, InFlight, LatePCs
  <2>2. IdxOK'
    BY <1>42, Closed DEF Release, cardVars, IdxOK
  <2> QED BY <1>42, <2>1, <2>2 DEF Release
<1>43. ASSUME Signal, UNCHANGED <<exchangeVars, toolVars>> PROVE LoadTypeOK'
  <2>1. pc' \in LoadPCs
    BY <1>43 DEF Signal, LoadPCs, ChainPCs, OfferPCs, EarlyPCs, ConnectPCs, FinalPCs, InFlight, LatePCs
  <2> QED BY <1>43, <2>1 DEF Signal, cardVars, IdxOK
<1>44. ASSUME Kill, UNCHANGED <<exchangeVars, toolVars>> PROVE LoadTypeOK'
  <2>1. pc' \in LoadPCs
    BY <1>44 DEF Kill, LoadPCs, ChainPCs, OfferPCs, EarlyPCs, ConnectPCs, FinalPCs, InFlight, LatePCs
  <2>2. IdxOK'
    BY <1>44, Closed DEF Kill, cardVars, IdxOK
  <2> QED BY <1>44, <2>1, <2>2 DEF Kill
<1>45. ASSUME Consume, UNCHANGED toolVars PROVE LoadTypeOK'
  <2>1. PICK d \in DSPS : Advance(<<d, 0>>)
    BY <1>45 DEF Consume
  <2>2. IdxOK'
    BY <2>1, Advanced
  <2> QED BY <1>45, <2>2 DEF Consume
<1>46. ASSUME AnswerWord(CommandPosition), UNCHANGED toolVars
       PROVE  LoadTypeOK'
  BY <1>46 DEF AnswerWord, cardVars, IdxOK
<1>47. ASSUME AnswerDone(CommandPosition), UNCHANGED toolVars
       PROVE  LoadTypeOK'
  <2>1. IdxOK'
    BY <1>47, Advanced DEF AnswerDone
  <2> QED BY <1>47, <2>1 DEF AnswerDone
<1>48. ASSUME StrayWrite, UNCHANGED toolVars PROVE LoadTypeOK'
  BY <1>48 DEF StrayWrite, cardVars, IdxOK
<1>49. ASSUME CardStep, UNCHANGED <<sessionVars, exchangeVars, toolVars>>
       PROVE  LoadTypeOK'
  BY <1>49 DEF CardStep, ReadyFlip, LinkLoss, cardVars, IdxOK
<1>50. ASSUME UNCHANGED vars PROVE LoadTypeOK'
  BY <1>50 DEF vars, cardVars, IdxOK
<1> QED
  BY <1>1, <1>2, <1>3, <1>4, <1>5, <1>6, <1>7, <1>8, <1>9, <1>10, <1>11,
     <1>12, <1>13, <1>14, <1>15, <1>16, <1>17, <1>18, <1>19, <1>20, <1>21,
     <1>22, <1>23, <1>24, <1>25, <1>26, <1>27, <1>28, <1>29, <1>30, <1>31,
     <1>32, <1>33, <1>34, <1>35, <1>36, <1>37, <1>38, <1>39, <1>40, <1>41,
     <1>42, <1>43, <1>44, <1>45, <1>46, <1>47, <1>48, <1>49, <1>50
     DEF Next, Main, Environment, OpenFirmware, LockMemory, Setup, Startup, ConnectAll,
         Submit, ReadBack, Cleanup, DeviceReset, UnmapThenReport, Disturb, CardWork

\* n stays within the sequence it counts, and the release after the report
\* does not touch the result: the mapping is not among what it gives back.
LEMMA StageStep ==
  ASSUME LoadTypeOK, StageInv, [Next]_vars PROVE StageInv'
<1> USE ExchangeAssumption DEF StageInv, loopVars, flagVars, sessionVars, exchangeVars, toolVars, Goto
<1>1. ASSUME Begin PROVE StageInv'
  BY <1>1 DEF Begin, Launch
<1>2. ASSUME Acquire("file", <<"file">>, "capacity"), UNCHANGED <<exchangeVars, toolVars>>
      PROVE  StageInv'
  <2>1. Len(<<"file">>) = 1 /\ n = 1
    BY <1>2 DEF Acquire
  <2>2. pc' = "capacity" /\ n' = 1
    BY <1>2, <2>1 DEF Acquire
  <2> QED BY <2>2
<1>3. ASSUME AcquireFails("file", <<"file">>), UNCHANGED <<exchangeVars, toolVars>>
      PROVE  StageInv'
  BY <1>3 DEF AcquireFails
<1>4. ASSUME Capacity PROVE StageInv'
  BY <1>4 DEF Capacity, Check
<1>5. ASSUME Acquire("memory", <<"memory">>, "read"), UNCHANGED <<exchangeVars, toolVars>>
      PROVE  StageInv'
  <2>1. Len(<<"memory">>) = 1 /\ n = 1
    BY <1>5 DEF Acquire
  <2>2. pc' = "read" /\ n' = 1
    BY <1>5, <2>1 DEF Acquire
  <2> QED BY <2>2
<1>6. ASSUME AcquireFails("memory", <<"memory">>), UNCHANGED <<exchangeVars, toolVars>>
      PROVE  StageInv'
  BY <1>6 DEF AcquireFails
<1>7. ASSUME ReadFirmware PROVE StageInv'
  BY <1>7 DEF ReadFirmware
<1>8. ASSUME CheckFirmware PROVE StageInv'
  BY <1>8 DEF CheckFirmware
<1>9. ASSUME BuildChain PROVE StageInv'
  BY <1>9 DEF BuildChain
<1>10. ASSUME Acquire("setup", Host, "baseline"), UNCHANGED <<exchangeVars, toolVars>>
       PROVE  StageInv'
  <2>1. Len(Host) = 6 /\ n \in 1 .. 6 /\ pc = "setup"
    BY <1>10 DEF Acquire, Host
  <2>2. (pc' = "baseline" /\ n' = 1) \/ (pc' = "setup" /\ n' \in 1 .. 6)
    BY <1>10, <2>1 DEF Acquire
  <2> QED BY <2>1, <2>2
<1>11. ASSUME AcquireFails("setup", Host), UNCHANGED <<exchangeVars, toolVars>>
       PROVE  StageInv'
  BY <1>11 DEF AcquireFails
<1>12. ASSUME Baseline PROVE StageInv'
  BY <1>12 DEF Baseline, Check, Refuse
<1>13. ASSUME Quiesce, UNCHANGED <<exchangeVars, toolVars>> PROVE StageInv'
  BY <1>13 DEF Quiesce, DisableInterrupts
<1>14. ASSUME ResetGlobal, UNCHANGED <<exchangeVars, toolVars>>
       PROVE  StageInv'
  BY <1>14 DEF ResetGlobal
<1>15. ASSUME GlobalOnly, UNCHANGED <<exchangeVars, toolVars>> PROVE StageInv'
  BY <1>15 DEF GlobalOnly
<1>16. ASSUME RingIndex(0), UNCHANGED <<exchangeVars, toolVars>>
       PROVE  StageInv'
  BY <1>16 DEF RingIndex
<1>17. ASSUME RingDesc, UNCHANGED <<exchangeVars, toolVars>> PROVE StageInv'
  BY <1>17 DEF RingDesc, WriteDesc
<1>18. ASSUME RingDone, UNCHANGED <<exchangeVars, toolVars>> PROVE StageInv'
  BY <1>18 DEF RingDone
<1>19. ASSUME Enable("connect"), UNCHANGED <<exchangeVars, toolVars>>
       PROVE  StageInv'
  BY <1>19 DEF Enable
<1>20. ASSUME Connect, UNCHANGED toolVars PROVE StageInv'
  BY <1>20 DEF Connect
<1>21. ASSUME Clock, UNCHANGED toolVars PROVE StageInv'
  BY <1>21 DEF Clock
<1>22. ASSUME ConnectPoll, UNCHANGED toolVars PROVE StageInv'
  BY <1>22 DEF ConnectPoll
<1>23. ASSUME Post("postResponse", Resp0, ResponsePosition, "postCommand"), UNCHANGED toolVars
       PROVE  StageInv'
  BY <1>23 DEF Post
<1>24. ASSUME Post("postCommand", Cmd0, CommandPosition, "poll"), UNCHANGED toolVars
       PROVE  StageInv'
  BY <1>24 DEF Post
<1>25. ASSUME Poll PROVE StageInv'
  BY <1>25 DEF Poll, PollAnswer
<1>26. ASSUME FinalReads PROVE StageInv'
  BY <1>26 DEF FinalReads, Words
<1>27. ASSUME CopyWord("readCommand"), UNCHANGED toolVars PROVE StageInv'
  <2>1. n \in 1 .. RespWords /\ RespWords \in Nat
    BY <1>27 DEF CopyWord, Words
  <2>2. (pc' = "readCommand" /\ n' = 1) \/ (pc' = "copy" /\ n' \in 1 .. RespWords)
    BY <1>27, <2>1 DEF CopyWord
  <2> QED BY <2>2 DEF Words
<1>28. ASSUME ReadCommand(CommandPosition), UNCHANGED toolVars PROVE StageInv'
  BY <1>28 DEF ReadCommand
<1>29. ASSUME ReadResponse(ResponsePosition), UNCHANGED toolVars
       PROVE  StageInv'
  BY <1>29 DEF ReadResponse
<1>30. ASSUME Judge PROVE StageInv'
  BY <1>30 DEF Judge, JudgeAs
<1>31. ASSUME CleanupEnter, UNCHANGED <<exchangeVars, toolVars>>
       PROVE  StageInv'
  BY <1>31 DEF CleanupEnter
<1>32. ASSUME CleanupInt, UNCHANGED <<exchangeVars, toolVars>> PROVE StageInv'
  BY <1>32 DEF CleanupInt, DisableInterrupts
<1>33. ASSUME CleanupReset, UNCHANGED <<exchangeVars, toolVars>>
       PROVE  StageInv'
  BY <1>33 DEF CleanupReset
<1>34. ASSUME CleanupGlobal, UNCHANGED <<exchangeVars, toolVars>>
       PROVE  StageInv'
  BY <1>34 DEF CleanupGlobal
<1>35. ASSUME CleanupClear, UNCHANGED <<exchangeVars, toolVars>>
       PROVE  StageInv'
  BY <1>35 DEF CleanupClear
<1>36. ASSUME CleanupCold, UNCHANGED <<exchangeVars, toolVars>>
       PROVE  StageInv'
  BY <1>36 DEF CleanupCold
<1>37. ASSUME CleanupRestored, UNCHANGED <<exchangeVars, toolVars>>
       PROVE  StageInv'
  BY <1>37 DEF CleanupRestored
<1>38. ASSUME VfioReset("unmap"), UNCHANGED <<exchangeVars, toolVars>>
       PROVE  StageInv'
  BY <1>38 DEF VfioReset
<1>39. ASSUME VfioRecovered("unmap"), UNCHANGED <<exchangeVars, toolVars>>
       PROVE  StageInv'
  BY <1>39 DEF VfioRecovered
<1>40. ASSUME Release("unmap", FirstReleases, "report"), UNCHANGED <<exchangeVars, toolVars>>
       PROVE  StageInv'
  <2>1. Len(FirstReleases) = 3 /\ n \in 1 .. 3 /\ pc = "unmap"
    BY <1>40 DEF Release, FirstReleases
  <2>2. (pc' = "report" /\ n' = 1) \/ (pc' = "unmap" /\ n' \in 1 .. 3)
    BY <1>40, <2>1 DEF Release
  <2> QED BY <2>1, <2>2
<1>41. ASSUME ReportThen("release"), UNCHANGED toolVars PROVE StageInv'
  BY <1>41 DEF ReportThen
<1>42. ASSUME Release("release", SecondReleases, "exit"), UNCHANGED <<exchangeVars, toolVars>>
       PROVE  StageInv'
  <2>1. /\ Len(SecondReleases) = 5 /\ n \in 1 .. 5 /\ pc = "release"
        /\ SecondReleases[n] # "dma"
    BY <1>42 DEF Release, SecondReleases
  <2>2. UNCHANGED <<success, reported>>
    BY <1>42, <2>1 DEF Release
  <2>3. (pc' = "exit" /\ n' = 1) \/ (pc' = "release" /\ n' \in 1 .. 5)
    BY <1>42, <2>1 DEF Release
  <2> QED BY <2>1, <2>2, <2>3
<1>43. ASSUME Signal, UNCHANGED <<exchangeVars, toolVars>> PROVE StageInv'
  BY <1>43 DEF Signal, Stopped
<1>44. ASSUME Kill, UNCHANGED <<exchangeVars, toolVars>> PROVE StageInv'
  BY <1>44 DEF Kill, Stopped
<1>45. ASSUME Consume, UNCHANGED toolVars PROVE StageInv'
  BY <1>45 DEF Consume
<1>46. ASSUME AnswerWord(CommandPosition), UNCHANGED toolVars PROVE StageInv'
  BY <1>46 DEF AnswerWord
<1>47. ASSUME AnswerDone(CommandPosition), UNCHANGED toolVars PROVE StageInv'
  BY <1>47 DEF AnswerDone
<1>48. ASSUME StrayWrite, UNCHANGED toolVars PROVE StageInv'
  BY <1>48 DEF StrayWrite
<1>49. ASSUME CardStep, UNCHANGED <<sessionVars, exchangeVars, toolVars>>
       PROVE  StageInv'
  BY <1>49 DEF CardStep, ReadyFlip, LinkLoss
<1>50. ASSUME UNCHANGED vars PROVE StageInv'
  BY <1>50 DEF vars
<1> QED
  BY <1>1, <1>2, <1>3, <1>4, <1>5, <1>6, <1>7, <1>8, <1>9, <1>10, <1>11,
     <1>12, <1>13, <1>14, <1>15, <1>16, <1>17, <1>18, <1>19, <1>20, <1>21,
     <1>22, <1>23, <1>24, <1>25, <1>26, <1>27, <1>28, <1>29, <1>30, <1>31,
     <1>32, <1>33, <1>34, <1>35, <1>36, <1>37, <1>38, <1>39, <1>40, <1>41,
     <1>42, <1>43, <1>44, <1>45, <1>46, <1>47, <1>48, <1>49, <1>50
     DEF Next, Main, Environment, OpenFirmware, LockMemory, Setup, Startup, ConnectAll,
         Submit, ReadBack, Cleanup, DeviceReset, UnmapThenReport, Disturb, CardWork

LEMMA ChainKept ==
  ASSUME ChainInv, UNCHANGED <<fileWords, done, exact, chain>>,
         \/ pc' = pc
         \/ /\ pc' \in ChainPCs => pc \in ChainPCs
            /\ pc' \in {"memory", "read"} => pc \in {"memory", "read"}
            /\ pc' # "chain"
  PROVE  ChainInv'
<1>1. PayloadPageCount' = PayloadPageCount /\ \A i : Part(i)' = Part(i)
  BY DEF PayloadPageCount, Part
<1>2. [i \in 1 .. PayloadPageCount' |-> Part(i)'] = [i \in 1 .. PayloadPageCount |-> Part(i)]
  BY <1>1
<1> QED BY <1>1, <1>2 DEF ChainInv

\* The chain is built from the whole file, which has passed its check, and the
\* ring has room for it; nothing changes it while it is used.
LEMMA ChainStep ==
  ASSUME LoadTypeOK, ChainInv, [Next]_vars PROVE ChainInv'
<1> USE DEF loopVars, flagVars, sessionVars, exchangeVars, toolVars, Goto
<1>1. ASSUME Begin PROVE ChainInv'
  BY <1>1 DEF Begin, Launch, ChainInv, LoadPCs, ChainPCs, OfferPCs, EarlyPCs, ConnectPCs, FinalPCs, InFlight, LatePCs
<1>2. ASSUME Acquire("file", <<"file">>, "capacity"), UNCHANGED <<exchangeVars, toolVars>>
      PROVE  ChainInv'
  <2>1. /\ UNCHANGED <<fileWords, done, exact, chain>>
        /\ (pc' \in ChainPCs => pc \in ChainPCs) /\ pc' # "chain"
        /\ (pc' \in {"memory", "read"} => pc \in {"memory", "read"})
    BY <1>2 DEF Acquire, LoadPCs, ChainPCs, OfferPCs, EarlyPCs, ConnectPCs, FinalPCs, InFlight, LatePCs
  <2> QED BY <2>1, ChainKept
<1>3. ASSUME AcquireFails("file", <<"file">>), UNCHANGED <<exchangeVars, toolVars>>
      PROVE  ChainInv'
  <2>1. /\ UNCHANGED <<fileWords, done, exact, chain>>
        /\ (pc' \in ChainPCs => pc \in ChainPCs) /\ pc' # "chain"
        /\ (pc' \in {"memory", "read"} => pc \in {"memory", "read"})
    BY <1>3 DEF AcquireFails, LoadPCs, ChainPCs, OfferPCs, EarlyPCs, ConnectPCs, FinalPCs, InFlight, LatePCs
  <2> QED BY <2>1, ChainKept
<1>4. ASSUME Capacity PROVE ChainInv'
  BY <1>4 DEF Capacity, Check, ChainInv, PayloadPageCount, LoadPCs, ChainPCs, OfferPCs, EarlyPCs, ConnectPCs, FinalPCs, InFlight, LatePCs
<1>5. ASSUME Acquire("memory", <<"memory">>, "read"), UNCHANGED <<exchangeVars, toolVars>>
      PROVE  ChainInv'
  <2>1. /\ UNCHANGED <<fileWords, done, exact, chain>>
        /\ (pc' \in ChainPCs => pc \in ChainPCs) /\ pc' # "chain"
        /\ (pc' \in {"memory", "read"} => pc \in {"memory", "read"})
    BY <1>5 DEF Acquire, LoadPCs, ChainPCs, OfferPCs, EarlyPCs, ConnectPCs, FinalPCs, InFlight, LatePCs
  <2> QED BY <2>1, ChainKept
<1>6. ASSUME AcquireFails("memory", <<"memory">>), UNCHANGED <<exchangeVars, toolVars>>
      PROVE  ChainInv'
  <2>1. /\ UNCHANGED <<fileWords, done, exact, chain>>
        /\ (pc' \in ChainPCs => pc \in ChainPCs) /\ pc' # "chain"
        /\ (pc' \in {"memory", "read"} => pc \in {"memory", "read"})
    BY <1>6 DEF AcquireFails, LoadPCs, ChainPCs, OfferPCs, EarlyPCs, ConnectPCs, FinalPCs, InFlight, LatePCs
  <2> QED BY <2>1, ChainKept
<1>7. ASSUME ReadFirmware PROVE ChainInv'
  <2>1. UNCHANGED <<fileWords, exact, chain>> /\ pc = "read" /\ pc' \in {"read", "cleanup"}
    BY <1>7 DEF ReadFirmware
  <2>2. PayloadPageCount' = PayloadPageCount
    BY <2>1 DEF PayloadPageCount
  <2> QED BY <2>1, <2>2 DEF ChainInv, LoadPCs, ChainPCs, OfferPCs, EarlyPCs, ConnectPCs, FinalPCs, InFlight, LatePCs
<1>8. ASSUME CheckFirmware PROVE ChainInv'
  <2>1. /\ UNCHANGED <<fileWords, done, chain>> /\ pc = "read" /\ done = fileWords
        /\ pc' \in {"chain", "cleanup"} /\ (pc' = "chain" => exact')
    BY <1>8 DEF CheckFirmware
  <2>2. PayloadPageCount' = PayloadPageCount
    BY <2>1 DEF PayloadPageCount
  <2> QED BY <2>1, <2>2 DEF ChainInv, LoadPCs, ChainPCs, OfferPCs, EarlyPCs, ConnectPCs, FinalPCs, InFlight, LatePCs
<1>9. ASSUME BuildChain PROVE ChainInv'
  <2>1. /\ UNCHANGED <<fileWords, done, exact>> /\ pc = "chain" /\ pc' \in {"setup", "cleanup"}
        /\ chain' = [i \in 1 .. PayloadPageCount |-> Part(i)]
    BY <1>9 DEF BuildChain, Part
  <2>2. /\ PayloadPageCount' = PayloadPageCount
        /\ \A i : Part(i)' = Part(i)
    BY <2>1 DEF PayloadPageCount, Part
  <2>3. chain' = [i \in 1 .. PayloadPageCount' |-> Part(i)']
    BY <2>1, <2>2
  <2> QED BY <2>1, <2>2, <2>3 DEF ChainInv, LoadPCs, ChainPCs, OfferPCs, EarlyPCs, ConnectPCs, FinalPCs, InFlight, LatePCs
<1>10. ASSUME Acquire("setup", Host, "baseline"), UNCHANGED <<exchangeVars, toolVars>>
       PROVE  ChainInv'
  <2>1. /\ UNCHANGED <<fileWords, done, exact, chain>>
        /\ (pc' \in ChainPCs => pc \in ChainPCs) /\ pc' # "chain"
        /\ (pc' \in {"memory", "read"} => pc \in {"memory", "read"})
    BY <1>10 DEF Acquire, LoadPCs, ChainPCs, OfferPCs, EarlyPCs, ConnectPCs, FinalPCs, InFlight, LatePCs
  <2> QED BY <2>1, ChainKept
<1>11. ASSUME AcquireFails("setup", Host), UNCHANGED <<exchangeVars, toolVars>>
       PROVE  ChainInv'
  <2>1. /\ UNCHANGED <<fileWords, done, exact, chain>>
        /\ (pc' \in ChainPCs => pc \in ChainPCs) /\ pc' # "chain"
        /\ (pc' \in {"memory", "read"} => pc \in {"memory", "read"})
    BY <1>11 DEF AcquireFails, LoadPCs, ChainPCs, OfferPCs, EarlyPCs, ConnectPCs, FinalPCs, InFlight, LatePCs
  <2> QED BY <2>1, ChainKept
<1>12. ASSUME Baseline PROVE ChainInv'
  <2>1. /\ UNCHANGED <<fileWords, done, exact, chain>>
        /\ (pc' \in ChainPCs => pc \in ChainPCs) /\ pc' # "chain"
        /\ (pc' \in {"memory", "read"} => pc \in {"memory", "read"})
    BY <1>12 DEF Baseline, Check, Refuse, LoadPCs, ChainPCs, OfferPCs, EarlyPCs, ConnectPCs, FinalPCs, InFlight, LatePCs
  <2> QED BY <2>1, ChainKept
<1>13. ASSUME Quiesce, UNCHANGED <<exchangeVars, toolVars>> PROVE ChainInv'
  <2>1. /\ UNCHANGED <<fileWords, done, exact, chain>>
        /\ (pc' \in ChainPCs => pc \in ChainPCs) /\ pc' # "chain"
        /\ (pc' \in {"memory", "read"} => pc \in {"memory", "read"})
    BY <1>13 DEF Quiesce, DisableInterrupts, LoadPCs, ChainPCs, OfferPCs, EarlyPCs, ConnectPCs, FinalPCs, InFlight, LatePCs
  <2> QED BY <2>1, ChainKept
<1>14. ASSUME ResetGlobal, UNCHANGED <<exchangeVars, toolVars>>
       PROVE  ChainInv'
  <2>1. /\ UNCHANGED <<fileWords, done, exact, chain>>
        /\ (pc' \in ChainPCs => pc \in ChainPCs) /\ pc' # "chain"
        /\ (pc' \in {"memory", "read"} => pc \in {"memory", "read"})
    BY <1>14 DEF ResetGlobal, LoadPCs, ChainPCs, OfferPCs, EarlyPCs, ConnectPCs, FinalPCs, InFlight, LatePCs
  <2> QED BY <2>1, ChainKept
<1>15. ASSUME GlobalOnly, UNCHANGED <<exchangeVars, toolVars>> PROVE ChainInv'
  <2>1. /\ UNCHANGED <<fileWords, done, exact, chain>>
        /\ (pc' \in ChainPCs => pc \in ChainPCs) /\ pc' # "chain"
        /\ (pc' \in {"memory", "read"} => pc \in {"memory", "read"})
    BY <1>15 DEF GlobalOnly, LoadPCs, ChainPCs, OfferPCs, EarlyPCs, ConnectPCs, FinalPCs, InFlight, LatePCs
  <2> QED BY <2>1, ChainKept
<1>16. ASSUME RingIndex(0), UNCHANGED <<exchangeVars, toolVars>>
       PROVE  ChainInv'
  <2>1. /\ UNCHANGED <<fileWords, done, exact, chain>>
        /\ (pc' \in ChainPCs => pc \in ChainPCs) /\ pc' # "chain"
        /\ (pc' \in {"memory", "read"} => pc \in {"memory", "read"})
    BY <1>16 DEF RingIndex, LoadPCs, ChainPCs, OfferPCs, EarlyPCs, ConnectPCs, FinalPCs, InFlight, LatePCs
  <2> QED BY <2>1, ChainKept
<1>17. ASSUME RingDesc, UNCHANGED <<exchangeVars, toolVars>> PROVE ChainInv'
  <2>1. /\ UNCHANGED <<fileWords, done, exact, chain>>
        /\ (pc' \in ChainPCs => pc \in ChainPCs) /\ pc' # "chain"
        /\ (pc' \in {"memory", "read"} => pc \in {"memory", "read"})
    BY <1>17 DEF RingDesc, WriteDesc, LoadPCs, ChainPCs, OfferPCs, EarlyPCs, ConnectPCs, FinalPCs, InFlight, LatePCs
  <2> QED BY <2>1, ChainKept
<1>18. ASSUME RingDone, UNCHANGED <<exchangeVars, toolVars>> PROVE ChainInv'
  <2>1. /\ UNCHANGED <<fileWords, done, exact, chain>>
        /\ (pc' \in ChainPCs => pc \in ChainPCs) /\ pc' # "chain"
        /\ (pc' \in {"memory", "read"} => pc \in {"memory", "read"})
    BY <1>18 DEF RingDone, LoadPCs, ChainPCs, OfferPCs, EarlyPCs, ConnectPCs, FinalPCs, InFlight, LatePCs
  <2> QED BY <2>1, ChainKept
<1>19. ASSUME Enable("connect"), UNCHANGED <<exchangeVars, toolVars>>
       PROVE  ChainInv'
  <2>1. /\ UNCHANGED <<fileWords, done, exact, chain>>
        /\ (pc' \in ChainPCs => pc \in ChainPCs) /\ pc' # "chain"
        /\ (pc' \in {"memory", "read"} => pc \in {"memory", "read"})
    BY <1>19 DEF Enable, LoadPCs, ChainPCs, OfferPCs, EarlyPCs, ConnectPCs, FinalPCs, InFlight, LatePCs
  <2> QED BY <2>1, ChainKept
<1>20. ASSUME Connect, UNCHANGED toolVars PROVE ChainInv'
  <2>1. /\ UNCHANGED <<fileWords, done, exact, chain>>
        /\ (pc' \in ChainPCs => pc \in ChainPCs) /\ pc' # "chain"
        /\ (pc' \in {"memory", "read"} => pc \in {"memory", "read"})
    BY <1>20 DEF Connect, LoadPCs, ChainPCs, OfferPCs, EarlyPCs, ConnectPCs, FinalPCs, InFlight, LatePCs
  <2> QED BY <2>1, ChainKept
<1>21. ASSUME Clock, UNCHANGED toolVars PROVE ChainInv'
  <2>1. /\ UNCHANGED <<fileWords, done, exact, chain>>
        /\ (pc' \in ChainPCs => pc \in ChainPCs) /\ pc' # "chain"
        /\ (pc' \in {"memory", "read"} => pc \in {"memory", "read"})
    BY <1>21 DEF Clock, LoadPCs, ChainPCs, OfferPCs, EarlyPCs, ConnectPCs, FinalPCs, InFlight, LatePCs
  <2> QED BY <2>1, ChainKept
<1>22. ASSUME ConnectPoll, UNCHANGED toolVars PROVE ChainInv'
  <2>1. /\ UNCHANGED <<fileWords, done, exact, chain>>
        /\ (pc' \in ChainPCs => pc \in ChainPCs) /\ pc' # "chain"
        /\ (pc' \in {"memory", "read"} => pc \in {"memory", "read"})
    BY <1>22 DEF ConnectPoll, LoadPCs, ChainPCs, OfferPCs, EarlyPCs, ConnectPCs, FinalPCs, InFlight, LatePCs
  <2> QED BY <2>1, ChainKept
<1>23. ASSUME Post("postResponse", Resp0, ResponsePosition, "postCommand"), UNCHANGED toolVars
       PROVE  ChainInv'
  <2>1. /\ UNCHANGED <<fileWords, done, exact, chain>>
        /\ (pc' \in ChainPCs => pc \in ChainPCs) /\ pc' # "chain"
        /\ (pc' \in {"memory", "read"} => pc \in {"memory", "read"})
    BY <1>23 DEF Post, LoadPCs, ChainPCs, OfferPCs, EarlyPCs, ConnectPCs, FinalPCs, InFlight, LatePCs
  <2> QED BY <2>1, ChainKept
<1>24. ASSUME Post("postCommand", Cmd0, CommandPosition, "poll"), UNCHANGED toolVars
       PROVE  ChainInv'
  <2>1. /\ UNCHANGED <<fileWords, done, exact, chain>>
        /\ (pc' \in ChainPCs => pc \in ChainPCs) /\ pc' # "chain"
        /\ (pc' \in {"memory", "read"} => pc \in {"memory", "read"})
    BY <1>24 DEF Post, LoadPCs, ChainPCs, OfferPCs, EarlyPCs, ConnectPCs, FinalPCs, InFlight, LatePCs
  <2> QED BY <2>1, ChainKept
<1>25. ASSUME Poll PROVE ChainInv'
  <2>1. /\ UNCHANGED <<fileWords, done, exact, chain>>
        /\ (pc' \in ChainPCs => pc \in ChainPCs) /\ pc' # "chain"
        /\ (pc' \in {"memory", "read"} => pc \in {"memory", "read"})
    BY <1>25 DEF Poll, PollAnswer, LoadPCs, ChainPCs, OfferPCs, EarlyPCs, ConnectPCs, FinalPCs, InFlight, LatePCs
  <2> QED BY <2>1, ChainKept
<1>26. ASSUME FinalReads PROVE ChainInv'
  <2>1. /\ UNCHANGED <<fileWords, done, exact, chain>>
        /\ (pc' \in ChainPCs => pc \in ChainPCs) /\ pc' # "chain"
        /\ (pc' \in {"memory", "read"} => pc \in {"memory", "read"})
    BY <1>26 DEF FinalReads, LoadPCs, ChainPCs, OfferPCs, EarlyPCs, ConnectPCs, FinalPCs, InFlight, LatePCs
  <2> QED BY <2>1, ChainKept
<1>27. ASSUME CopyWord("readCommand"), UNCHANGED toolVars PROVE ChainInv'
  <2>1. /\ UNCHANGED <<fileWords, done, exact, chain>>
        /\ (pc' \in ChainPCs => pc \in ChainPCs) /\ pc' # "chain"
        /\ (pc' \in {"memory", "read"} => pc \in {"memory", "read"})
    BY <1>27 DEF CopyWord, LoadPCs, ChainPCs, OfferPCs, EarlyPCs, ConnectPCs, FinalPCs, InFlight, LatePCs
  <2> QED BY <2>1, ChainKept
<1>28. ASSUME ReadCommand(CommandPosition), UNCHANGED toolVars PROVE ChainInv'
  <2>1. /\ UNCHANGED <<fileWords, done, exact, chain>>
        /\ (pc' \in ChainPCs => pc \in ChainPCs) /\ pc' # "chain"
        /\ (pc' \in {"memory", "read"} => pc \in {"memory", "read"})
    BY <1>28 DEF ReadCommand, LoadPCs, ChainPCs, OfferPCs, EarlyPCs, ConnectPCs, FinalPCs, InFlight, LatePCs
  <2> QED BY <2>1, ChainKept
<1>29. ASSUME ReadResponse(ResponsePosition), UNCHANGED toolVars
       PROVE  ChainInv'
  <2>1. /\ UNCHANGED <<fileWords, done, exact, chain>>
        /\ (pc' \in ChainPCs => pc \in ChainPCs) /\ pc' # "chain"
        /\ (pc' \in {"memory", "read"} => pc \in {"memory", "read"})
    BY <1>29 DEF ReadResponse, LoadPCs, ChainPCs, OfferPCs, EarlyPCs, ConnectPCs, FinalPCs, InFlight, LatePCs
  <2> QED BY <2>1, ChainKept
<1>30. ASSUME Judge PROVE ChainInv'
  <2>1. /\ UNCHANGED <<fileWords, done, exact, chain>>
        /\ (pc' \in ChainPCs => pc \in ChainPCs) /\ pc' # "chain"
        /\ (pc' \in {"memory", "read"} => pc \in {"memory", "read"})
    BY <1>30 DEF Judge, JudgeAs, LoadPCs, ChainPCs, OfferPCs, EarlyPCs, ConnectPCs, FinalPCs, InFlight, LatePCs
  <2> QED BY <2>1, ChainKept
<1>31. ASSUME CleanupEnter, UNCHANGED <<exchangeVars, toolVars>>
       PROVE  ChainInv'
  <2>1. /\ UNCHANGED <<fileWords, done, exact, chain>>
        /\ (pc' \in ChainPCs => pc \in ChainPCs) /\ pc' # "chain"
        /\ (pc' \in {"memory", "read"} => pc \in {"memory", "read"})
    BY <1>31 DEF CleanupEnter, LoadPCs, ChainPCs, OfferPCs, EarlyPCs, ConnectPCs, FinalPCs, InFlight, LatePCs
  <2> QED BY <2>1, ChainKept
<1>32. ASSUME CleanupInt, UNCHANGED <<exchangeVars, toolVars>> PROVE ChainInv'
  <2>1. /\ UNCHANGED <<fileWords, done, exact, chain>>
        /\ (pc' \in ChainPCs => pc \in ChainPCs) /\ pc' # "chain"
        /\ (pc' \in {"memory", "read"} => pc \in {"memory", "read"})
    BY <1>32 DEF CleanupInt, DisableInterrupts, LoadPCs, ChainPCs, OfferPCs, EarlyPCs, ConnectPCs, FinalPCs, InFlight, LatePCs
  <2> QED BY <2>1, ChainKept
<1>33. ASSUME CleanupReset, UNCHANGED <<exchangeVars, toolVars>>
       PROVE  ChainInv'
  <2>1. /\ UNCHANGED <<fileWords, done, exact, chain>>
        /\ (pc' \in ChainPCs => pc \in ChainPCs) /\ pc' # "chain"
        /\ (pc' \in {"memory", "read"} => pc \in {"memory", "read"})
    BY <1>33 DEF CleanupReset, LoadPCs, ChainPCs, OfferPCs, EarlyPCs, ConnectPCs, FinalPCs, InFlight, LatePCs
  <2> QED BY <2>1, ChainKept
<1>34. ASSUME CleanupGlobal, UNCHANGED <<exchangeVars, toolVars>>
       PROVE  ChainInv'
  <2>1. /\ UNCHANGED <<fileWords, done, exact, chain>>
        /\ (pc' \in ChainPCs => pc \in ChainPCs) /\ pc' # "chain"
        /\ (pc' \in {"memory", "read"} => pc \in {"memory", "read"})
    BY <1>34 DEF CleanupGlobal, LoadPCs, ChainPCs, OfferPCs, EarlyPCs, ConnectPCs, FinalPCs, InFlight, LatePCs
  <2> QED BY <2>1, ChainKept
<1>35. ASSUME CleanupClear, UNCHANGED <<exchangeVars, toolVars>>
       PROVE  ChainInv'
  <2>1. /\ UNCHANGED <<fileWords, done, exact, chain>>
        /\ (pc' \in ChainPCs => pc \in ChainPCs) /\ pc' # "chain"
        /\ (pc' \in {"memory", "read"} => pc \in {"memory", "read"})
    BY <1>35 DEF CleanupClear, LoadPCs, ChainPCs, OfferPCs, EarlyPCs, ConnectPCs, FinalPCs, InFlight, LatePCs
  <2> QED BY <2>1, ChainKept
<1>36. ASSUME CleanupCold, UNCHANGED <<exchangeVars, toolVars>>
       PROVE  ChainInv'
  <2>1. /\ UNCHANGED <<fileWords, done, exact, chain>>
        /\ (pc' \in ChainPCs => pc \in ChainPCs) /\ pc' # "chain"
        /\ (pc' \in {"memory", "read"} => pc \in {"memory", "read"})
    BY <1>36 DEF CleanupCold, LoadPCs, ChainPCs, OfferPCs, EarlyPCs, ConnectPCs, FinalPCs, InFlight, LatePCs
  <2> QED BY <2>1, ChainKept
<1>37. ASSUME CleanupRestored, UNCHANGED <<exchangeVars, toolVars>>
       PROVE  ChainInv'
  <2>1. /\ UNCHANGED <<fileWords, done, exact, chain>>
        /\ (pc' \in ChainPCs => pc \in ChainPCs) /\ pc' # "chain"
        /\ (pc' \in {"memory", "read"} => pc \in {"memory", "read"})
    BY <1>37 DEF CleanupRestored, LoadPCs, ChainPCs, OfferPCs, EarlyPCs, ConnectPCs, FinalPCs, InFlight, LatePCs
  <2> QED BY <2>1, ChainKept
<1>38. ASSUME VfioReset("unmap"), UNCHANGED <<exchangeVars, toolVars>>
       PROVE  ChainInv'
  <2>1. /\ UNCHANGED <<fileWords, done, exact, chain>>
        /\ (pc' \in ChainPCs => pc \in ChainPCs) /\ pc' # "chain"
        /\ (pc' \in {"memory", "read"} => pc \in {"memory", "read"})
    BY <1>38 DEF VfioReset, LoadPCs, ChainPCs, OfferPCs, EarlyPCs, ConnectPCs, FinalPCs, InFlight, LatePCs
  <2> QED BY <2>1, ChainKept
<1>39. ASSUME VfioRecovered("unmap"), UNCHANGED <<exchangeVars, toolVars>>
       PROVE  ChainInv'
  <2>1. /\ UNCHANGED <<fileWords, done, exact, chain>>
        /\ (pc' \in ChainPCs => pc \in ChainPCs) /\ pc' # "chain"
        /\ (pc' \in {"memory", "read"} => pc \in {"memory", "read"})
    BY <1>39 DEF VfioRecovered, LoadPCs, ChainPCs, OfferPCs, EarlyPCs, ConnectPCs, FinalPCs, InFlight, LatePCs
  <2> QED BY <2>1, ChainKept
<1>40. ASSUME Release("unmap", FirstReleases, "report"), UNCHANGED <<exchangeVars, toolVars>>
       PROVE  ChainInv'
  <2>1. /\ UNCHANGED <<fileWords, done, exact, chain>>
        /\ (pc' \in ChainPCs => pc \in ChainPCs) /\ pc' # "chain"
        /\ (pc' \in {"memory", "read"} => pc \in {"memory", "read"})
    BY <1>40 DEF Release, LoadPCs, ChainPCs, OfferPCs, EarlyPCs, ConnectPCs, FinalPCs, InFlight, LatePCs
  <2> QED BY <2>1, ChainKept
<1>41. ASSUME ReportThen("release"), UNCHANGED toolVars PROVE ChainInv'
  <2>1. /\ UNCHANGED <<fileWords, done, exact, chain>>
        /\ (pc' \in ChainPCs => pc \in ChainPCs) /\ pc' # "chain"
        /\ (pc' \in {"memory", "read"} => pc \in {"memory", "read"})
    BY <1>41 DEF ReportThen, LoadPCs, ChainPCs, OfferPCs, EarlyPCs, ConnectPCs, FinalPCs, InFlight, LatePCs
  <2> QED BY <2>1, ChainKept
<1>42. ASSUME Release("release", SecondReleases, "exit"), UNCHANGED <<exchangeVars, toolVars>>
       PROVE  ChainInv'
  <2>1. /\ UNCHANGED <<fileWords, done, exact, chain>>
        /\ (pc' \in ChainPCs => pc \in ChainPCs) /\ pc' # "chain"
        /\ (pc' \in {"memory", "read"} => pc \in {"memory", "read"})
    BY <1>42 DEF Release, LoadPCs, ChainPCs, OfferPCs, EarlyPCs, ConnectPCs, FinalPCs, InFlight, LatePCs
  <2> QED BY <2>1, ChainKept
<1>43. ASSUME Signal, UNCHANGED <<exchangeVars, toolVars>> PROVE ChainInv'
  <2>1. UNCHANGED <<pc, fileWords, done, exact, chain>>
    BY <1>43 DEF Signal
  <2> QED BY <2>1, ChainKept
<1>44. ASSUME Kill, UNCHANGED <<exchangeVars, toolVars>> PROVE ChainInv'
  <2>1. /\ UNCHANGED <<fileWords, done, exact, chain>>
        /\ (pc' \in ChainPCs => pc \in ChainPCs) /\ pc' # "chain"
        /\ (pc' \in {"memory", "read"} => pc \in {"memory", "read"})
    BY <1>44 DEF Kill, LoadPCs, ChainPCs, OfferPCs, EarlyPCs, ConnectPCs, FinalPCs, InFlight, LatePCs
  <2> QED BY <2>1, ChainKept
<1>45. ASSUME Consume, UNCHANGED toolVars PROVE ChainInv'
  <2>1. UNCHANGED <<pc, fileWords, done, exact, chain>>
    BY <1>45 DEF Consume
  <2> QED BY <2>1, ChainKept
<1>46. ASSUME AnswerWord(CommandPosition), UNCHANGED toolVars PROVE ChainInv'
  <2>1. UNCHANGED <<pc, fileWords, done, exact, chain>>
    BY <1>46 DEF AnswerWord
  <2> QED BY <2>1, ChainKept
<1>47. ASSUME AnswerDone(CommandPosition), UNCHANGED toolVars PROVE ChainInv'
  <2>1. UNCHANGED <<pc, fileWords, done, exact, chain>>
    BY <1>47 DEF AnswerDone
  <2> QED BY <2>1, ChainKept
<1>48. ASSUME StrayWrite, UNCHANGED toolVars PROVE ChainInv'
  <2>1. UNCHANGED <<pc, fileWords, done, exact, chain>>
    BY <1>48 DEF StrayWrite
  <2> QED BY <2>1, ChainKept
<1>49. ASSUME CardStep, UNCHANGED <<sessionVars, exchangeVars, toolVars>>
       PROVE  ChainInv'
  <2>1. UNCHANGED <<pc, fileWords, done, exact, chain>>
    BY <1>49 DEF CardStep, ReadyFlip, LinkLoss
  <2> QED BY <2>1, ChainKept
<1>50. ASSUME UNCHANGED vars PROVE ChainInv'
  <2>1. UNCHANGED <<pc, fileWords, done, exact, chain>>
    BY <1>50 DEF vars
  <2> QED BY <2>1, ChainKept
<1> QED
  BY <1>1, <1>2, <1>3, <1>4, <1>5, <1>6, <1>7, <1>8, <1>9, <1>10, <1>11,
     <1>12, <1>13, <1>14, <1>15, <1>16, <1>17, <1>18, <1>19, <1>20, <1>21,
     <1>22, <1>23, <1>24, <1>25, <1>26, <1>27, <1>28, <1>29, <1>30, <1>31,
     <1>32, <1>33, <1>34, <1>35, <1>36, <1>37, <1>38, <1>39, <1>40, <1>41,
     <1>42, <1>43, <1>44, <1>45, <1>46, <1>47, <1>48, <1>49, <1>50
     DEF Next, Main, Environment, OpenFirmware, LockMemory, Setup, Startup, ConnectAll,
         Submit, ReadBack, Cleanup, DeviceReset, UnmapThenReport, Disturb, CardWork

Elsewhere == LatePCs \cup {"idle", "file", "capacity", "memory", "read", "chain",
                           "setup", "baseline"}

LEMMA BellElsewhere == ASSUME pc' \in Elsewhere PROVE BellInv'
BY DEF BellInv, Elsewhere, OfferPCs, EarlyPCs, ConnectPCs, FinalPCs, InFlight, LatePCs

\* The words stand and only the control point, or the link, changes.
LEMMA BellKept ==
  ASSUME BellInv, UNCHANGED <<idx, fileWords>>, linked' => linked,
         \/ pc' = pc
         \/ pc \in EarlyPCs /\ pc' \in EarlyPCs
         \/ pc \in OfferPCs /\ pc' \in OfferPCs
  PROVE  BellInv'
<1> USE DEF Bell, Read
<1>1. CommandPosition' = CommandPosition
  BY DEF CommandPosition, PayloadPageCount
<1>2. CASE pc' = pc
  BY <1>1, <1>2 DEF BellInv
<1>3. CASE pc \in EarlyPCs /\ pc' \in EarlyPCs
  BY <1>1, <1>3 DEF BellInv, EarlyPCs, ConnectPCs, OfferPCs, FinalPCs, InFlight
<1>4. CASE pc \in OfferPCs /\ pc' \in OfferPCs
  BY <1>1, <1>4 DEF BellInv, EarlyPCs, ConnectPCs, OfferPCs, FinalPCs, InFlight
<1> QED BY <1>2, <1>3, <1>4

\* Index words move only as the doorbells and the card move them, and the card
\* never moves past a doorbell.
LEMMA BellStep ==
  ASSUME LoadTypeOK, ChainInv, BellInv, [Next]_vars PROVE BellInv'
<1> USE Zeros DEF loopVars, flagVars, sessionVars, exchangeVars, toolVars, Goto
<1>1. ASSUME Begin PROVE BellInv'
  <2>1. pc' \in Elsewhere
    BY <1>1 DEF Begin, Launch, ExchangeReset, Elsewhere, LatePCs
  <2> QED BY <2>1, BellElsewhere
<1>2. ASSUME Acquire("file", <<"file">>, "capacity"), UNCHANGED <<exchangeVars, toolVars>>
      PROVE  BellInv'
  <2>1. pc' \in Elsewhere
    BY <1>2 DEF Acquire, Elsewhere, LatePCs
  <2> QED BY <2>1, BellElsewhere
<1>3. ASSUME AcquireFails("file", <<"file">>), UNCHANGED <<exchangeVars, toolVars>>
      PROVE  BellInv'
  <2>1. pc' \in Elsewhere
    BY <1>3 DEF AcquireFails, Elsewhere, LatePCs
  <2> QED BY <2>1, BellElsewhere
<1>4. ASSUME Capacity PROVE BellInv'
  <2>1. pc' \in Elsewhere
    BY <1>4 DEF Capacity, Check, Elsewhere, LatePCs
  <2> QED BY <2>1, BellElsewhere
<1>5. ASSUME Acquire("memory", <<"memory">>, "read"), UNCHANGED <<exchangeVars, toolVars>>
      PROVE  BellInv'
  <2>1. pc' \in Elsewhere
    BY <1>5 DEF Acquire, Elsewhere, LatePCs
  <2> QED BY <2>1, BellElsewhere
<1>6. ASSUME AcquireFails("memory", <<"memory">>), UNCHANGED <<exchangeVars, toolVars>>
      PROVE  BellInv'
  <2>1. pc' \in Elsewhere
    BY <1>6 DEF AcquireFails, Elsewhere, LatePCs
  <2> QED BY <2>1, BellElsewhere
<1>7. ASSUME ReadFirmware PROVE BellInv'
  <2>1. pc' \in Elsewhere
    BY <1>7 DEF ReadFirmware, Elsewhere, LatePCs
  <2> QED BY <2>1, BellElsewhere
<1>8. ASSUME CheckFirmware PROVE BellInv'
  <2>1. pc' \in Elsewhere
    BY <1>8 DEF CheckFirmware, Elsewhere, LatePCs
  <2> QED BY <2>1, BellElsewhere
<1>9. ASSUME BuildChain PROVE BellInv'
  <2>1. pc' \in Elsewhere
    BY <1>9 DEF BuildChain, Elsewhere, LatePCs
  <2> QED BY <2>1, BellElsewhere
<1>10. ASSUME Acquire("setup", Host, "baseline"), UNCHANGED <<exchangeVars, toolVars>>
       PROVE  BellInv'
  <2>1. pc' \in Elsewhere
    BY <1>10 DEF Acquire, Elsewhere, LatePCs
  <2> QED BY <2>1, BellElsewhere
<1>11. ASSUME AcquireFails("setup", Host), UNCHANGED <<exchangeVars, toolVars>>
       PROVE  BellInv'
  <2>1. pc' \in Elsewhere
    BY <1>11 DEF AcquireFails, Elsewhere, LatePCs
  <2> QED BY <2>1, BellElsewhere
<1>12. ASSUME Baseline PROVE BellInv'
  <2>1. CASE pc' = "startup"
    <3>1. pc' = "startup" /\ UNCHANGED cardVars /\ AllRingWordsZero
      BY <1>12, <2>1 DEF Baseline, Check, Refuse, ColdBaseline
    <3>2. idx'[Resp0].bell = 0 /\ idx'[Resp0].read = 0
      BY <3>1 DEF AllRingWordsZero, cardVars
    <3> QED BY <3>1, <3>2 DEF BellInv, Bell, Read, LoadPCs, ChainPCs, OfferPCs, EarlyPCs, ConnectPCs, FinalPCs, InFlight, LatePCs
  <2>2. CASE pc' # "startup"
    BY <1>12, <2>2, BellElsewhere DEF Baseline, Check, Refuse, Elsewhere, LatePCs
  <2> QED BY <2>1, <2>2
<1>13. ASSUME Quiesce, UNCHANGED <<exchangeVars, toolVars>> PROVE BellInv'
  <2>1. pc \in EarlyPCs /\ pc' \in EarlyPCs /\ UNCHANGED <<idx, linked, fileWords>>
    BY <1>13 DEF Quiesce, DisableInterrupts, cardVars, EarlyPCs
  <2> QED BY <2>1, BellKept
<1>14. ASSUME ResetGlobal, UNCHANGED <<exchangeVars, toolVars>> PROVE BellInv'
  <2>1. /\ linked' = linked
        /\ \A x \in RingIds :
             idx'[x].bell = idx[x].bell /\ (idx'[x].read = idx[x].read \/ idx'[x].read = 0)
    BY <1>14, DmaWrite DEF ResetGlobal, LoadTypeOK
  <2>2. linked => Bell(Resp0) = 0 /\ Read(Resp0) = 0
    BY <1>14 DEF ResetGlobal, BellInv, EarlyPCs
  <2>3. pc' \in EarlyPCs \cup {"connect"}
    BY <1>14 DEF ResetGlobal, EarlyPCs
  <2> QED BY <2>1, <2>2, <2>3 DEF BellInv, Bell, Read, LoadPCs, ChainPCs, OfferPCs, EarlyPCs, ConnectPCs, FinalPCs, InFlight, LatePCs
<1>15. ASSUME GlobalOnly, UNCHANGED <<exchangeVars, toolVars>> PROVE BellInv'
  <2>1. /\ linked' = linked
        /\ \A x \in RingIds :
             idx'[x].bell = idx[x].bell /\ (idx'[x].read = idx[x].read \/ idx'[x].read = 0)
    BY <1>15, DmaWrite DEF GlobalOnly, LoadTypeOK
  <2>2. linked => Bell(Resp0) = 0 /\ Read(Resp0) = 0
    BY <1>15 DEF GlobalOnly, BellInv, EarlyPCs
  <2>3. pc' \in EarlyPCs \cup {"connect"}
    BY <1>15 DEF GlobalOnly, EarlyPCs
  <2> QED BY <2>1, <2>2, <2>3 DEF BellInv, Bell, Read, LoadPCs, ChainPCs, OfferPCs, EarlyPCs, ConnectPCs, FinalPCs, InFlight, LatePCs
<1>16. ASSUME RingIndex(0), UNCHANGED <<exchangeVars, toolVars>>
       PROVE  BellInv'
  <2>1. <<dsp, ring>> \in RingIds /\ 0 \in 0 .. Entries
    BY CardAssumption DEF RingIds, LoadTypeOK
  <2>2. linked' = linked /\ Placed(<<dsp, ring>>, 0)
    BY <1>16, <2>1, IndexWrite DEF RingIndex, LoadTypeOK
  <2>3. pc = "ringIndex" /\ pc' = "ringDesc"
    BY <1>16 DEF RingIndex
  <2>4. linked => idx[Resp0].bell = 0 /\ idx[Resp0].read = 0
    BY <2>3 DEF BellInv, Bell, Read, EarlyPCs
  <2>5. linked => idx'[Resp0].bell = 0 /\ idx'[Resp0].read = 0
    BY <2>1, <2>2, <2>4 DEF Placed
  <2> QED BY <2>2, <2>3, <2>5 DEF BellInv, Bell, Read, LoadPCs, ChainPCs, OfferPCs, EarlyPCs, ConnectPCs, FinalPCs, InFlight, LatePCs
<1>17. ASSUME RingDesc, UNCHANGED <<exchangeVars, toolVars>> PROVE BellInv'
  <2>1. pc \in EarlyPCs /\ pc' \in EarlyPCs /\ UNCHANGED <<idx, linked, fileWords>>
    BY <1>17 DEF RingDesc, WriteDesc, cardVars, EarlyPCs
  <2> QED BY <2>1, BellKept
<1>18. ASSUME RingDone, UNCHANGED <<exchangeVars, toolVars>> PROVE BellInv'
  <2>1. pc \in EarlyPCs /\ pc' \in EarlyPCs /\ UNCHANGED <<idx, linked, fileWords>>
    BY <1>18 DEF RingDone, cardVars, EarlyPCs
  <2> QED BY <2>1, BellKept
<1>19. ASSUME Enable("connect"), UNCHANGED <<exchangeVars, toolVars>>
       PROVE  BellInv'
  <2>1. /\ linked' = linked
        /\ \A x \in RingIds :
             idx'[x].bell = idx[x].bell /\ (idx'[x].read = idx[x].read \/ idx'[x].read = 0)
    BY <1>19, DmaWrite DEF Enable, LoadTypeOK
  <2>2. linked => Bell(Resp0) = 0 /\ Read(Resp0) = 0
    BY <1>19 DEF Enable, BellInv, EarlyPCs
  <2>3. pc' \in EarlyPCs \cup {"connect"}
    BY <1>19 DEF Enable, EarlyPCs
  <2> QED BY <2>1, <2>2, <2>3 DEF BellInv, Bell, Read, LoadPCs, ChainPCs, OfferPCs, EarlyPCs, ConnectPCs, FinalPCs, InFlight, LatePCs
<1>20. ASSUME Connect, UNCHANGED toolVars PROVE BellInv'
  <2>1. linked' = linked /\ Placed(<<dsp, 0>>, 1)
    BY <1>20, Rung, Room DEF Connect, LoadTypeOK, ChainPCs, ConnectPCs
  <2>2. pc = "connect" /\ pc' \in {"connect", "clock"} /\ Resp0 # <<dsp, 0>>
    BY <1>20 DEF Connect, Resp0
  <2>3. linked => idx'[Resp0].bell = 0 /\ idx'[Resp0].read = 0
    BY <2>1, <2>2 DEF Placed, BellInv, Bell, Read, ConnectPCs
  <2> QED BY <2>1, <2>2, <2>3 DEF BellInv, Bell, Read, LoadPCs, ChainPCs, OfferPCs, EarlyPCs, ConnectPCs, FinalPCs, InFlight, LatePCs
<1>21. ASSUME Clock, UNCHANGED toolVars PROVE BellInv'
  <2>1. linked' = linked /\ Placed(Cmd0, 2)
    BY <1>21, Rung, Room DEF Clock, LoadTypeOK, ChainPCs, ConnectPCs
  <2>2. pc = "clock" /\ pc' = "connectPoll"
    BY <1>21 DEF Clock
  <2>3. linked => idx'[Resp0].bell = 0 /\ idx'[Resp0].read = 0 /\ idx'[Cmd0].bell = 2
    BY <2>1, <2>2 DEF Placed, BellInv, Bell, Read, ConnectPCs
  <2> QED BY <2>1, <2>2, <2>3 DEF BellInv, Bell, Read, LoadPCs, ChainPCs, OfferPCs, EarlyPCs, ConnectPCs, FinalPCs, InFlight, LatePCs
<1>22. ASSUME ConnectPoll, UNCHANGED toolVars PROVE BellInv'
  <2>1. UNCHANGED <<idx, linked, fileWords>> /\ pc = "connectPoll"
        /\ pc' \in {"connectPoll", "postResponse", "cleanup"}
        /\ (pc' = "postResponse" => ConnectsConsumed)
    BY <1>22 DEF ConnectPoll, cardVars
  <2>2. CASE pc' = "postResponse"
    <3>1. ReadIndex(<<0, 0>>) = 2
      BY <2>1, <2>2 DEF ConnectsConsumed
    <3>2. linked => idx[Cmd0].read = 2
      BY <3>1 DEF ReadIndex, Cmd0
    <3> QED BY <2>1, <2>2, <3>2 DEF BellInv, Bell, Read, LoadPCs, ChainPCs, OfferPCs, EarlyPCs, ConnectPCs, FinalPCs, InFlight, LatePCs
  <2>3. CASE pc' = "connectPoll"
    BY <2>1, <2>3, BellKept
  <2>4. CASE pc' = "cleanup"
    BY <2>4, BellElsewhere DEF Elsewhere, LatePCs
  <2> QED BY <2>1, <2>2, <2>3, <2>4
<1>23. ASSUME Post("postResponse", Resp0, ResponsePosition, "postCommand"), UNCHANGED toolVars
       PROVE  BellInv'
  <2>1. pc = "postResponse" /\ pc' = "postCommand"
    BY <1>23 DEF Post
  <2>2. linked' = linked /\ Placed(Resp0, 1)
    BY <1>23, <2>1, Rung, Room DEF Post, LoadTypeOK, ChainPCs
  <2>3. linked => /\ idx'[Resp0].bell = 1 /\ idx'[Resp0].read = 0
                  /\ idx'[Cmd0].bell = 2 /\ idx'[Cmd0].read = 2
    BY <2>1, <2>2 DEF Placed, BellInv, Bell, Read
  <2> QED BY <2>1, <2>2, <2>3 DEF BellInv, Bell, Read, LoadPCs, ChainPCs, OfferPCs, EarlyPCs, ConnectPCs, FinalPCs, InFlight, LatePCs
<1>24. ASSUME Post("postCommand", Cmd0, CommandPosition, "poll"), UNCHANGED toolVars
       PROVE  BellInv'
  <2>1. pc = "postCommand" /\ pc' = "poll" /\ CommandPosition' = CommandPosition
    BY <1>24 DEF Post, CommandPosition, PayloadPageCount
  <2>2. CommandPosition \in 4 .. Entries - 1 /\ CommandPosition \in 0 .. Entries
    BY <2>1, Room DEF ChainPCs
  <2>3. linked' = linked /\ Placed(Cmd0, CommandPosition)
    BY <1>24, <2>2, Rung DEF Post, LoadTypeOK
  <2>4. linked => /\ idx'[Resp0].bell = 1 /\ idx'[Resp0].read \in {0, 1}
                  /\ idx'[Cmd0].bell = CommandPosition /\ idx'[Cmd0].read = 2
    BY <2>1, <2>3 DEF Placed, BellInv, Bell, Read
  <2>5. 2 \in 2 .. CommandPosition
    BY <2>2
  <2> QED BY <2>1, <2>3, <2>4, <2>5 DEF BellInv, Bell, Read, LoadPCs, ChainPCs, OfferPCs, EarlyPCs, ConnectPCs, FinalPCs, InFlight, LatePCs
<1>25. ASSUME Poll PROVE BellInv'
  <2>1. pc \in OfferPCs /\ pc' \in OfferPCs /\ UNCHANGED <<idx, linked, fileWords>>
    BY <1>25 DEF Poll, PollAnswer, cardVars, OfferPCs, FinalPCs, InFlight
  <2> QED BY <2>1, BellKept
<1>26. ASSUME FinalReads PROVE BellInv'
  <2>1. pc \in OfferPCs /\ pc' \in OfferPCs /\ UNCHANGED <<idx, linked, fileWords>>
    BY <1>26 DEF FinalReads, cardVars, OfferPCs, FinalPCs, InFlight
  <2> QED BY <2>1, BellKept
<1>27. ASSUME CopyWord("readCommand"), UNCHANGED toolVars PROVE BellInv'
  <2>1. pc \in OfferPCs /\ pc' \in OfferPCs /\ UNCHANGED <<idx, linked, fileWords>>
    BY <1>27 DEF CopyWord, cardVars, OfferPCs, FinalPCs, InFlight
  <2> QED BY <2>1, BellKept
<1>28. ASSUME ReadCommand(CommandPosition), UNCHANGED toolVars PROVE BellInv'
  <2>1. pc \in OfferPCs /\ pc' \in OfferPCs /\ UNCHANGED <<idx, linked, fileWords>>
    BY <1>28 DEF ReadCommand, cardVars, OfferPCs, FinalPCs, InFlight
  <2> QED BY <2>1, BellKept
<1>29. ASSUME ReadResponse(ResponsePosition), UNCHANGED toolVars
       PROVE  BellInv'
  <2>1. pc \in OfferPCs /\ pc' \in OfferPCs /\ UNCHANGED <<idx, linked, fileWords>>
    BY <1>29 DEF ReadResponse, cardVars, OfferPCs, FinalPCs, InFlight
  <2> QED BY <2>1, BellKept
<1>30. ASSUME Judge PROVE BellInv'
  <2>1. pc' \in Elsewhere
    BY <1>30 DEF Judge, JudgeAs, Elsewhere, LatePCs
  <2> QED BY <2>1, BellElsewhere
<1>31. ASSUME CleanupEnter, UNCHANGED <<exchangeVars, toolVars>>
       PROVE  BellInv'
  <2>1. pc' \in Elsewhere
    BY <1>31 DEF CleanupEnter, Elsewhere, LatePCs
  <2> QED BY <2>1, BellElsewhere
<1>32. ASSUME CleanupInt, UNCHANGED <<exchangeVars, toolVars>> PROVE BellInv'
  <2>1. pc' \in Elsewhere
    BY <1>32 DEF CleanupInt, DisableInterrupts, Elsewhere, LatePCs
  <2> QED BY <2>1, BellElsewhere
<1>33. ASSUME CleanupReset, UNCHANGED <<exchangeVars, toolVars>>
       PROVE  BellInv'
  <2>1. pc' \in Elsewhere
    BY <1>33 DEF CleanupReset, Elsewhere, LatePCs
  <2> QED BY <2>1, BellElsewhere
<1>34. ASSUME CleanupGlobal, UNCHANGED <<exchangeVars, toolVars>>
       PROVE  BellInv'
  <2>1. pc' \in Elsewhere
    BY <1>34 DEF CleanupGlobal, Elsewhere, LatePCs
  <2> QED BY <2>1, BellElsewhere
<1>35. ASSUME CleanupClear, UNCHANGED <<exchangeVars, toolVars>>
       PROVE  BellInv'
  <2>1. pc' \in Elsewhere
    BY <1>35 DEF CleanupClear, Elsewhere, LatePCs
  <2> QED BY <2>1, BellElsewhere
<1>36. ASSUME CleanupCold, UNCHANGED <<exchangeVars, toolVars>> PROVE BellInv'
  <2>1. pc' \in Elsewhere
    BY <1>36 DEF CleanupCold, Elsewhere, LatePCs
  <2> QED BY <2>1, BellElsewhere
<1>37. ASSUME CleanupRestored, UNCHANGED <<exchangeVars, toolVars>>
       PROVE  BellInv'
  <2>1. pc' \in Elsewhere
    BY <1>37 DEF CleanupRestored, Elsewhere, LatePCs
  <2> QED BY <2>1, BellElsewhere
<1>38. ASSUME VfioReset("unmap"), UNCHANGED <<exchangeVars, toolVars>>
       PROVE  BellInv'
  <2>1. pc' \in Elsewhere
    BY <1>38 DEF VfioReset, Elsewhere, LatePCs
  <2> QED BY <2>1, BellElsewhere
<1>39. ASSUME VfioRecovered("unmap"), UNCHANGED <<exchangeVars, toolVars>>
       PROVE  BellInv'
  <2>1. pc' \in Elsewhere
    BY <1>39 DEF VfioRecovered, Elsewhere, LatePCs
  <2> QED BY <2>1, BellElsewhere
<1>40. ASSUME Release("unmap", FirstReleases, "report"), UNCHANGED <<exchangeVars, toolVars>>
       PROVE  BellInv'
  <2>1. pc' \in Elsewhere
    BY <1>40 DEF Release, Elsewhere, LatePCs
  <2> QED BY <2>1, BellElsewhere
<1>41. ASSUME ReportThen("release"), UNCHANGED toolVars PROVE BellInv'
  <2>1. pc' \in Elsewhere
    BY <1>41 DEF ReportThen, Elsewhere, LatePCs
  <2> QED BY <2>1, BellElsewhere
<1>42. ASSUME Release("release", SecondReleases, "exit"), UNCHANGED <<exchangeVars, toolVars>>
       PROVE  BellInv'
  <2>1. pc' \in Elsewhere
    BY <1>42 DEF Release, Elsewhere, LatePCs
  <2> QED BY <2>1, BellElsewhere
<1>43. ASSUME Signal, UNCHANGED <<exchangeVars, toolVars>> PROVE BellInv'
  <2>1. UNCHANGED <<pc, idx, fileWords>> /\ (linked' => linked)
    BY <1>43 DEF Signal, cardVars
  <2> QED BY <2>1, BellKept
<1>44. ASSUME Kill, UNCHANGED <<exchangeVars, toolVars>> PROVE BellInv'
  <2>1. pc' \in Elsewhere
    BY <1>44 DEF Kill, Elsewhere, LatePCs
  <2> QED BY <2>1, BellElsewhere
<1>45. ASSUME Consume, UNCHANGED toolVars PROVE BellInv'
  <2>1. PICK d \in DSPS : idx[<<d, 0>>].read # idx[<<d, 0>>].bell /\ Advance(<<d, 0>>)
    BY <1>45 DEF Consume
  <2>2. UNCHANGED <<pc, linked, fileWords>> /\ CommandPosition' = CommandPosition
    BY <1>45 DEF Consume, CommandPosition, PayloadPageCount
  <2>3. /\ \A y \in RingIds \ {<<d, 0>>} : idx'[y] = idx[y]
        /\ idx'[<<d, 0>>].bell = idx[<<d, 0>>].bell
        /\ idx'[<<d, 0>>].read = (idx[<<d, 0>>].read + 1) % Entries
    BY <2>1, Advanced DEF LoadTypeOK
  <2>4. idx'[Resp0] = idx[Resp0]
    BY <2>3 DEF Resp0
  <2>5. CASE d = 0
    <3>1. Cmd0 = <<d, 0>>
      BY <2>5 DEF Cmd0
    <3>2. linked => pc \notin {"postResponse", "postCommand"}
      BY <2>1, <3>1 DEF BellInv, Bell, Read
    <3>3. ASSUME linked, pc \in OfferPCs PROVE idx'[Cmd0].read \in 2 .. CommandPosition
      <4>1. CommandPosition \in 4 .. Entries - 1 /\ Entries \in Nat
        BY <3>3, Room, CardAssumption DEF ChainPCs
      <4>2. idx[Cmd0].read \in 2 .. CommandPosition /\ idx[Cmd0].read # CommandPosition
        BY <2>1, <3>1, <3>3 DEF BellInv, Bell, Read
      <4>3. idx[Cmd0].read + 1 \in 2 .. CommandPosition /\ idx[Cmd0].read + 1 \in 0 .. Entries - 1
        BY <4>1, <4>2
      <4> QED BY <2>3, <3>1, <4>3, SmallMod
    <3> QED BY <2>2, <2>3, <2>4, <3>1, <3>2, <3>3 DEF BellInv, Bell, Read, LoadPCs, ChainPCs, OfferPCs, EarlyPCs, ConnectPCs, FinalPCs, InFlight, LatePCs
  <2>6. CASE d # 0
    <3>1. idx'[Cmd0] = idx[Cmd0]
      BY <2>3, <2>6 DEF Cmd0
    <3> QED BY <2>2, <2>4, <3>1 DEF BellInv, Bell, Read
  <2> QED BY <2>5, <2>6
<1>46. ASSUME AnswerWord(CommandPosition), UNCHANGED toolVars PROVE BellInv'
  <2>1. UNCHANGED <<pc, idx, fileWords>> /\ (linked' => linked)
    BY <1>46 DEF AnswerWord, cardVars
  <2> QED BY <2>1, BellKept
<1>47. ASSUME AnswerDone(CommandPosition), UNCHANGED toolVars PROVE BellInv'
  <2>1. idx[Resp0].read # idx[Resp0].bell /\ Advance(Resp0)
    BY <1>47 DEF AnswerDone, Answering
  <2>2. UNCHANGED <<pc, linked, fileWords>> /\ CommandPosition' = CommandPosition
    BY <1>47 DEF AnswerDone, CommandPosition, PayloadPageCount
  <2>3. /\ idx'[Cmd0] = idx[Cmd0] /\ idx'[Resp0].bell = idx[Resp0].bell
        /\ idx'[Resp0].read = (idx[Resp0].read + 1) % Entries
    BY <2>1, Advanced DEF LoadTypeOK
  <2>4. linked => pc \notin EarlyPCs \cup ConnectPCs \cup {"postResponse"}
    BY <2>1 DEF BellInv, Bell, Read
  <2>5. ASSUME linked, pc \in {"postCommand"} \cup OfferPCs PROVE idx'[Resp0].read = 1
    <3>1. idx[Resp0].read = 0
      BY <2>1, <2>5 DEF BellInv, Bell, Read
    <3>2. CommandPosition \in 4 .. Entries - 1 /\ Entries \in Nat
      BY <2>5, Room, CardAssumption DEF ChainPCs
    <3>3. 1 \in 0 .. Entries - 1 /\ 0 + 1 = 1
      BY <3>2
    <3> QED BY <2>3, <3>1, <3>3, SmallMod
  <2> QED BY <2>2, <2>3, <2>4, <2>5 DEF BellInv, Bell, Read, LoadPCs, ChainPCs, OfferPCs, EarlyPCs, ConnectPCs, FinalPCs, InFlight, LatePCs
<1>48. ASSUME StrayWrite, UNCHANGED toolVars PROVE BellInv'
  <2>1. UNCHANGED <<pc, idx, fileWords>> /\ (linked' => linked)
    BY <1>48 DEF StrayWrite, cardVars
  <2> QED BY <2>1, BellKept
<1>49. ASSUME CardStep, UNCHANGED <<sessionVars, exchangeVars, toolVars>>
       PROVE  BellInv'
  <2>1. UNCHANGED <<pc, idx, fileWords>> /\ (linked' => linked)
    BY <1>49 DEF CardStep, ReadyFlip, LinkLoss, cardVars
  <2> QED BY <2>1, BellKept
<1>50. ASSUME UNCHANGED vars PROVE BellInv'
  <2>1. UNCHANGED <<pc, idx, fileWords>> /\ (linked' => linked)
    BY <1>50 DEF vars, cardVars
  <2> QED BY <2>1, BellKept
<1> QED
  BY <1>1, <1>2, <1>3, <1>4, <1>5, <1>6, <1>7, <1>8, <1>9, <1>10, <1>11,
     <1>12, <1>13, <1>14, <1>15, <1>16, <1>17, <1>18, <1>19, <1>20, <1>21,
     <1>22, <1>23, <1>24, <1>25, <1>26, <1>27, <1>28, <1>29, <1>30, <1>31,
     <1>32, <1>33, <1>34, <1>35, <1>36, <1>37, <1>38, <1>39, <1>40, <1>41,
     <1>42, <1>43, <1>44, <1>45, <1>46, <1>47, <1>48, <1>49, <1>50
     DEF Next, Main, Environment, OpenFirmware, LockMemory, Setup, Startup, ConnectAll,
         Submit, ReadBack, Cleanup, DeviceReset, UnmapThenReport, Disturb, CardWork

\* The steps before the wait, those after the verdict, and those of the card.
LEMMA FinalEarly ==
  ASSUME FinalInv, pc \notin LatePCs, pc' \notin EndedPCs, UNCHANGED success
  PROVE  FinalInv'
BY DEF FinalInv, EndedPCs

LEMMA FinalLate ==
  ASSUME FinalInv, pc' \in LatePCs, success' => success,
         UNCHANGED <<fileWords, final, progress, poll>>
  PROVE  FinalInv'
<1>1. CommandPosition' = CommandPosition /\ ResponsePosition' = ResponsePosition
  BY DEF CommandPosition, ResponsePosition, PayloadPageCount
<1>2. pc' \notin EndedPCs
  BY DEF LatePCs, EndedPCs, FinalPCs
<1> QED BY <1>1, <1>2 DEF FinalInv, EndedPCs

LEMMA FinalKept ==
  ASSUME FinalInv, linked' => linked,
         UNCHANGED <<pc, fileWords, success, interrupted, poll, progress, final, cmdDone>>,
         pc \in EndedPCs /\ Seen /\ linked => idx'[Cmd0] = idx[Cmd0] /\ idx'[Resp0] = idx[Resp0]
  PROVE  FinalInv'
<1>1. CommandPosition' = CommandPosition /\ ResponsePosition' = ResponsePosition
  BY DEF CommandPosition, ResponsePosition, PayloadPageCount
<1> QED BY <1>1 DEF FinalInv, Read, Seen

\* When the poll has seen the answer the indexes stay where the doorbells are,
\* so the printed reads and the reads of the verdict find them there; a card
\* lost in between fails the verdict.
LEMMA FinalStep ==
  ASSUME LoadTypeOK, ChainInv, BellInv, FinalInv, [Next]_vars PROVE FinalInv'
<1> USE Zeros DEF loopVars, flagVars, sessionVars, exchangeVars, toolVars, Goto
<1>1. ASSUME Begin PROVE FinalInv'
  BY <1>1 DEF Begin, Launch, FinalInv, EndedPCs, FinalPCs
<1>2. ASSUME Acquire("file", <<"file">>, "capacity"), UNCHANGED <<exchangeVars, toolVars>>
      PROVE  FinalInv'
  <2>1. pc \notin LatePCs /\ pc' \notin EndedPCs /\ UNCHANGED success
    BY <1>2 DEF Acquire, LatePCs, EndedPCs, FinalPCs
  <2> QED BY <2>1, FinalEarly
<1>3. ASSUME AcquireFails("file", <<"file">>), UNCHANGED <<exchangeVars, toolVars>>
      PROVE  FinalInv'
  <2>1. pc \notin LatePCs /\ pc' \notin EndedPCs /\ UNCHANGED success
    BY <1>3 DEF AcquireFails, LatePCs, EndedPCs, FinalPCs
  <2> QED BY <2>1, FinalEarly
<1>4. ASSUME Capacity PROVE FinalInv'
  <2>1. pc \notin LatePCs /\ pc' \notin EndedPCs /\ UNCHANGED success
    BY <1>4 DEF Capacity, Check, LatePCs, EndedPCs, FinalPCs
  <2> QED BY <2>1, FinalEarly
<1>5. ASSUME Acquire("memory", <<"memory">>, "read"), UNCHANGED <<exchangeVars, toolVars>>
      PROVE  FinalInv'
  <2>1. pc \notin LatePCs /\ pc' \notin EndedPCs /\ UNCHANGED success
    BY <1>5 DEF Acquire, LatePCs, EndedPCs, FinalPCs
  <2> QED BY <2>1, FinalEarly
<1>6. ASSUME AcquireFails("memory", <<"memory">>), UNCHANGED <<exchangeVars, toolVars>>
      PROVE  FinalInv'
  <2>1. pc \notin LatePCs /\ pc' \notin EndedPCs /\ UNCHANGED success
    BY <1>6 DEF AcquireFails, LatePCs, EndedPCs, FinalPCs
  <2> QED BY <2>1, FinalEarly
<1>7. ASSUME ReadFirmware PROVE FinalInv'
  <2>1. pc \notin LatePCs /\ pc' \notin EndedPCs /\ UNCHANGED success
    BY <1>7 DEF ReadFirmware, LatePCs, EndedPCs, FinalPCs
  <2> QED BY <2>1, FinalEarly
<1>8. ASSUME CheckFirmware PROVE FinalInv'
  <2>1. pc \notin LatePCs /\ pc' \notin EndedPCs /\ UNCHANGED success
    BY <1>8 DEF CheckFirmware, LatePCs, EndedPCs, FinalPCs
  <2> QED BY <2>1, FinalEarly
<1>9. ASSUME BuildChain PROVE FinalInv'
  <2>1. pc \notin LatePCs /\ pc' \notin EndedPCs /\ UNCHANGED success
    BY <1>9 DEF BuildChain, LatePCs, EndedPCs, FinalPCs
  <2> QED BY <2>1, FinalEarly
<1>10. ASSUME Acquire("setup", Host, "baseline"), UNCHANGED <<exchangeVars, toolVars>>
       PROVE  FinalInv'
  <2>1. pc \notin LatePCs /\ pc' \notin EndedPCs /\ UNCHANGED success
    BY <1>10 DEF Acquire, LatePCs, EndedPCs, FinalPCs
  <2> QED BY <2>1, FinalEarly
<1>11. ASSUME AcquireFails("setup", Host), UNCHANGED <<exchangeVars, toolVars>>
       PROVE  FinalInv'
  <2>1. pc \notin LatePCs /\ pc' \notin EndedPCs /\ UNCHANGED success
    BY <1>11 DEF AcquireFails, LatePCs, EndedPCs, FinalPCs
  <2> QED BY <2>1, FinalEarly
<1>12. ASSUME Baseline PROVE FinalInv'
  <2>1. pc \notin LatePCs /\ pc' \notin EndedPCs /\ UNCHANGED success
    BY <1>12 DEF Baseline, Check, Refuse, LatePCs, EndedPCs, FinalPCs
  <2> QED BY <2>1, FinalEarly
<1>13. ASSUME Quiesce, UNCHANGED <<exchangeVars, toolVars>> PROVE FinalInv'
  <2>1. pc \notin LatePCs /\ pc' \notin EndedPCs /\ UNCHANGED success
    BY <1>13 DEF Quiesce, DisableInterrupts, LatePCs, EndedPCs, FinalPCs
  <2> QED BY <2>1, FinalEarly
<1>14. ASSUME ResetGlobal, UNCHANGED <<exchangeVars, toolVars>>
       PROVE  FinalInv'
  <2>1. pc \notin LatePCs /\ pc' \notin EndedPCs /\ UNCHANGED success
    BY <1>14 DEF ResetGlobal, LatePCs, EndedPCs, FinalPCs
  <2> QED BY <2>1, FinalEarly
<1>15. ASSUME GlobalOnly, UNCHANGED <<exchangeVars, toolVars>> PROVE FinalInv'
  <2>1. pc \notin LatePCs /\ pc' \notin EndedPCs /\ UNCHANGED success
    BY <1>15 DEF GlobalOnly, LatePCs, EndedPCs, FinalPCs
  <2> QED BY <2>1, FinalEarly
<1>16. ASSUME RingIndex(0), UNCHANGED <<exchangeVars, toolVars>>
       PROVE  FinalInv'
  <2>1. pc \notin LatePCs /\ pc' \notin EndedPCs /\ UNCHANGED success
    BY <1>16 DEF RingIndex, LatePCs, EndedPCs, FinalPCs
  <2> QED BY <2>1, FinalEarly
<1>17. ASSUME RingDesc, UNCHANGED <<exchangeVars, toolVars>> PROVE FinalInv'
  <2>1. pc \notin LatePCs /\ pc' \notin EndedPCs /\ UNCHANGED success
    BY <1>17 DEF RingDesc, WriteDesc, LatePCs, EndedPCs, FinalPCs
  <2> QED BY <2>1, FinalEarly
<1>18. ASSUME RingDone, UNCHANGED <<exchangeVars, toolVars>> PROVE FinalInv'
  <2>1. pc \notin LatePCs /\ pc' \notin EndedPCs /\ UNCHANGED success
    BY <1>18 DEF RingDone, LatePCs, EndedPCs, FinalPCs
  <2> QED BY <2>1, FinalEarly
<1>19. ASSUME Enable("connect"), UNCHANGED <<exchangeVars, toolVars>>
       PROVE  FinalInv'
  <2>1. pc \notin LatePCs /\ pc' \notin EndedPCs /\ UNCHANGED success
    BY <1>19 DEF Enable, LatePCs, EndedPCs, FinalPCs
  <2> QED BY <2>1, FinalEarly
<1>20. ASSUME Connect, UNCHANGED toolVars PROVE FinalInv'
  <2>1. pc \notin LatePCs /\ pc' \notin EndedPCs /\ UNCHANGED success
    BY <1>20 DEF Connect, LatePCs, EndedPCs, FinalPCs
  <2> QED BY <2>1, FinalEarly
<1>21. ASSUME Clock, UNCHANGED toolVars PROVE FinalInv'
  <2>1. pc \notin LatePCs /\ pc' \notin EndedPCs /\ UNCHANGED success
    BY <1>21 DEF Clock, LatePCs, EndedPCs, FinalPCs
  <2> QED BY <2>1, FinalEarly
<1>22. ASSUME ConnectPoll, UNCHANGED toolVars PROVE FinalInv'
  <2>1. pc \notin LatePCs /\ pc' \notin EndedPCs /\ UNCHANGED success
    BY <1>22 DEF ConnectPoll, LatePCs, EndedPCs, FinalPCs
  <2> QED BY <2>1, FinalEarly
<1>23. ASSUME Post("postResponse", Resp0, ResponsePosition, "postCommand"), UNCHANGED toolVars
       PROVE  FinalInv'
  <2>1. pc \notin LatePCs /\ pc' \notin EndedPCs /\ UNCHANGED success
    BY <1>23 DEF Post, LatePCs, EndedPCs, FinalPCs
  <2> QED BY <2>1, FinalEarly
<1>24. ASSUME Post("postCommand", Cmd0, CommandPosition, "poll"), UNCHANGED toolVars
       PROVE  FinalInv'
  <2>1. pc \notin LatePCs /\ pc' \notin EndedPCs /\ UNCHANGED success
    BY <1>24 DEF Post, LatePCs, EndedPCs, FinalPCs
  <2> QED BY <2>1, FinalEarly
<1>25. ASSUME Poll PROVE FinalInv'
  <2>1. /\ pc = "poll" /\ pc' \in {"poll", "finalCommand"}
        /\ UNCHANGED <<idx, linked, fileWords, success, interrupted>>
    BY <1>25 DEF Poll, PollAnswer, cardVars
  <2>2. ~ success /\ ~ success'
    BY <2>1 DEF FinalInv, LatePCs
  <2>3. ASSUME pc' = "finalCommand", Seen', linked PROVE AnswerSeen(CommandPosition, ResponsePosition)
    <3>1. progress' = Moved
      BY <1>25 DEF Poll
    <3>2. Moved
      BY <2>3, <3>1, Zenon DEF Seen
    <3>3. poll' = poll /\ poll < Polls /\ ~ interrupted
      BY <1>25, <2>1, <2>3 DEF Poll, PollAnswer, Seen
    <3> QED BY <1>25, <2>3, <3>2, <3>3 DEF Poll, PollAnswer
  <2>4. CommandPosition' = CommandPosition /\ ResponsePosition' = ResponsePosition
    BY <2>1 DEF CommandPosition, ResponsePosition, PayloadPageCount
  <2>5. ASSUME pc' = "finalCommand", Seen', linked'
        PROVE  Read(Cmd0)' = CommandPosition' /\ Read(Resp0)' = ResponsePosition'
    BY <2>1, <2>3, <2>4, <2>5 DEF AnswerSeen, ReadIndex, Read
  <2> QED BY <2>1, <2>2, <2>5 DEF FinalInv, EndedPCs, FinalPCs
<1>26. ASSUME FinalReads PROVE FinalInv'
  <2>1. /\ pc \in FinalPCs
        /\ UNCHANGED <<idx, linked, fileWords, success, interrupted, poll, progress>>
        /\ CommandPosition' = CommandPosition /\ ResponsePosition' = ResponsePosition
    BY <1>26 DEF FinalReads, cardVars, FinalPCs, CommandPosition, ResponsePosition, PayloadPageCount
  <2>2. ~ success /\ ~ success' /\ (Seen' => Seen)
    BY <2>1 DEF FinalInv, LatePCs, FinalPCs, Seen
  <2>3. CASE pc = "finalCommand"
    <3>1. pc' = "finalResponse" /\ final'[1] = ReadIndex(Cmd0)
      BY <1>26, <2>3 DEF FinalReads, LoadTypeOK
    <3> QED BY <2>1, <2>2, <2>3, <3>1 DEF FinalInv, EndedPCs, FinalPCs, Read, ReadIndex
  <2>4. CASE pc = "finalResponse"
    <3>1. pc' = "copy" /\ final'[1] = final[1] /\ final'[2] = ReadIndex(Resp0)
      BY <1>26, <2>4 DEF FinalReads, LoadTypeOK
    <3> QED BY <2>1, <2>2, <2>4, <3>1 DEF FinalInv, EndedPCs, FinalPCs, Read, ReadIndex
  <2> QED BY <2>1, <2>3, <2>4 DEF FinalPCs
<1>27. ASSUME CopyWord("readCommand"), UNCHANGED toolVars PROVE FinalInv'
  <2>1. /\ pc = "copy" /\ pc' \in {"copy", "readCommand"}
        /\ UNCHANGED <<idx, linked, fileWords, success, interrupted, poll, progress, final, cmdDone>>
        /\ CommandPosition' = CommandPosition /\ ResponsePosition' = ResponsePosition
    BY <1>27 DEF CopyWord, cardVars, CommandPosition, ResponsePosition, PayloadPageCount
  <2> QED BY <2>1 DEF FinalInv, EndedPCs, FinalPCs, LatePCs, Read, Seen
<1>28. ASSUME ReadCommand(CommandPosition), UNCHANGED toolVars PROVE FinalInv'
  <2>1. /\ pc = "readCommand" /\ pc' = "readResponse"
        /\ UNCHANGED <<idx, linked, fileWords, success, interrupted, poll, progress, final>>
        /\ CommandPosition' = CommandPosition /\ ResponsePosition' = ResponsePosition
    BY <1>28 DEF ReadCommand, cardVars, CommandPosition, ResponsePosition, PayloadPageCount
  <2>2. cmdDone' => ReadIndex(Cmd0) = CommandPosition
    BY <1>28, Zenon DEF ReadCommand
  <2>3. CommandPosition \in 4 .. Entries - 1 /\ Entries \in Nat
    BY <2>1, Room, CardAssumption DEF ChainPCs, OfferPCs, InFlight
  <2>4. cmdDone' => linked
    BY <2>2, <2>3 DEF ReadIndex
  <2>5. ASSUME Seen, linked
        PROVE  final = <<CommandPosition, ResponsePosition>>
    <3>1. final[1] = CommandPosition /\ final[2] = ResponsePosition
      BY <2>1, <2>5 DEF FinalInv, EndedPCs, FinalPCs
    <3> QED BY <3>1 DEF LoadTypeOK
  <2> QED BY <2>1, <2>4, <2>5 DEF FinalInv, EndedPCs, FinalPCs, LatePCs, Read, Seen
<1>29. ASSUME ReadResponse(ResponsePosition), UNCHANGED toolVars
       PROVE  FinalInv'
  <2>1. /\ pc = "readResponse" /\ pc' = "judge"
        /\ UNCHANGED <<idx, linked, fileWords, success, interrupted, poll, progress, final, cmdDone>>
        /\ CommandPosition' = CommandPosition /\ ResponsePosition' = ResponsePosition
    BY <1>29 DEF ReadResponse, cardVars, CommandPosition, ResponsePosition, PayloadPageCount
  <2> QED BY <2>1 DEF FinalInv, EndedPCs, FinalPCs, LatePCs, Read, Seen
<1>30. ASSUME Judge PROVE FinalInv'
  <2>1. /\ pc = "judge" /\ pc' = "cleanup"
        /\ UNCHANGED <<fileWords, poll, progress, final>>
        /\ CommandPosition' = CommandPosition /\ ResponsePosition' = ResponsePosition
    BY <1>30 DEF Judge, JudgeAs, CommandPosition, ResponsePosition, PayloadPageCount
  <2>2. success' => ~ interrupted /\ cmdDone
    BY <1>30, Zenon DEF Judge, JudgeAs
  <2>3. ASSUME success', progress, poll < Polls
        PROVE  final = <<CommandPosition, ResponsePosition>>
    BY <2>1, <2>2, <2>3 DEF FinalInv, Seen
  <2> QED BY <2>1, <2>3 DEF FinalInv, EndedPCs, FinalPCs, LatePCs
<1>31. ASSUME CleanupEnter, UNCHANGED <<exchangeVars, toolVars>>
       PROVE  FinalInv'
  <2>1. pc' \in LatePCs /\ (success' => success) /\ UNCHANGED <<fileWords, final, progress, poll>>
    BY <1>31 DEF CleanupEnter, LatePCs
  <2> QED BY <2>1, FinalLate
<1>32. ASSUME CleanupInt, UNCHANGED <<exchangeVars, toolVars>> PROVE FinalInv'
  <2>1. pc' \in LatePCs /\ (success' => success) /\ UNCHANGED <<fileWords, final, progress, poll>>
    BY <1>32 DEF CleanupInt, DisableInterrupts, LatePCs
  <2> QED BY <2>1, FinalLate
<1>33. ASSUME CleanupReset, UNCHANGED <<exchangeVars, toolVars>>
       PROVE  FinalInv'
  <2>1. pc' \in LatePCs /\ (success' => success) /\ UNCHANGED <<fileWords, final, progress, poll>>
    BY <1>33 DEF CleanupReset, LatePCs
  <2> QED BY <2>1, FinalLate
<1>34. ASSUME CleanupGlobal, UNCHANGED <<exchangeVars, toolVars>>
       PROVE  FinalInv'
  <2>1. pc' \in LatePCs /\ (success' => success) /\ UNCHANGED <<fileWords, final, progress, poll>>
    BY <1>34 DEF CleanupGlobal, LatePCs
  <2> QED BY <2>1, FinalLate
<1>35. ASSUME CleanupClear, UNCHANGED <<exchangeVars, toolVars>>
       PROVE  FinalInv'
  <2>1. pc' \in LatePCs /\ (success' => success) /\ UNCHANGED <<fileWords, final, progress, poll>>
    BY <1>35 DEF CleanupClear, LatePCs
  <2> QED BY <2>1, FinalLate
<1>36. ASSUME CleanupCold, UNCHANGED <<exchangeVars, toolVars>>
       PROVE  FinalInv'
  <2>1. pc' \in LatePCs /\ (success' => success) /\ UNCHANGED <<fileWords, final, progress, poll>>
    BY <1>36 DEF CleanupCold, LatePCs
  <2> QED BY <2>1, FinalLate
<1>37. ASSUME CleanupRestored, UNCHANGED <<exchangeVars, toolVars>>
       PROVE  FinalInv'
  <2>1. success' => success
    BY <1>37, Zenon DEF CleanupRestored
  <2>2. pc' \in LatePCs /\ UNCHANGED <<fileWords, final, progress, poll>>
    BY <1>37 DEF CleanupRestored, LatePCs
  <2> QED BY <2>1, <2>2, FinalLate
<1>38. ASSUME VfioReset("unmap"), UNCHANGED <<exchangeVars, toolVars>>
       PROVE  FinalInv'
  <2>1. pc' \in LatePCs /\ (success' => success) /\ UNCHANGED <<fileWords, final, progress, poll>>
    BY <1>38 DEF VfioReset, LatePCs
  <2> QED BY <2>1, FinalLate
<1>39. ASSUME VfioRecovered("unmap"), UNCHANGED <<exchangeVars, toolVars>>
       PROVE  FinalInv'
  <2>1. success' => success
    BY <1>39, Zenon DEF VfioRecovered
  <2>2. pc' \in LatePCs /\ UNCHANGED <<fileWords, final, progress, poll>>
    BY <1>39 DEF VfioRecovered, LatePCs
  <2> QED BY <2>1, <2>2, FinalLate
<1>40. ASSUME Release("unmap", FirstReleases, "report"), UNCHANGED <<exchangeVars, toolVars>>
       PROVE  FinalInv'
  <2>1. pc' \in LatePCs /\ (success' => success) /\ UNCHANGED <<fileWords, final, progress, poll>>
    BY <1>40 DEF Release, LatePCs
  <2> QED BY <2>1, FinalLate
<1>41. ASSUME ReportThen("release"), UNCHANGED toolVars PROVE FinalInv'
  <2>1. pc' \in LatePCs /\ (success' => success) /\ UNCHANGED <<fileWords, final, progress, poll>>
    BY <1>41 DEF ReportThen, LatePCs
  <2> QED BY <2>1, FinalLate
<1>42. ASSUME Release("release", SecondReleases, "exit"), UNCHANGED <<exchangeVars, toolVars>>
       PROVE  FinalInv'
  <2>1. pc' \in LatePCs /\ (success' => success) /\ UNCHANGED <<fileWords, final, progress, poll>>
    BY <1>42 DEF Release, LatePCs
  <2> QED BY <2>1, FinalLate
<1>43. ASSUME Signal, UNCHANGED <<exchangeVars, toolVars>> PROVE FinalInv'
  <2>1. /\ UNCHANGED <<pc, fileWords, success, poll, progress, final>> /\ interrupted'
        /\ CommandPosition' = CommandPosition /\ ResponsePosition' = ResponsePosition
    BY <1>43 DEF Signal, CommandPosition, ResponsePosition, PayloadPageCount
  <2> QED BY <2>1 DEF FinalInv, Seen
<1>44. ASSUME Kill, UNCHANGED <<exchangeVars, toolVars>> PROVE FinalInv'
  <2>1. pc' \in LatePCs /\ (success' => success) /\ UNCHANGED <<fileWords, final, progress, poll>>
    BY <1>44 DEF Kill, LatePCs
  <2> QED BY <2>1, FinalLate
<1>45. ASSUME Consume, UNCHANGED toolVars PROVE FinalInv'
  <2>1. PICK d \in DSPS : idx[<<d, 0>>].read # idx[<<d, 0>>].bell /\ Advance(<<d, 0>>)
    BY <1>45 DEF Consume
  <2>2. \A y \in RingIds \ {<<d, 0>>} : idx'[y] = idx[y]
    BY <2>1, Advanced DEF LoadTypeOK
  <2>3. idx'[Resp0] = idx[Resp0]
    BY <2>2 DEF Resp0
  <2>4. ASSUME pc \in EndedPCs, Seen, linked PROVE idx'[Cmd0] = idx[Cmd0]
    <3>1. idx[Cmd0].read = idx[Cmd0].bell
      BY <2>4 DEF FinalInv, BellInv, Bell, Read, EndedPCs, OfferPCs, InFlight
    <3>2. Cmd0 # <<d, 0>>
      BY <2>1, <3>1
    <3> QED BY <2>2, <3>2
  <2>5. UNCHANGED <<pc, linked, fileWords, success, interrupted, poll, progress, final, cmdDone>>
    BY <1>45 DEF Consume
  <2> QED BY <2>3, <2>4, <2>5, FinalKept
<1>46. ASSUME AnswerWord(CommandPosition), UNCHANGED toolVars PROVE FinalInv'
  <2>1. /\ UNCHANGED <<pc, idx, fileWords, success, interrupted, poll, progress, final, cmdDone>>
        /\ (linked' => linked)
    BY <1>46 DEF AnswerWord, cardVars
  <2> QED BY <2>1, FinalKept
<1>47. ASSUME AnswerDone(CommandPosition), UNCHANGED toolVars PROVE FinalInv'
  <2>1. idx[Resp0].read # idx[Resp0].bell /\ Advance(Resp0)
    BY <1>47 DEF AnswerDone, Answering
  <2>2. idx'[Cmd0] = idx[Cmd0]
    BY <2>1, Advanced DEF LoadTypeOK
  <2>3. linked => ~ (pc \in EndedPCs /\ Seen)
    BY <2>1 DEF FinalInv, BellInv, Bell, Read, EndedPCs, OfferPCs, InFlight, ResponsePosition
  <2>4. UNCHANGED <<pc, linked, fileWords, success, interrupted, poll, progress, final, cmdDone>>
    BY <1>47 DEF AnswerDone
  <2> QED BY <2>2, <2>3, <2>4, FinalKept
<1>48. ASSUME StrayWrite, UNCHANGED toolVars PROVE FinalInv'
  <2>1. /\ UNCHANGED <<pc, idx, fileWords, success, interrupted, poll, progress, final, cmdDone>>
        /\ (linked' => linked)
    BY <1>48 DEF StrayWrite, cardVars
  <2> QED BY <2>1, FinalKept
<1>49. ASSUME CardStep, UNCHANGED <<sessionVars, exchangeVars, toolVars>>
       PROVE  FinalInv'
  <2>1. /\ UNCHANGED <<pc, idx, fileWords, success, interrupted, poll, progress, final, cmdDone>>
        /\ (linked' => linked)
    BY <1>49 DEF CardStep, ReadyFlip, LinkLoss, cardVars
  <2> QED BY <2>1, FinalKept
<1>50. ASSUME UNCHANGED vars PROVE FinalInv'
  <2>1. /\ UNCHANGED <<pc, idx, fileWords, success, interrupted, poll, progress, final, cmdDone>>
        /\ (linked' => linked)
    BY <1>50 DEF vars, cardVars
  <2> QED BY <2>1, FinalKept
<1> QED
  BY <1>1, <1>2, <1>3, <1>4, <1>5, <1>6, <1>7, <1>8, <1>9, <1>10, <1>11,
     <1>12, <1>13, <1>14, <1>15, <1>16, <1>17, <1>18, <1>19, <1>20, <1>21,
     <1>22, <1>23, <1>24, <1>25, <1>26, <1>27, <1>28, <1>29, <1>30, <1>31,
     <1>32, <1>33, <1>34, <1>35, <1>36, <1>37, <1>38, <1>39, <1>40, <1>41,
     <1>42, <1>43, <1>44, <1>45, <1>46, <1>47, <1>48, <1>49, <1>50
     DEF Next, Main, Environment, OpenFirmware, LockMemory, Setup, Startup, ConnectAll,
         Submit, ReadBack, Cleanup, DeviceReset, UnmapThenReport, Disturb, CardWork

\* Before the first printed index, and after the verdict, nothing that the
\* claim speaks of moves.
LEMMA PrintApart ==
  ASSUME PrintInv, linked' => linked, UNCHANGED <<fileWords, final, cmdDone, respDone>>,
         pc \notin PrintPCs, pc # "killed", pc \in LatePCs => pc' \in LatePCs
  PROVE  PrintInv'
<1>1. CommandPosition' = CommandPosition /\ ResponsePosition' = ResponsePosition
  BY DEF CommandPosition, ResponsePosition, PayloadPageCount
<1> QED BY <1>1 DEF PrintInv, PrintPCs, LatePCs

\* The process stands still, and the card does not move an index that has
\* reached its doorbell.
LEMMA PrintKept ==
  ASSUME PrintInv, linked' => linked, UNCHANGED <<pc, fileWords, final, cmdDone, respDone>>,
         pc \in PrintPCs /\ linked /\ Read(Cmd0) = CommandPosition => Read(Cmd0)' = Read(Cmd0),
         pc \in PrintPCs /\ linked /\ Read(Resp0) = ResponsePosition => Read(Resp0)' = Read(Resp0)
  PROVE  PrintInv'
<1>1. CommandPosition' = CommandPosition /\ ResponsePosition' = ResponsePosition
  BY DEF CommandPosition, ResponsePosition, PayloadPageCount
<1> QED BY <1>1 DEF PrintInv, PrintPCs

\* What the verdict reads is not behind what is printed.
LEMMA PrintStep ==
  ASSUME LoadTypeOK, BellInv, PrintInv, [Next]_vars PROVE PrintInv'
<1> USE Zeros DEF loopVars, flagVars, sessionVars, exchangeVars, toolVars, cardVars, Goto
<1>p. CommandPosition # 0 /\ ResponsePosition = 1
  BY Pages DEF LoadTypeOK, CommandPosition, ResponsePosition
<1>1. ASSUME Begin PROVE PrintInv'
  <2>1. final' = <<0, 0>> /\ CommandPosition' = CommandPosition /\ ResponsePosition' = ResponsePosition
    BY <1>1 DEF Begin, CommandPosition, ResponsePosition, PayloadPageCount
  <2> QED BY <1>p, <2>1 DEF PrintInv
<1>2. ASSUME OpenFirmware PROVE PrintInv'
  <2>1. /\ linked' = linked /\ UNCHANGED <<fileWords, final, cmdDone, respDone>>
        /\ pc \notin PrintPCs /\ pc # "killed" /\ (pc \in LatePCs => pc' \in LatePCs)
    BY <1>2 DEF OpenFirmware, Acquire, AcquireFails, PrintPCs, LatePCs
  <2> QED BY <2>1, PrintApart
<1>3. ASSUME Capacity PROVE PrintInv'
  <2>1. /\ linked' = linked /\ UNCHANGED <<fileWords, final, cmdDone, respDone>>
        /\ pc \notin PrintPCs /\ pc # "killed" /\ (pc \in LatePCs => pc' \in LatePCs)
    BY <1>3 DEF Capacity, Check, PrintPCs, LatePCs
  <2> QED BY <2>1, PrintApart
<1>4. ASSUME LockMemory PROVE PrintInv'
  <2>1. /\ linked' = linked /\ UNCHANGED <<fileWords, final, cmdDone, respDone>>
        /\ pc \notin PrintPCs /\ pc # "killed" /\ (pc \in LatePCs => pc' \in LatePCs)
    BY <1>4 DEF LockMemory, Acquire, AcquireFails, PrintPCs, LatePCs
  <2> QED BY <2>1, PrintApart
<1>5. ASSUME ReadFirmware PROVE PrintInv'
  <2>1. /\ linked' = linked /\ UNCHANGED <<fileWords, final, cmdDone, respDone>>
        /\ pc \notin PrintPCs /\ pc # "killed" /\ (pc \in LatePCs => pc' \in LatePCs)
    BY <1>5 DEF ReadFirmware, PrintPCs, LatePCs
  <2> QED BY <2>1, PrintApart
<1>6. ASSUME CheckFirmware PROVE PrintInv'
  <2>1. /\ linked' = linked /\ UNCHANGED <<fileWords, final, cmdDone, respDone>>
        /\ pc \notin PrintPCs /\ pc # "killed" /\ (pc \in LatePCs => pc' \in LatePCs)
    BY <1>6 DEF CheckFirmware, PrintPCs, LatePCs
  <2> QED BY <2>1, PrintApart
<1>7. ASSUME BuildChain PROVE PrintInv'
  <2>1. /\ linked' = linked /\ UNCHANGED <<fileWords, final, cmdDone, respDone>>
        /\ pc \notin PrintPCs /\ pc # "killed" /\ (pc \in LatePCs => pc' \in LatePCs)
    BY <1>7 DEF BuildChain, PrintPCs, LatePCs
  <2> QED BY <2>1, PrintApart
<1>8. ASSUME Setup PROVE PrintInv'
  <2>1. /\ linked' = linked /\ UNCHANGED <<fileWords, final, cmdDone, respDone>>
        /\ pc \notin PrintPCs /\ pc # "killed" /\ (pc \in LatePCs => pc' \in LatePCs)
    BY <1>8 DEF Setup, Acquire, AcquireFails, PrintPCs, LatePCs
  <2> QED BY <2>1, PrintApart
<1>9. ASSUME Baseline PROVE PrintInv'
  <2>1. /\ linked' = linked /\ UNCHANGED <<fileWords, final, cmdDone, respDone>>
        /\ pc \notin PrintPCs /\ pc # "killed" /\ (pc \in LatePCs => pc' \in LatePCs)
    BY <1>9 DEF Baseline, Check, Refuse, PrintPCs, LatePCs
  <2> QED BY <2>1, PrintApart
<1>10. ASSUME Startup PROVE PrintInv'
  <2>1. /\ linked' = linked /\ UNCHANGED <<fileWords, final, cmdDone, respDone>>
        /\ pc \notin PrintPCs /\ pc # "killed" /\ (pc \in LatePCs => pc' \in LatePCs)
    BY <1>10 DEF Startup, Quiesce, DisableInterrupts, ResetGlobal, GlobalOnly, WriteDma, RingIndex,
       WriteIndexes, RingDesc, WriteDesc, RingDone, Enable, PrintPCs, LatePCs
  <2> QED BY <2>1, PrintApart
<1>11. ASSUME ConnectAll PROVE PrintInv'
  <2>1. /\ linked' = linked /\ UNCHANGED <<fileWords, final, cmdDone, respDone>>
        /\ pc \notin PrintPCs /\ pc # "killed" /\ (pc \in LatePCs => pc' \in LatePCs)
    BY <1>11 DEF ConnectAll, Connect, Clock, Doorbell, ConnectPoll, PrintPCs, LatePCs
  <2> QED BY <2>1, PrintApart
<1>12. ASSUME Submit PROVE PrintInv'
  <2>1. /\ linked' = linked /\ UNCHANGED <<fileWords, final, cmdDone, respDone>>
        /\ pc \notin PrintPCs /\ pc # "killed" /\ (pc \in LatePCs => pc' \in LatePCs)
    BY <1>12 DEF Submit, Post, Doorbell, PrintPCs, LatePCs
  <2> QED BY <2>1, PrintApart
<1>13. ASSUME Poll PROVE PrintInv'
  <2>1. /\ linked' = linked /\ UNCHANGED <<fileWords, final, cmdDone, respDone>>
        /\ pc \notin PrintPCs /\ pc # "killed" /\ (pc \in LatePCs => pc' \in LatePCs)
    BY <1>13 DEF Poll, PollAnswer, PrintPCs, LatePCs
  <2> QED BY <2>1, PrintApart
<1>14. ASSUME FinalReads PROVE PrintInv'
  <2>1. /\ UNCHANGED <<idx, linked, cmdDone, respDone>>
        /\ CommandPosition' = CommandPosition /\ ResponsePosition' = ResponsePosition
    BY <1>14 DEF FinalReads, CommandPosition, ResponsePosition, PayloadPageCount
  <2>2. CASE pc = "finalCommand"
    <3>1. pc' = "finalResponse" /\ final'[1] = ReadIndex(Cmd0) /\ final'[2] = final[2]
      BY <1>14, <2>2 DEF FinalReads, LoadTypeOK
    <3> QED BY <2>1, <2>2, <3>1 DEF PrintInv, LatePCs, Read, ReadIndex
  <2>3. CASE pc = "finalResponse"
    <3>1. pc' = "copy" /\ final'[1] = final[1] /\ final'[2] = ReadIndex(Resp0)
      BY <1>14, <2>3 DEF FinalReads, LoadTypeOK
    <3> QED BY <2>1, <2>3, <3>1 DEF PrintInv, LatePCs, Read, ReadIndex
  <2> QED BY <1>14, <2>2, <2>3 DEF FinalReads
<1>15. ASSUME ReadBack PROVE PrintInv'
  <2>1. /\ UNCHANGED <<idx, linked, final>>
        /\ CommandPosition' = CommandPosition /\ ResponsePosition' = ResponsePosition
    BY <1>15 DEF ReadBack, CopyWord, ReadCommand, ReadResponse, CommandPosition, ResponsePosition,
       PayloadPageCount
  <2>2. CASE CopyWord("readCommand")
    <3>1. pc = "copy" /\ pc' \in {"copy", "readCommand"} /\ UNCHANGED <<cmdDone, respDone>>
      BY <2>2 DEF CopyWord
    <3> QED BY <2>1, <3>1 DEF PrintInv, LatePCs, Read
  <2>3. CASE ReadCommand(CommandPosition)
    <3>1. /\ pc = "readCommand" /\ pc' = "readResponse" /\ UNCHANGED respDone
          /\ ReadIndex(Cmd0) = CommandPosition => cmdDone'
      BY <2>3, Zenon DEF ReadCommand
    <3> QED BY <2>1, <3>1 DEF PrintInv, LatePCs, Read, ReadIndex
  <2>4. CASE ReadResponse(ResponsePosition)
    <3>1. /\ pc = "readResponse" /\ pc' = "judge" /\ UNCHANGED cmdDone
          /\ ReadIndex(Resp0) = ResponsePosition => respDone'
      BY <2>4, Zenon DEF ReadResponse
    <3> QED BY <2>1, <3>1 DEF PrintInv, LatePCs, Read, ReadIndex
  <2> QED BY <1>15, <2>2, <2>3, <2>4 DEF ReadBack
<1>16. ASSUME Judge PROVE PrintInv'
  <2>1. /\ pc = "judge" /\ pc' = "cleanup" /\ UNCHANGED <<linked, final, cmdDone, respDone>>
        /\ CommandPosition' = CommandPosition /\ ResponsePosition' = ResponsePosition
    BY <1>16 DEF Judge, JudgeAs, CommandPosition, ResponsePosition, PayloadPageCount
  <2> QED BY <2>1 DEF PrintInv, LatePCs
<1>17. ASSUME Cleanup PROVE PrintInv'
  <2>1. /\ linked' = linked /\ UNCHANGED <<fileWords, final, cmdDone, respDone>>
        /\ pc \notin PrintPCs /\ pc # "killed" /\ (pc \in LatePCs => pc' \in LatePCs)
    BY <1>17 DEF Cleanup, CleanupEnter, CleanupInt, DisableInterrupts, CleanupReset, CleanupGlobal,
       WriteDma, CleanupClear, ClearRing, CleanupCold, CleanupRestored, PrintPCs, LatePCs
  <2> QED BY <2>1, PrintApart
<1>18. ASSUME DeviceReset PROVE PrintInv'
  <2>1. /\ linked' = linked /\ UNCHANGED <<fileWords, final, cmdDone, respDone>>
        /\ pc \notin PrintPCs /\ pc # "killed" /\ (pc \in LatePCs => pc' \in LatePCs)
    BY <1>18 DEF DeviceReset, VfioReset, KernelCloses, FunctionReset, VfioRecovered, PrintPCs, LatePCs
  <2> QED BY <2>1, PrintApart
<1>19. ASSUME UnmapThenReport PROVE PrintInv'
  <2>1. /\ linked' = linked /\ UNCHANGED <<fileWords, final, cmdDone, respDone>>
        /\ pc \notin PrintPCs /\ pc # "killed" /\ (pc \in LatePCs => pc' \in LatePCs)
    BY <1>19 DEF UnmapThenReport, Release, KernelCloses, FunctionReset, ReportThen, PrintPCs, LatePCs
  <2> QED BY <2>1, PrintApart
<1>20. ASSUME Disturb, UNCHANGED toolVars PROVE PrintInv'
  <2>1. CASE Signal
    BY <1>20, <2>1, PrintKept DEF Disturb, Signal, Read
  <2>2. CASE Kill
    <3>1. pc' = "killed"
      BY <2>2 DEF Kill
    <3> QED BY <3>1 DEF PrintInv
  <2> QED BY <1>20, <2>1, <2>2 DEF Disturb
<1>21. ASSUME Consume, UNCHANGED toolVars PROVE PrintInv'
  <2>1. PICK d \in DSPS : idx[<<d, 0>>].read # idx[<<d, 0>>].bell /\ Advance(<<d, 0>>)
    BY <1>21 DEF Consume
  <2>2. \A y \in RingIds \ {<<d, 0>>} : idx'[y] = idx[y]
    BY <2>1, Advanced DEF LoadTypeOK
  <2>3. idx'[Resp0] = idx[Resp0]
    BY <2>2 DEF Resp0
  <2>4. ASSUME pc \in PrintPCs, linked, Read(Cmd0) = CommandPosition PROVE idx'[Cmd0] = idx[Cmd0]
    <3>1. idx[Cmd0].read = idx[Cmd0].bell
      BY <2>4 DEF BellInv, Bell, Read, PrintPCs, OfferPCs, InFlight, FinalPCs
    <3>2. Cmd0 # <<d, 0>>
      BY <2>1, <3>1
    <3> QED BY <2>2, <3>2
  <2>5. UNCHANGED <<pc, linked, fileWords, final, cmdDone, respDone>>
    BY <1>21 DEF Consume
  <2> QED BY <2>3, <2>4, <2>5, PrintKept DEF Read
<1>22. ASSUME AnswerDone(CommandPosition), UNCHANGED toolVars PROVE PrintInv'
  <2>1. idx[Resp0].read # idx[Resp0].bell /\ Advance(Resp0)
    BY <1>22 DEF AnswerDone, Answering
  <2>2. idx'[Cmd0] = idx[Cmd0]
    BY <2>1, Advanced DEF LoadTypeOK
  <2>3. ~ (pc \in PrintPCs /\ linked /\ Read(Resp0) = ResponsePosition)
    BY <1>p, <2>1 DEF BellInv, Bell, Read, PrintPCs, OfferPCs, InFlight, FinalPCs
  <2>4. UNCHANGED <<pc, linked, fileWords, final, cmdDone, respDone>>
    BY <1>22 DEF AnswerDone
  <2> QED BY <2>2, <2>3, <2>4, PrintKept DEF Read
<1>23. ASSUME \/ AnswerWord(CommandPosition) \/ StrayWrite
              \/ CardStep /\ UNCHANGED <<sessionVars, exchangeVars>>,
              UNCHANGED toolVars
       PROVE  PrintInv'
  <2>1. UNCHANGED <<pc, idx, fileWords, final, cmdDone, respDone>> /\ (linked' => linked)
    BY <1>23 DEF AnswerWord, StrayWrite, CardStep, ReadyFlip, LinkLoss
  <2> QED BY <2>1, PrintKept DEF Read
<1>24. ASSUME UNCHANGED vars PROVE PrintInv'
  <2>1. UNCHANGED <<pc, idx, linked, fileWords, final, cmdDone, respDone>>
    BY <1>24 DEF vars
  <2> QED BY <2>1, PrintKept DEF Read
<1> QED
  BY <1>1, <1>2, <1>3, <1>4, <1>5, <1>6, <1>7, <1>8, <1>9, <1>10, <1>11, <1>12,
     <1>13, <1>14, <1>15, <1>16, <1>17, <1>18, <1>19, <1>20, <1>21, <1>22, <1>23, <1>24
     DEF Next, Main, Environment, CardWork

----------------------------------------------------------------------------
(* The theorems about the load tool.                                       *)

LEMMA LoadInit == Init => LoadInv
<1> SUFFICES ASSUME Init PROVE LoadInv
  OBVIOUS
<1> USE DEF Init, CardInit, SessionInit, ExchangeInit
<1>1. IdxOK
  <2>1. PICK i \in {0, Entries} : idx = [x \in RingIds |-> [bell |-> 0, write |-> 0, read |-> i]]
    OBVIOUS
  <2>2. [bell |-> 0, write |-> 0, read |-> i] \in IdxWord
    BY CardAssumption DEF IdxWord
  <2> QED BY <2>1, <2>2 DEF IdxOK
<1>2. LoadTypeOK
  BY <1>1, CardAssumption, LoadAssumption DEF LoadTypeOK, LoadPCs, DSPS, RINGS
<1>3. StageInv /\ ChainInv /\ BellInv /\ FinalInv
  BY DEF StageInv, ChainInv, BellInv, FinalInv, EndedPCs, ChainPCs, OfferPCs, EarlyPCs,
         ConnectPCs, FinalPCs, InFlight
<1>4. PrintInv
  <2>1. CommandPosition # 0 /\ ResponsePosition # 0
    BY <1>2, Pages DEF LoadTypeOK, CommandPosition, ResponsePosition
  <2> QED BY <2>1 DEF PrintInv
<1> QED BY <1>2, <1>3, <1>4 DEF LoadInv

LEMMA LoadStep == LoadInv /\ [Next]_vars => LoadInv'
BY TypeStep, StageStep, ChainStep, BellStep, FinalStep, PrintStep DEF LoadInv

\* The inductive invariant of the load tool holds in every reachable state.
THEOREM LoadInductive == Spec => []LoadInv
<1> QED BY LoadInit, LoadStep, PTL DEF Spec

\* The exit status is the printed result: what follows the print in
\* vfio_runtime_load.c cannot fail the run any more.
THEOREM ReportedStatus == Spec => []ReportIsExitStatus
<1>1. LoadInv => ReportIsExitStatus
  BY DEF LoadInv, StageInv, ReportIsExitStatus
<1> QED BY <1>1, LoadInductive, PTL

\* When the poll itself saw the answer, the indexes that are printed are the
\* ones that the verdict rests on, although each is read twice; when the loop
\* gave up, what is printed is never ahead of what the verdict has read.
THEOREM PrintedIndexes == Spec => []FinalReadsAgree
<1>1. LoadInv => FinalReadsAgree
  BY DEF LoadInv, FinalInv, PrintInv, LatePCs, FinalReadsAgree
<1> QED BY <1>1, LoadInductive, PTL

----------------------------------------------------------------------------
(* The words that the chain carries.  The sum is a recursive function of   *)
(* the number of descriptors; what it computes is shown with the least     *)
(* number for which the claim would fail.                                  *)

Below == {e \in Nat \X Nat : e[1] < e[2]}

LEMMA Least == ASSUME NEW S \in SUBSET Nat, S # {}
               PROVE  \E i \in S : \A j \in S : i <= j
<1>1. IsWellFoundedOn(Below, Nat)
  BY NatLessThanWellFounded, Zenon DEF OpToRel, Below
<1>2. S \subseteq Nat
  OBVIOUS
<1>3. PICK i \in S : \A j \in S : ~ (<<j, i>> \in Below)
  BY <1>1, <1>2, WFMin, Zenon
<1>4. ASSUME NEW j \in S PROVE i <= j
  <2>1. ~ (j < i)
    BY <1>3 DEF Below
  <2> QED BY <2>1
<1> QED BY <1>4

\* Words in the first i pages.
Total(i) == IF i * PageWords < fileWords THEN i * PageWords ELSE fileWords

LEMMA TotalGrows ==
  ASSUME LoadTypeOK
  PROVE  /\ Total(0) = 0
         /\ Total(PayloadPageCount) = fileWords
         /\ \A i \in 1 .. PayloadPageCount : /\ Total(i) = Total(i - 1) + Part(i)
                                            /\ Part(i) \in 1 .. PageWords
<1>1. fileWords \in Nat \ {0} /\ PageWords \in Nat \ {0}
  BY LoadAssumption DEF LoadTypeOK
<1>2. /\ PayloadPageCount \in Nat \ {0}
      /\ (PayloadPageCount - 1) * PageWords < fileWords
      /\ fileWords <= PayloadPageCount * PageWords
  BY Pages DEF LoadTypeOK
<1> HIDE DEF PayloadPageCount
<1>3. Total(0) = 0 /\ Total(PayloadPageCount) = fileWords
  BY <1>1, <1>2 DEF Total
<1>4. ASSUME NEW i \in 1 .. PayloadPageCount
      PROVE  Total(i) = Total(i - 1) + Part(i) /\ Part(i) \in 1 .. PageWords
  <2> DEFINE low == (i - 1) * PageWords
  <2>1. i * PageWords = low + PageWords /\ low \in Nat
    BY <1>1, <1>2
  <2>2. low <= (PayloadPageCount - 1) * PageWords
    <3>1. i - 1 \in Nat /\ PayloadPageCount - 1 \in Nat /\ i - 1 <= PayloadPageCount - 1
      BY <1>2
    <3> QED BY <1>1, <3>1
  <2>3. low < fileWords
    <3>1. (PayloadPageCount - 1) * PageWords \in Int
      BY <1>1, <1>2
    <3> QED BY <1>1, <1>2, <2>1, <2>2, <3>1
  <2>4. Total(i - 1) = low
    BY <2>3 DEF Total
  <2>5. Total(i) = IF low + PageWords < fileWords THEN low + PageWords ELSE fileWords
    BY <2>1 DEF Total
  <2>6. Part(i) = IF fileWords - low > PageWords THEN PageWords ELSE fileWords - low
    BY DEF Part
  <2> HIDE DEF low
  <2> QED BY <1>1, <2>1, <2>3, <2>4, <2>5, <2>6
<1> QED BY <1>3, <1>4

\* Descriptors of one page each, and a rest in the last one, add up to the file.
LEMMA ChainSum ==
  ASSUME LoadTypeOK, chain = [i \in 1 .. PayloadPageCount |-> Part(i)]
  PROVE  Len(chain) = PayloadPageCount /\ Carried[Len(chain)] = fileWords
<1>1. PayloadPageCount \in Nat
  BY Pages DEF LoadTypeOK
<1>2. Len(chain) = PayloadPageCount /\ \A i \in 1 .. PayloadPageCount : chain[i] = Part(i)
  BY <1>1
<1> HIDE DEF PayloadPageCount
<1> DEFINE sum == [i \in 0 .. Len(chain) |-> Total(i)]
<1>3. sum = [i \in 0 .. Len(chain) |-> IF i = 0 THEN 0 ELSE sum[i - 1] + chain[i]]
  <2>1. ASSUME NEW i \in 0 .. Len(chain)
        PROVE  sum[i] = IF i = 0 THEN 0 ELSE sum[i - 1] + chain[i]
    <3>1. CASE i = 0
      BY <3>1, TotalGrows
    <3>2. CASE i # 0
      <4>1. i \in 1 .. PayloadPageCount /\ i - 1 \in 0 .. Len(chain)
        BY <1>1, <1>2, <3>2
      <4>2. Total(i) = Total(i - 1) + chain[i]
        BY <1>2, <4>1, TotalGrows
      <4> QED BY <3>2, <4>1, <4>2
    <3> QED BY <3>1, <3>2
  <2> QED BY <2>1
<1> HIDE DEF sum
<1>4. Carried = [i \in 0 .. Len(chain) |-> IF i = 0 THEN 0 ELSE Carried[i - 1] + chain[i]]
  BY <1>3 DEF Carried
<1> DEFINE Wrong == {i \in 0 .. Len(chain) : Carried[i] # Total(i)}
<1>5. Wrong = {}
  <2> SUFFICES ASSUME Wrong # {} PROVE FALSE
    OBVIOUS
  <2>1. Wrong \in SUBSET Nat
    BY <1>1, <1>2
  <2>2. PICK i \in Wrong : \A j \in Wrong : i <= j
    BY <2>1, Least
  <2>3. i # 0
    BY <1>1, <1>2, <1>4, TotalGrows
  <2>4. i \in 1 .. PayloadPageCount /\ i - 1 \in 0 .. Len(chain) /\ ~ (i <= i - 1)
    BY <1>1, <1>2, <2>3
  <2>5. Carried[i - 1] = Total(i - 1)
    BY <2>2, <2>4
  <2>6. Carried[i] = Carried[i - 1] + chain[i]
    BY <1>2, <1>4, <2>3, <2>4
  <2>7. Total(i) = Total(i - 1) + chain[i]
    BY <1>2, <2>4, TotalGrows
  <2> QED BY <2>2, <2>5, <2>6, <2>7
<1>6. Len(chain) \in 0 .. Len(chain)
  BY <1>1, <1>2
<1> QED BY <1>2, <1>5, <1>6, TotalGrows

\* The chain that vfio_runtime_load.c offers carries the whole checked file,
\* a page or less in each descriptor, and ends before the ring would wrap.
THEOREM WholeFileOffered == Spec => []ChainCarriesFile
<1>1. LoadInv => ChainCarriesFile
  <2> SUFFICES ASSUME LoadInv, pc \in OfferPCs PROVE ChainCarriesFile
    BY DEF ChainCarriesFile, OfferPCs, FinalPCs
  <2>1. /\ exact /\ done = fileWords /\ PayloadPageCount + 3 < Entries
        /\ chain = [i \in 1 .. PayloadPageCount |-> Part(i)]
    BY DEF LoadInv, ChainInv, ChainPCs
  <2>2. Len(chain) = PayloadPageCount /\ Carried[Len(chain)] = fileWords
    BY <2>1, ChainSum DEF LoadInv
  <2>3. PayloadPageCount \in Nat /\ Entries \in Nat
    BY Pages, CardAssumption DEF LoadInv, LoadTypeOK
  <2>4. \A i \in DOMAIN chain : chain[i] \in 1 .. PageWords
    BY <2>1, TotalGrows DEF LoadInv
  <2>5. linked => idx[Cmd0].bell = 3 + PayloadPageCount
    BY DEF LoadInv, BellInv, Bell, CommandPosition
  <2>6. 3 + PayloadPageCount < Entries
    BY <2>1, <2>3
  <2> QED BY <2>1, <2>2, <2>4, <2>5, <2>6 DEF ChainCarriesFile
<1> QED BY <1>1, LoadInductive, PTL

----------------------------------------------------------------------------
(* The loader probe: its payload size, what it has read of the file and    *)
(* the one buffer.                                                         *)

CONSTANTS WordBytes, PageBytes, MaxFile
VARIABLES single, size

Probe == INSTANCE LoaderRejection

\* Before the payload buffer is filled, and after the cleanup has begun.
ProbeEarly == {"idle", "file", "setup", "read"}
ProbeLate == {"cleanup", "cInt", "cReset", "cGlobal", "cClear", "cCold", "cRestored",
              "cVfioReset", "cRecovered", "report", "release", "exit", "killed"}

\* The size is that of a file that passed the size test, or of the one zero
\* word; the file is read while it is open and closed only at its last byte.
ProbeInv ==
  /\ size \in Nat /\ WordBytes <= size /\ size <= PageBytes
  /\ done \in 0 .. size
  /\ pc \in {"idle", "file"} => size = WordBytes
  /\ pc \in {"idle", "file", "setup"} => done = 0
  /\ pc \in {"setup", "read"} => "file" \in has \/ done = size \/ (done = 0 /\ size = WordBytes)
  /\ pc \notin ProbeEarly \cup ProbeLate =>
       /\ done \in {0, size} /\ (done = 0 => size = WordBytes)
       /\ single => size <= PageBytes - 2 * WordBytes

\* Steps that leave the payload alone.
LEMMA ProbeKept ==
  ASSUME ProbeInv, UNCHANGED <<size, done, single>>,
         \/ pc' \in ProbeLate
         \/ pc \notin ProbeEarly \cup ProbeLate /\ pc' \notin ProbeEarly
         \/ pc' = pc /\ (pc = "read" => has' = has)
              /\ (pc = "setup" => has \subseteq has')
         \/ pc = "setup" /\ pc' = "read" /\ has \subseteq has'
  PROVE  ProbeInv'
BY DEF ProbeInv, ProbeEarly, ProbeLate

LEMMA ProbeStep ==
  ASSUME Probe!LoaderAssumption, ProbeInv, [Probe!Next]_(Probe!vars)
  PROVE  ProbeInv'
<1> USE DEF Probe!LoaderAssumption, Probe!exchangeVars, Probe!toolVars, Probe!loopVars,
        Probe!flagVars, Probe!Goto
<1>1. ASSUME Probe!Begin PROVE ProbeInv'
  BY <1>1 DEF Probe!Begin, ProbeInv, ProbeEarly, ProbeLate
<1>2. ASSUME Probe!OpenPayload PROVE ProbeInv'
  <2>1. /\ pc = "file" /\ pc' \in {"setup", "cleanup"} /\ "file" \in has'
        /\ UNCHANGED <<single, done>>
        /\ \/ UNCHANGED size
           \/ size' \in Nat /\ WordBytes <= size' /\ size' <= PageBytes
    BY <1>2 DEF Probe!OpenPayload
  <2> QED BY <2>1 DEF ProbeInv, ProbeEarly, ProbeLate
<1>3. ASSUME Probe!ReadPayload PROVE ProbeInv'
  <2>1. /\ pc = "read" /\ UNCHANGED <<single, size>> /\ "file" \in has
        /\ \/ pc' = "read" /\ done' \in 0 .. size /\ "file" \in has'
           \/ pc' = "cleanup" /\ done' = done
           \/ pc' = "read" /\ done' = done /\ done = size
    BY <1>3 DEF Probe!ReadPayload, ProbeInv
  <2> QED BY <2>1 DEF ProbeInv, ProbeEarly, ProbeLate
<1>4. ASSUME Probe!FitBuffer PROVE ProbeInv'
  <2>1. /\ pc = "read" /\ "file" \notin has /\ UNCHANGED <<single, size, done>>
        /\ \/ pc' = "cleanup"
           \/ pc' = "setupCard" /\ (single => size <= PageBytes - 2 * WordBytes)
    BY <1>4 DEF Probe!FitBuffer, Probe!Check
  <2> QED BY <2>1 DEF ProbeInv, ProbeEarly, ProbeLate
<1>5. ASSUME Probe!OpenPayloadFails PROVE ProbeInv'
    BY <1>5, ProbeKept DEF Probe!OpenPayloadFails, Probe!AcquireFails, ProbeEarly,
         ProbeLate
<1>6. ASSUME Probe!SetupHost PROVE ProbeInv'
    BY <1>6, ProbeKept DEF Probe!SetupHost, Probe!Acquire, Probe!AcquireFails,
         ProbeEarly, ProbeLate
<1>7. ASSUME Probe!SetupCard PROVE ProbeInv'
    BY <1>7, ProbeKept DEF Probe!SetupCard, Probe!Acquire, Probe!AcquireFails,
         ProbeEarly, ProbeLate
<1>8. ASSUME Probe!Baseline PROVE ProbeInv'
  BY <1>8, ProbeKept DEF Probe!Baseline, Probe!Check, ProbeEarly, ProbeLate
<1>9. ASSUME Probe!Entry PROVE ProbeInv'
  BY <1>9, ProbeKept DEF Probe!Entry, Probe!Check, ProbeEarly, ProbeLate
<1>10. ASSUME Probe!ConnectAll PROVE ProbeInv'
    BY <1>10, ProbeKept DEF Probe!ConnectAll, Probe!Connect, Probe!Clock,
         Probe!ConnectPoll, ProbeEarly, ProbeLate
<1>11. ASSUME Probe!Submit PROVE ProbeInv'
  BY <1>11, ProbeKept DEF Probe!Submit, Probe!Post, ProbeEarly, ProbeLate
<1>12. ASSUME Probe!Poll PROVE ProbeInv'
  BY <1>12, ProbeKept DEF Probe!Poll, Probe!PollAnswer, ProbeEarly, ProbeLate
<1>13. ASSUME Probe!ReadBack PROVE ProbeInv'
    BY <1>13, ProbeKept DEF Probe!ReadBack, Probe!CopyWord, Probe!ReadCommand,
         Probe!ReadResponse, ProbeEarly, ProbeLate
<1>14. ASSUME Probe!Judge PROVE ProbeInv'
  BY <1>14, ProbeKept DEF Probe!Judge, Probe!JudgeAs, ProbeEarly, ProbeLate
<1>15. ASSUME Probe!Cleanup PROVE ProbeInv'
    BY <1>15, ProbeKept DEF Probe!Cleanup, Probe!CleanupEnter, Probe!CleanupInt,
         Probe!CleanupReset, Probe!CleanupGlobal, Probe!CleanupClear,
         Probe!CleanupCold, Probe!CleanupRestored, ProbeEarly, ProbeLate
<1>16. ASSUME Probe!DeviceReset PROVE ProbeInv'
    BY <1>16, ProbeKept DEF Probe!DeviceReset, Probe!VfioReset,
         Probe!VfioRecovered, ProbeEarly, ProbeLate
<1>17. ASSUME Probe!Report PROVE ProbeInv'
  BY <1>17, ProbeKept DEF Probe!Report, Probe!ReportThen, ProbeEarly, ProbeLate
<1>18. ASSUME Probe!ReleaseAll PROVE ProbeInv'
  BY <1>18, ProbeKept DEF Probe!ReleaseAll, Probe!Release, ProbeEarly, ProbeLate
<1>19. ASSUME Probe!Startup PROVE ProbeInv'
  BY <1>19, ProbeKept
     DEF Probe!Startup, Probe!Quiesce, Probe!ResetGlobal, Probe!GlobalOnly, Probe!RingIndex,
         Probe!RingDesc, Probe!RingDone, Probe!Enable, ProbeEarly, ProbeLate
<1>20. ASSUME Probe!Environment PROVE ProbeInv'
  <2>1. UNCHANGED <<size, done, single>> /\ (pc' = "killed" \/ UNCHANGED <<pc, has>>)
    BY <1>20 DEF Probe!Environment, Probe!Disturb, Probe!Signal, Probe!Kill, Probe!CardWork,
         Probe!Consume, Probe!AnswerWord, Probe!AnswerDone, Probe!StrayWrite, Probe!sessionVars
  <2> QED BY <2>1, ProbeKept DEF ProbeLate
<1>21. ASSUME UNCHANGED Probe!vars PROVE ProbeInv'
  BY <1>21, ProbeKept DEF Probe!vars, Probe!sessionVars
<1> QED
  BY <1>1, <1>2, <1>3, <1>4, <1>5, <1>6, <1>7, <1>8, <1>9, <1>10, <1>11,
     <1>12, <1>13, <1>14, <1>15, <1>16, <1>17, <1>18, <1>19, <1>20, <1>21
     DEF Probe!Next, Probe!Main

\* Whole words of a size fit in it.
LEMMA WholeWords ==
  ASSUME Probe!LoaderAssumption, NEW a \in Nat
  PROVE  /\ a \div WordBytes \in Nat
         /\ (a \div WordBytes) * WordBytes <= a
         /\ (a \div WordBytes + 2) * WordBytes = (a \div WordBytes) * WordBytes + 2 * WordBytes
<1> DEFINE q == a \div WordBytes
<1>1. WordBytes \in Nat \ {0}
  BY DEF Probe!LoaderAssumption
<1>2. q \in Int /\ q * WordBytes <= a /\ a < q * WordBytes + WordBytes
  BY <1>1
<1> HIDE DEF q
<1>3. q >= 0
  BY <1>1, <1>2
<1>4. (q + 2) * WordBytes = q * WordBytes + 2 * WordBytes
  BY <1>1, <1>2
<1> QED BY <1>2, <1>3, <1>4 DEF q

\* What vfio_loader_rejection.c shows to the card lies inside the page of its
\* descriptor, and a payload that comes from a file was read to its last byte.
THEOREM ProbeInPage ==
  ASSUME Probe!LoaderAssumption PROVE Probe!Spec => []Probe!OfferedInPage
<1>1. Probe!Init => ProbeInv
  BY DEF Probe!LoaderAssumption, Probe!Init, Probe!SessionInit, ProbeInv, ProbeEarly, ProbeLate
<1>2. ProbeInv /\ [Probe!Next]_(Probe!vars) => ProbeInv'
  BY ProbeStep
<1>3. ProbeInv => Probe!OfferedInPage
  <2> SUFFICES ASSUME ProbeInv, pc \in Probe!InFlight PROVE Probe!OfferedInPage
    BY DEF Probe!OfferedInPage
  <2>1. /\ size \in Nat /\ size <= PageBytes /\ WordBytes <= PageBytes
        /\ done \in {0, size} /\ (done = 0 => size = WordBytes)
        /\ (single => size <= PageBytes - 2 * WordBytes)
    BY DEF ProbeInv, ProbeEarly, ProbeLate, Probe!InFlight, Probe!LoaderAssumption
  <2> DEFINE q == size \div WordBytes
  <2>2. /\ q \in Nat /\ q * WordBytes <= size
        /\ (q + 2) * WordBytes = q * WordBytes + 2 * WordBytes
    BY <2>1, WholeWords
  <2> HIDE DEF q
  <2>3. WordBytes \in Nat /\ PageBytes \in Nat /\ q * WordBytes \in Nat /\ 0 * WordBytes = 0
        /\ 1 * WordBytes = WordBytes
    BY <2>2 DEF Probe!LoaderAssumption
  <2>4. q * WordBytes <= PageBytes /\ (single => (q + 2) * WordBytes <= PageBytes)
    BY <2>1, <2>2, <2>3
  <2>5. Probe!HeaderWords = (IF single THEN q + 2 ELSE 1)
        /\ Probe!PayloadWords = (IF single THEN 0 ELSE q)
    BY DEF Probe!HeaderWords, Probe!PayloadWords, q
  <2>6. Probe!HeaderWords * WordBytes <= PageBytes /\ Probe!PayloadWords * WordBytes <= PageBytes
    BY <2>1, <2>3, <2>4, <2>5
  <2> QED BY <2>1, <2>6 DEF Probe!OfferedInPage
<1> QED BY <1>1, <1>2, <1>3, PTL DEF Probe!Spec
=============================================================================
