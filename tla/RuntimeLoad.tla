---------------------------- MODULE RuntimeLoad ----------------------------
(***************************************************************************)
(* tools/vfio_runtime_load.c, experiment 021: read the one accepted file   *)
(* into locked pages, chain one descriptor per page behind the connect     *)
(* sequence, offer the chain, and wait for an answer as long as the card   *)
(* makes progress.                                                         *)
(***************************************************************************)
EXTENDS VfioExchange

CONSTANTS
  MaxFileWords,  \* bound on EXPECTED_FILE_SIZE, in words
  PageWords,     \* words of a page (1024 in the code)
  NoProgress     \* NO_PROGRESS_LIMIT_MS, in polls

ASSUME LoadAssumption ==
  /\ MaxFileWords \in Nat \ {0} /\ PageWords \in Nat \ {0}
  /\ NoProgress \in 1 .. Polls

VARIABLES
  fileWords,  \* EXPECTED_FILE_SIZE of the build, in words
  done,       \* words read so far
  exact,      \* exact_file
  chain,      \* words of the payload descriptors, entry 3 onwards
  progress,   \* command_progress_seen
  final       \* final_command_read, final_response_read, as printed

toolVars == <<fileWords, done, exact, chain, progress, final>>
vars == <<cardVars, sessionVars, exchangeVars, toolVars>>

Host == <<"container", "group", "set", "dma", "device", "bar">>
\* The printed result comes after the unmapping, the memory after it.
FirstReleases  == <<"bar", "device", "dma">>
SecondReleases == <<"memory", "set", "group", "container", "file">>

PayloadPageCount == (fileWords + PageWords - 1) \div PageWords

CommandPosition  == 3 + PayloadPageCount
ResponsePosition == 1

Init ==
  /\ CardInit /\ SessionInit /\ ExchangeInit
  /\ fileWords \in 1 .. MaxFileWords
  /\ done = 0 /\ exact = FALSE /\ chain = <<>> /\ progress = FALSE
  /\ final = <<0, 0>>

----------------------------------------------------------------------------
Begin ==
  /\ Launch /\ ExchangeReset
  /\ pc' \in {"file", "cleanup"}
  /\ done' = 0 /\ exact' = FALSE /\ chain' = <<>> /\ progress' = FALSE
  /\ final' = <<0, 0>>
  /\ UNCHANGED fileWords

\* The file is opened; one that is not regular, or of another size, is
\* refused with the descriptor still open.
OpenFirmware ==
  /\ Acquire("file", <<"file">>, "capacity") \/ AcquireFails("file", <<"file">>)
  /\ UNCHANGED <<exchangeVars, toolVars>>

\* Mutant: the entries before the chain are not counted.
Capacity_ChainOnly ==
  /\ Check("capacity", PayloadPageCount < Entries, "memory")
  /\ UNCHANGED <<exchangeVars, toolVars>>

\* The whole chain must fit in one ring.
Capacity ==
  /\ Check("capacity", PayloadPageCount + 3 < Entries, "memory")
  /\ UNCHANGED <<exchangeVars, toolVars>>

LockMemory ==
  /\ \/ Acquire("memory", <<"memory">>, "read")
     \/ AcquireFails("memory", <<"memory">>)
  /\ UNCHANGED <<exchangeVars, toolVars>>

\* One turn of the read loop: some words, or an error or an early end.
ReadFirmware ==
  /\ pc = "read" /\ done < fileWords
  /\ \/ /\ \E count \in 1 .. fileWords - done : done' = done + count
        /\ UNCHANGED pc
     \/ Goto("cleanup") /\ UNCHANGED done
  /\ UNCHANGED <<cardVars, run, n, loopVars, has, flagVars, exchangeVars,
                 fileWords, exact, chain, progress, final>>

\* exact_hbut: the file is closed, then its structure is checked.
CheckFirmware ==
  /\ pc = "read" /\ done = fileWords
  /\ has' = has \ {"file"}
  /\ \E match \in BOOLEAN :
       exact' = match /\ Goto(IF match THEN "chain" ELSE "cleanup")
  /\ UNCHANGED <<cardVars, run, n, loopVars, flagVars, exchangeVars, fileWords,
                 done, chain, progress, final>>

\* One descriptor per page; the last one carries what remains.
BuildChain ==
  /\ pc = "chain"
  /\ chain' = [i \in 1 .. PayloadPageCount |->
                 LET remaining == fileWords - (i - 1) * PageWords
                 IN  IF remaining > PageWords THEN PageWords ELSE remaining]
  /\ \E allocated \in BOOLEAN : Goto(IF allocated THEN "setup" ELSE "cleanup")
  /\ UNCHANGED <<cardVars, run, n, loopVars, has, flagVars, exchangeVars,
                 fileWords, done, exact, progress, final>>

Setup ==
  /\ Acquire("setup", Host, "baseline") \/ AcquireFails("setup", Host)
  /\ UNCHANGED <<exchangeVars, toolVars>>

\* live_compatible and the cold baseline
Baseline ==
  /\ Check("baseline", ColdBaseline, "startup") \/ Refuse("baseline")
  /\ UNCHANGED <<exchangeVars, toolVars>>

Startup ==
  /\ \/ Quiesce \/ ResetGlobal \/ GlobalOnly
     \/ RingIndex(0) \/ RingDesc \/ RingDone \/ Enable("connect")
  /\ UNCHANGED <<exchangeVars, toolVars>>

ConnectAll == (Connect \/ Clock \/ ConnectPoll) /\ UNCHANGED toolVars

Submit ==
  /\ \/ Post("postResponse", Resp0, ResponsePosition, "postCommand")
     \/ Post("postCommand", Cmd0, CommandPosition, "poll")
  /\ UNCHANGED toolVars

\* command_progress_seen after one turn of the loop
Moved ==
  progress \/ (poll < Polls /\ ~ interrupted /\ ReadIndex(Cmd0) # 2)

\* Mutant: the loop does not wait for the response index.
Poll_NoResponseIndex ==
  /\ PollAnswer(ReadIndex(Cmd0) = CommandPosition /\ buf[1] # "canary",
                ~ Moved /\ poll + 1 >= NoProgress, "finalCommand")
  /\ progress' = Moved
  /\ UNCHANGED <<fileWords, done, exact, chain, final>>

\* The loop also ends when the command index has never moved from 2 within
\* the no-progress limit.
Poll ==
  /\ PollAnswer(AnswerSeen(CommandPosition, ResponsePosition),
                ~ Moved /\ poll + 1 >= NoProgress, "finalCommand")
  /\ progress' = Moved
  /\ UNCHANGED <<fileWords, done, exact, chain, final>>

\* Both indexes are read for the printed result; the verdict reads them again.
FinalReads ==
  /\ \/ pc = "finalCommand" /\ final' = [final EXCEPT ![1] = ReadIndex(Cmd0)]
                              /\ Goto("finalResponse")
     \/ pc = "finalResponse" /\ final' = [final EXCEPT ![2] = ReadIndex(Resp0)]
                              /\ Goto("copy")
  /\ UNCHANGED <<cardVars, run, n, loopVars, has, flagVars, exchangeVars,
                 fileWords, done, exact, chain, progress>>

ReadBack ==
  /\ \/ CopyWord("readCommand")
     \/ ReadCommand(CommandPosition) \/ ReadResponse(ResponsePosition)
  /\ UNCHANGED toolVars

Accepted ==
  buf[1] # "canary" /\ resp[1] = "expected" /\ AllDspsReady /\ ~ stray

Judge ==
  /\ JudgeAs(~ interrupted /\ cmdDone /\ respDone /\ Accepted)
  /\ UNCHANGED toolVars

Cleanup ==
  /\ \/ CleanupEnter \/ CleanupInt \/ CleanupReset \/ CleanupGlobal
     \/ CleanupClear \/ CleanupCold \/ CleanupRestored
  /\ UNCHANGED <<exchangeVars, toolVars>>

DeviceReset ==
  /\ VfioReset("unmap") \/ VfioRecovered("unmap")
  /\ UNCHANGED <<exchangeVars, toolVars>>

\* Mutant: the result is printed first.
UnmapThenReport_PrintFirst ==
  /\ \/ /\ pc = "unmap"
        /\ reported' = success /\ Goto("release")
        /\ UNCHANGED <<cardVars, run, n, loopVars, has, flagVars, poll, buf,
                       stray, resp, cmdDone, respDone>>
     \/ Release("release", FirstReleases \o SecondReleases, "exit")
        /\ UNCHANGED exchangeVars
  /\ UNCHANGED toolVars

UnmapThenReport ==
  /\ \/ Release("unmap", FirstReleases, "report") /\ UNCHANGED exchangeVars
     \/ ReportThen("release")
     \/ Release("release", SecondReleases, "exit") /\ UNCHANGED exchangeVars
  /\ UNCHANGED toolVars

Environment == (Disturb \/ CardWork(CommandPosition)) /\ UNCHANGED toolVars

Main ==
  \/ OpenFirmware \/ Capacity \/ LockMemory \/ ReadFirmware \/ CheckFirmware
  \/ BuildChain \/ Setup \/ Baseline \/ Startup \/ ConnectAll \/ Submit \/ Poll
  \/ FinalReads \/ ReadBack \/ Judge \/ Cleanup \/ DeviceReset \/ UnmapThenReport

Next == Begin \/ Main \/ Environment

Spec == Init /\ [][Next]_vars

----------------------------------------------------------------------------
\* Words carried by the first i descriptors of the chain.
Carried[i \in 0 .. Len(chain)] ==
  IF i = 0 THEN 0 ELSE Carried[i - 1] + chain[i]

\* The chain on offer carries the whole file, read to the end and checked, no
\* descriptor leaves its page, and it ends before the ring would wrap.
ChainCarriesFile ==
  pc \in InFlight \cup {"finalCommand", "finalResponse"} =>
    /\ exact /\ done = fileWords
    /\ Carried[Len(chain)] = fileWords
    /\ \A i \in DOMAIN chain : chain[i] \in 1 .. PageWords
    /\ idx[Cmd0].bell = 3 + Len(chain) \/ ~ linked
    /\ 3 + Len(chain) < Entries

\* The printed indexes are read before those of the verdict.  When the poll saw
\* the answer both are the positions of the command.  When the loop gave up,
\* at either limit or at a signal, the card may still answer in between: what
\* is printed may then be behind the verdict, but on a card that answers to the
\* end it is never ahead of it.
FinalReadsAgree ==
  pc = "exit" =>
    /\ success /\ progress /\ poll < Polls =>
         final = <<CommandPosition, ResponsePosition>>
    /\ linked /\ final[1] = CommandPosition => cmdDone
    /\ linked /\ final[2] = ResponsePosition => respDone

\* The printed result is the exit status: the unmapping, which may still turn
\* a success into a failure, comes before the print.
ReportIsExitStatus == pc = "exit" => reported = success
=============================================================================
