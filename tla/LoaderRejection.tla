-------------------------- MODULE LoaderRejection --------------------------
(***************************************************************************)
(* tools/vfio_loader_rejection.c, experiment 018: after the full startup   *)
(* and the connect sequence offer a short block, read from a file or one   *)
(* zero word, in one buffer or as a header and a payload buffer, and judge *)
(* the answer.                                                             *)
(***************************************************************************)
EXTENDS VfioExchange

CONSTANTS
  WordBytes,  \* bytes of a word (4 in the code)
  PageBytes,  \* bytes of a page (4096 in the code)
  MaxFile     \* bound on the size of the payload file

ASSUME LoaderAssumption ==
  /\ WordBytes \in Nat \ {0} /\ PageBytes \in Nat /\ WordBytes <= PageBytes
  /\ MaxFile \in Nat

VARIABLES
  single,     \* single_buffer
  size,       \* payload_size in bytes
  done        \* payload_done: bytes read from the file

toolVars == <<single, size, done>>
vars == <<cardVars, sessionVars, exchangeVars, toolVars>>

Host == <<"container", "group", "set", "memory">>
Card == <<"dma", "device", "bar">>
ReleaseOrder ==
  <<"bar", "device", "dma", "memory", "set", "group", "container", "file">>

CommandPosition  == IF single THEN 3 ELSE 4
ResponsePosition == 1

\* Words of the descriptors of the command ring behind the clock command.
HeaderWords  == IF single THEN size \div WordBytes + 2 ELSE 1
PayloadWords == IF single THEN 0 ELSE size \div WordBytes

Init ==
  /\ CardInit /\ SessionInit /\ ExchangeInit
  /\ single = FALSE /\ size = WordBytes /\ done = 0

----------------------------------------------------------------------------
\* The arguments: a usage error or a wrong page size goes to the cleanup.
Begin ==
  /\ Launch /\ ExchangeReset
  /\ single' \in BOOLEAN
  /\ pc' \in {"file", "setup", "cleanup"}
  /\ size' = WordBytes /\ done' = 0

\* The payload file is opened and its size is checked.
OpenPayload ==
  /\ pc = "file"
  /\ \E bytes \in 0 .. MaxFile :
       IF /\ bytes >= WordBytes /\ bytes <= PageBytes
          /\ bytes % WordBytes = 0
       THEN size' = bytes /\ Goto("setup")
       ELSE UNCHANGED size /\ Goto("cleanup")
  /\ has' = has \cup {"file"}
  /\ UNCHANGED <<cardVars, run, n, loopVars, flagVars, exchangeVars, single, done>>

OpenPayloadFails ==
  /\ AcquireFails("file", <<"file">>)
  /\ UNCHANGED <<exchangeVars, toolVars>>

SetupHost ==
  /\ Acquire("setup", Host, "read") \/ AcquireFails("setup", Host)
  /\ UNCHANGED <<exchangeVars, toolVars>>

\* One turn of the read loop: some bytes, an error or an early end of file;
\* after the last byte the file is closed.
ReadPayload ==
  /\ pc = "read" /\ "file" \in has
  /\ \/ /\ done < size
        /\ \E count \in 1 .. size - done : done' = done + count
        /\ UNCHANGED <<pc, has>>
     \/ done < size /\ Goto("cleanup") /\ UNCHANGED <<done, has>>
     \/ done = size /\ has' = has \ {"file"} /\ UNCHANGED <<done, pc>>
  /\ UNCHANGED <<cardVars, run, n, loopVars, flagVars, exchangeVars, single, size>>

\* Mutant: the two leading words are forgotten.
FitBuffer_WholePage ==
  /\ "file" \notin has
  /\ Check("read", single => size <= PageBytes, "setupCard")
  /\ UNCHANGED <<exchangeVars, toolVars>>

\* A single buffer also holds the command and the response class.
FitBuffer ==
  /\ "file" \notin has
  /\ Check("read", single => size <= PageBytes - 2 * WordBytes, "setupCard")
  /\ UNCHANGED <<exchangeVars, toolVars>>

SetupCard ==
  /\ \/ Acquire("setupCard", Card, "baseline")
     \/ AcquireFails("setupCard", Card)
  /\ UNCHANGED <<exchangeVars, toolVars>>

Baseline ==
  /\ Check("baseline", ColdBaseline, "entries")
  /\ UNCHANGED <<exchangeVars, toolVars>>

\* Every index must be zero, or out of range; the snapshot may fail.
Entry ==
  /\ \E allocated \in BOOLEAN :
       Check("entries", allocated /\ \A x \in RingIds :
                                       ReadIndex(x) < Entries => ReadIndex(x) = 0,
             "startup")
  /\ UNCHANGED <<exchangeVars, toolVars>>

Startup ==
  /\ \/ Quiesce \/ ResetGlobal \/ GlobalOnly
     \/ RingIndex(0) \/ RingDesc \/ RingDone \/ Enable("connect")
  /\ UNCHANGED <<exchangeVars, toolVars>>

ConnectAll == (Connect \/ Clock \/ ConnectPoll) /\ UNCHANGED toolVars

Submit ==
  /\ \/ Post("postResponse", Resp0, ResponsePosition, "postCommand")
     \/ Post("postCommand", Cmd0, CommandPosition, "poll")
  /\ UNCHANGED toolVars

Poll ==
  /\ PollAnswer(AnswerSeen(CommandPosition, ResponsePosition), FALSE, "copy")
  /\ UNCHANGED toolVars

ReadBack ==
  /\ \/ CopyWord("readCommand")
     \/ ReadCommand(CommandPosition) \/ ReadResponse(ResponsePosition)
  /\ UNCHANGED toolVars

\* response_written is read from the buffer again, after the copy.
Accepted ==
  buf[1] # "canary" /\ resp[1] = "expected" /\ AllDspsReady /\ ~ stray

Judge ==
  /\ JudgeAs(~ interrupted /\ cmdDone /\ respDone /\ Accepted)
  /\ UNCHANGED toolVars

Cleanup ==
  /\ \/ CleanupEnter \/ CleanupInt \/ CleanupReset \/ CleanupGlobal
     \/ CleanupClear \/ CleanupCold \/ CleanupRestored
  /\ UNCHANGED <<exchangeVars, toolVars>>

DeviceReset ==
  /\ VfioReset("report") \/ VfioRecovered("report")
  /\ UNCHANGED <<exchangeVars, toolVars>>

Report == ReportThen("release") /\ UNCHANGED toolVars

ReleaseAll ==
  Release("release", ReleaseOrder, "exit") /\ UNCHANGED <<exchangeVars, toolVars>>

Environment == (Disturb \/ CardWork(CommandPosition)) /\ UNCHANGED toolVars

Main ==
  \/ OpenPayload \/ OpenPayloadFails \/ SetupHost \/ ReadPayload \/ FitBuffer
  \/ SetupCard \/ Baseline \/ Entry \/ Startup \/ ConnectAll \/ Submit \/ Poll
  \/ ReadBack \/ Judge \/ Cleanup \/ DeviceReset \/ Report \/ ReleaseAll

Next == Begin \/ Main \/ Environment

Spec == Init /\ [][Next]_vars

----------------------------------------------------------------------------
\* What the card is shown lies inside the page of its descriptor and, when it
\* comes from a file, was read to its last byte: the size test, the read loop
\* and the test of the single buffer together.
OfferedInPage ==
  pc \in InFlight =>
    /\ HeaderWords * WordBytes <= PageBytes
    /\ PayloadWords * WordBytes <= PageBytes
    /\ done \in {0, size}
    /\ done = 0 => size = WordBytes
=============================================================================
