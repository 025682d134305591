----------------------------- MODULE FullQuery -----------------------------
(***************************************************************************)
(* tools/vfio_full_query.c, experiments 014 to 016: after the full startup *)
(* send one query to DSP 0, optionally behind the connect sequence, poll   *)
(* for the answer, judge it, and put everything back.                      *)
(***************************************************************************)
EXTENDS VfioExchange

\* The positions up to 3 that connect mode uses are entries of a ring, which
\* has 1024.
ASSUME QueryAssumption == Entries > 3

VARIABLES
  connect,    \* connect_first
  indexes     \* the bounded hardware indexes read before the startup

toolVars == <<connect, indexes>>
vars == <<cardVars, sessionVars, exchangeVars, toolVars>>

SetupOrder ==
  <<"container", "group", "set", "memory", "dma", "device", "bar">>
ReleaseOrder ==
  <<"bar", "device", "dma", "memory", "set", "group", "container">>

\* query_command_index, command_position and response_position
QueryIndex       == IF connect THEN 2 ELSE indexes[Cmd0]
CommandPosition  == (QueryIndex + 1) % Entries
ResponsePosition == (indexes[Resp0] + 1) % Entries

Init ==
  /\ CardInit /\ SessionInit /\ ExchangeInit
  /\ connect = FALSE
  /\ indexes = [x \in RingIds |-> 0]

----------------------------------------------------------------------------
\* A usage error returns at once; a wrong page size goes to the cleanup label.
Begin ==
  /\ Launch /\ ExchangeReset
  /\ connect' \in BOOLEAN
  /\ pc' \in {"setup", "cleanup", "exit"}
  /\ indexes' = [x \in RingIds |-> 0]

Setup ==
  /\ Acquire("setup", SetupOrder, "baseline") \/ AcquireFails("setup", SetupOrder)
  /\ UNCHANGED <<exchangeVars, toolVars>>

Baseline ==
  /\ Check("baseline", ColdBaseline, "indexes")
  /\ UNCHANGED <<exchangeVars, toolVars>>

\* The indexes are read before RESET_GLOBAL and used after it.  Connect mode
\* refuses any index that is not zero; the snapshot may not be allocated.
ReadIndexes ==
  LET bounded == [x \in RingIds |->
                    IF ReadIndex(x) < Entries THEN ReadIndex(x) ELSE 0]
      zero == \A x \in RingIds : bounded[x] = 0
  IN  /\ \E allocated \in BOOLEAN :
           Check("indexes", (connect => zero) /\ allocated, "startup")
      /\ indexes' = bounded
      /\ UNCHANGED <<exchangeVars, connect>>

Startup ==
  /\ \/ Quiesce \/ ResetGlobal \/ GlobalOnly
     \/ RingIndex(indexes[<<dsp, ring>>]) \/ RingDesc \/ RingDone
     \/ Enable(IF connect THEN "connect" ELSE "postResponse")
  /\ UNCHANGED <<exchangeVars, toolVars>>

\* Mutant: the wait is left on a timeout as if the commands were consumed.
ConnectAll_Timeout ==
  /\ \/ Connect \/ Clock
     \/ /\ pc = "connectPoll"
        /\ IF poll < Polls /\ ~ interrupted /\ ~ ConnectsConsumed
           THEN poll' = poll + 1 /\ UNCHANGED pc
           ELSE poll' = 0 /\ Goto("postResponse")
        /\ UNCHANGED <<cardVars, run, n, loopVars, has, flagVars, buf, stray,
                       resp, cmdDone, respDone, reported>>
  /\ UNCHANGED toolVars

\* Mutant: a connect sequence that is not consumed leaves past the register
\* writes of the cleanup.
ConnectAll_SkipRestore ==
  /\ \/ Connect \/ Clock
     \/ /\ pc = "connectPoll"
        /\ IF poll < Polls /\ ~ interrupted
           THEN IF ConnectsConsumed THEN poll' = 0 /\ Goto("postResponse")
                                    ELSE poll' = poll + 1 /\ UNCHANGED pc
           ELSE poll' = 0 /\ Goto("cVfioReset")
        /\ UNCHANGED <<cardVars, run, n, loopVars, has, flagVars, buf, stray,
                       resp, cmdDone, respDone, reported>>
  /\ UNCHANGED toolVars

ConnectAll == (Connect \/ Clock \/ ConnectPoll) /\ UNCHANGED toolVars

\* Mutant: the two doorbells are swapped.
Submit_CommandFirst ==
  /\ \/ Post("postResponse", Cmd0, CommandPosition, "postCommand")
     \/ Post("postCommand", Resp0, ResponsePosition, "poll")
  /\ UNCHANGED toolVars

Submit ==
  /\ \/ Post("postResponse", Resp0, ResponsePosition, "postCommand")
     \/ Post("postCommand", Cmd0, CommandPosition, "poll")
  /\ UNCHANGED toolVars

\* Mutant: the loop does not count.
Poll_NoLimit ==
  /\ pc = "poll"
  /\ IF ~ interrupted /\ ~ AnswerSeen(CommandPosition, ResponsePosition)
     THEN UNCHANGED <<pc, n>>
     ELSE Goto("copy") /\ n' = 1
  /\ UNCHANGED <<cardVars, run, loopVars, has, flagVars, exchangeVars, toolVars>>

Poll ==
  /\ PollAnswer(AnswerSeen(CommandPosition, ResponsePosition), FALSE, "copy")
  /\ UNCHANGED toolVars

ReadBack ==
  /\ \/ CopyWord("readCommand")
     \/ ReadCommand(CommandPosition) \/ ReadResponse(ResponsePosition)
  /\ UNCHANGED toolVars

\* header_matches, ready_after and memory_bounded
Accepted == resp[1] = "expected" /\ AllDspsReady /\ ~ stray

\* Mutant: a matching header is taken for a complete answer.
Judge_HeaderOnly ==
  JudgeAs(~ interrupted /\ cmdDone /\ Accepted) /\ UNCHANGED toolVars

\* Mutant: the signal only ends the poll.
Judge_IgnoreSignal ==
  JudgeAs(cmdDone /\ respDone /\ Accepted) /\ UNCHANGED toolVars

Judge ==
  /\ JudgeAs(~ interrupted /\ cmdDone /\ respDone /\ Accepted)
  /\ UNCHANGED toolVars

Cleanup ==
  /\ \/ CleanupEnter \/ CleanupInt \/ CleanupReset \/ CleanupGlobal
     \/ CleanupClear \/ CleanupCold \/ CleanupRestored
  /\ UNCHANGED <<exchangeVars, toolVars>>

DeviceReset ==
  /\ VfioReset("report") \/ VfioRecovered("report")
  /\ UNCHANGED <<exchangeVars, toolVars>>

\* The result is printed before the IOVA range is unmapped.
Report == ReportThen("release") /\ UNCHANGED toolVars

ReleaseAll ==
  Release("release", ReleaseOrder, "exit") /\ UNCHANGED <<exchangeVars, toolVars>>

Environment == (Disturb \/ CardWork(CommandPosition)) /\ UNCHANGED toolVars

Main ==
  \/ Setup \/ Baseline \/ ReadIndexes \/ Startup \/ ConnectAll \/ Submit \/ Poll
  \/ ReadBack \/ Judge \/ Cleanup \/ DeviceReset \/ Report \/ ReleaseAll

Next == Begin \/ Main \/ Environment

Spec == Init /\ [][Next]_vars
FairSpec == Spec /\ WF_vars(Main)

----------------------------------------------------------------------------
\* Whenever the card can see the query it can also see the response buffer:
\* the order of the two doorbells.
ResponseOffered ==
  started /\ linked /\ idx[Cmd0].bell = CommandPosition =>
    idx[Resp0].bell = ResponsePosition

\* In connect mode the query is in flight only behind a consumed connect
\* sequence.
QueryAfterConnect == ConnectedFirst(connect)

\* A run that begins comes to its exit unless it is killed, with everything
\* it acquired given back, whether or not the card ever answers.
RunEnds == (pc \notin Stopped) ~> (pc = "killed" \/ (pc = "exit" /\ has = {}))
=============================================================================
