---------------------------- MODULE VfioExchange ----------------------------
(***************************************************************************)
(* What the VFIO tools that send a command share: the connect sequence,    *)
(* the two doorbells, the poll for an answer, and the reads after it.      *)
(*                                                                         *)
(* The card is any card that consumes a command after its doorbell, writes *)
(* the words of an answer one by one and moves the response index last; it *)
(* may do so at any time, late, or never.                                  *)
(***************************************************************************)
EXTENDS VfioSession

CONSTANTS
  Polls,      \* polls of one wait loop (2000 or 3000 in the code)
  RespWords   \* words of the expected response (5, 4 or 2 in the code)

ASSUME ExchangeAssumption == Polls \in Nat \ {0} /\ RespWords \in Nat \ {0}

VARIABLES
  poll,       \* counter of the wait loops
  buf,        \* the response buffer: canary, the expected word, another word
  stray,      \* memory outside the response prefix has changed
  resp,       \* response[], copied from the buffer
  cmdDone,    \* command_consumed, loader_consumed
  respDone,   \* response_consumed
  reported    \* the success line of the printed result

exchangeVars == <<poll, buf, stray, resp, cmdDone, respDone, reported>>

Words  == 1 .. RespWords
Canary == [w \in Words |-> "canary"]
Cmd0   == <<0, 0>>
Resp0  == <<0, 1>>

ExchangeInit ==
  /\ poll = 0 /\ buf = Canary /\ stray = FALSE /\ resp = Canary
  /\ cmdDone = FALSE /\ respDone = FALSE /\ reported = FALSE

ExchangeReset ==
  /\ poll' = 0 /\ buf' = Canary /\ stray' = FALSE /\ resp' = Canary
  /\ cmdDone' = FALSE /\ respDone' = FALSE /\ reported' = FALSE

----------------------------------------------------------------------------
(* The connect sequence: one command to every DSP, the clock command to    *)
(* DSP 0, and a poll until all of them are consumed.                       *)

Connect ==
  /\ pc = "connect"
  /\ Doorbell(<<dsp, 0>>, 1)
  /\ IF dsp = NDsp - 1 THEN dsp' = 0 /\ Goto("clock")
                       ELSE dsp' = dsp + 1 /\ UNCHANGED pc
  /\ UNCHANGED <<run, n, ring, toWrite, toClear, has, flagVars, exchangeVars>>

Clock ==
  /\ pc = "clock"
  /\ Doorbell(Cmd0, 2)
  /\ Goto("connectPoll")
  /\ UNCHANGED <<run, n, loopVars, has, flagVars, exchangeVars>>

ConnectsConsumed ==
  \A d \in DSPS : ReadIndex(<<d, 0>>) = (IF d = 0 THEN 2 ELSE 1)

\* One turn of the loop; both a timeout and a signal give up.
ConnectPoll ==
  /\ pc = "connectPoll"
  /\ IF poll < Polls /\ ~ interrupted
     THEN IF ConnectsConsumed THEN poll' = 0 /\ Goto("postResponse")
                              ELSE poll' = poll + 1 /\ UNCHANGED pc
     ELSE poll' = 0 /\ Goto("cleanup")
  /\ UNCHANGED <<cardVars, run, n, loopVars, has, flagVars, buf, stray, resp,
                 cmdDone, respDone, reported>>

----------------------------------------------------------------------------
(* The response buffer is offered before the command.                      *)

Post(from, x, position, next) ==
  /\ pc = from
  /\ Doorbell(x, position)
  /\ Goto(next)
  /\ UNCHANGED <<run, n, loopVars, has, flagVars, exchangeVars>>

AnswerSeen(cmdPos, respPos) ==
  /\ ReadIndex(Cmd0) = cmdPos
  /\ ReadIndex(Resp0) = respPos
  /\ buf[1] # "canary"

\* One turn of the loop; giveUp is a limit of the tool's own.
PollAnswer(seen, giveUp, next) ==
  /\ pc = "poll"
  /\ IF poll < Polls /\ ~ interrupted /\ ~ seen /\ ~ giveUp
     THEN poll' = poll + 1 /\ UNCHANGED <<pc, n>>
     ELSE UNCHANGED poll /\ Goto(next) /\ n' = 1
  /\ UNCHANGED <<cardVars, run, loopVars, has, flagVars, buf, stray, resp,
                 cmdDone, respDone, reported>>

----------------------------------------------------------------------------
(* After the loop: the words are copied one by one, then each index is     *)
(* read again, while the card goes on.                                     *)

CopyWord(next) ==
  /\ pc = "copy"
  /\ resp' = [resp EXCEPT ![n] = buf[n]]
  /\ IF n = RespWords THEN n' = 1 /\ Goto(next)
                      ELSE n' = n + 1 /\ UNCHANGED pc
  /\ UNCHANGED <<cardVars, run, loopVars, has, flagVars, poll, buf, stray,
                 cmdDone, respDone, reported>>

ReadCommand(cmdPos) ==
  /\ pc = "readCommand"
  /\ cmdDone' = (ReadIndex(Cmd0) = cmdPos)
  /\ Goto("readResponse")
  /\ UNCHANGED <<cardVars, run, n, loopVars, has, flagVars, poll, buf, stray,
                 resp, respDone, reported>>

ReadResponse(respPos) ==
  /\ pc = "readResponse"
  /\ respDone' = (ReadIndex(Resp0) = respPos)
  /\ Goto("judge")
  /\ UNCHANGED <<cardVars, run, n, loopVars, has, flagVars, poll, buf, stray,
                 resp, cmdDone, reported>>

JudgeAs(verdict) ==
  /\ pc = "judge"
  /\ success' = verdict
  /\ Goto("cleanup")
  /\ UNCHANGED <<cardVars, run, n, loopVars, has, interrupted, started,
                 exchangeVars>>

ReportThen(next) ==
  /\ pc = "report"
  /\ reported' = success
  /\ Goto(next)
  /\ UNCHANGED <<cardVars, run, n, loopVars, has, flagVars, poll, buf, stray,
                 resp, cmdDone, respDone>>

----------------------------------------------------------------------------
(* The card at work on the rings.                                          *)

Working(d) == EngineLive(d) /\ "dma" \in has

Advance(x) == idx' = [idx EXCEPT ![x].read = (@ + 1) % Entries]

\* It consumes one entry of a command ring.
Consume ==
  /\ \E d \in DSPS : /\ Working(d) /\ idx[<<d, 0>>].read # idx[<<d, 0>>].bell
                     /\ Advance(<<d, 0>>)
  /\ UNCHANGED <<dmaCtl, desc, ready, intEn, linked, sessionVars, exchangeVars>>

\* The command has been consumed and its response buffer is offered.
Answering(cmdPos) ==
  /\ Working(0)
  /\ idx[Cmd0].read = cmdPos /\ idx[Cmd0].bell = cmdPos
  /\ idx[Resp0].read # idx[Resp0].bell

\* Only the header is ever compared with what was expected.
AnswerWord(cmdPos) ==
  /\ Answering(cmdPos)
  /\ \E w \in Words, v \in {"expected", "other"} :
       /\ buf[w] = "canary" /\ (v = "other" => w = 1)
       /\ buf' = [buf EXCEPT ![w] = v]
  /\ UNCHANGED <<cardVars, sessionVars, poll, stray, resp, cmdDone, respDone,
                 reported>>

AnswerDone(cmdPos) ==
  /\ Answering(cmdPos) /\ \A w \in Words : buf[w] # "canary"
  /\ Advance(Resp0)
  /\ UNCHANGED <<dmaCtl, desc, ready, intEn, linked, sessionVars, exchangeVars>>

StrayWrite ==
  /\ \E d \in DSPS : Working(d)
  /\ ~ stray /\ stray' = TRUE
  /\ UNCHANGED <<cardVars, sessionVars, poll, buf, resp, cmdDone, respDone,
                 reported>>

CardWork(cmdPos) ==
  \/ Consume \/ AnswerWord(cmdPos) \/ AnswerDone(cmdPos) \/ StrayWrite
  \/ CardStep /\ UNCHANGED <<sessionVars, exchangeVars>>

Disturb == (Signal \/ Kill) /\ UNCHANGED exchangeVars

----------------------------------------------------------------------------
InFlight == {"poll", "copy", "readCommand", "readResponse", "judge"}

\* A command is in flight behind the connect sequence only after every DSP has
\* consumed its connect command and DSP 0 its clock command.
ConnectedFirst(connecting) ==
  connecting /\ pc \in InFlight /\ linked =>
    \A d \in DSPS : idx[<<d, 0>>].read >= (IF d = 0 THEN 2 ELSE 1)

\* A success means that the card wrote the whole answer, although the code
\* looks at the header, at two indexes and at nothing else, and reads each at
\* another time than the copy.
SuccessIsAnswered ==
  pc = "exit" /\ success =>
    resp[1] = "expected" /\ \A w \in Words : buf[w] # "canary"

\* A success whose poll loop did not run out has copied no stale word: the
\* loop ended because it saw the answer, or at a signal, which the verdict
\* refuses.  Only an answer that comes after the last poll can be copied in
\* part.
PolledAnswerIsWhole ==
  pc = "exit" /\ success /\ poll < Polls => resp = buf
=============================================================================
