------------------------------- MODULE Bench -------------------------------
(***************************************************************************)
(* The bench on which the small VFIO experiments are run one after the     *)
(* other, in any order, on one card: each process is any of the tools, and *)
(* the next one finds the card as the last one left it, by its exit, by    *)
(* die() or by being killed.                                               *)
(***************************************************************************)
EXTENDS VfioExchange, Dsp0Steps

\* The positions of an empty ring and of one entry differ (1024 in the code).
ASSUME BenchAssumption == Entries > 1

VARIABLES
  tool,      \* the tool of the current or last process
  gates,     \* options and observations of the tools, see their modules
  mode, changed, indexes, target, exact, kind

Query       == INSTANCE Dsp0Query
Descriptors == INSTANCE RingDescriptors
Official    == INSTANCE OfficialRingInit
Control     == INSTANCE RingControl
Recovery    == INSTANCE ResetRecovery
Reader      == INSTANCE ReadOnlyTools

toolVars == <<modified, gates, mode, changed, indexes, target, exact, kind>>
vars == <<cardVars, sessionVars, exchangeVars, toolVars, tool>>

\* Variables of the tools that a step of one tool leaves alone.
NotOfQuery       == <<mode, changed, indexes, target, exact, kind>>
NotOfDescriptors == <<exchangeVars, gates, indexes, target, exact, kind>>
NotOfOfficial    == <<exchangeVars, modified, gates, mode, target, exact, kind>>
NotOfControl     == <<exchangeVars, modified, gates, mode, changed, indexes, kind>>
NotOfRecovery    == <<buf, stray, resp, cmdDone, respDone, reported, toolVars>>
NotOfReader      == <<exchangeVars, modified, gates, mode, indexes, target, exact>>

Init ==
  /\ Query!Init /\ Descriptors!Init /\ Official!Init
  /\ Control!Init /\ Recovery!Init /\ Reader!Init
  /\ tool = "query"

----------------------------------------------------------------------------
(* A process starts with fresh memory: what the other tools left in their  *)
(* variables is gone.                                                      *)

NoQuery       == ExchangeReset /\ gates' = FALSE
NoFlags       == modified' = {}
NoDescriptors == mode' = "001"
NoPage        == changed' = FALSE
NoOfficial    == indexes' = [r \in RINGS |-> 0]
NoControl     == target' = "bell" /\ exact' = FALSE
NoReader      == kind' = "status"
NoAnswer      == /\ buf' = Canary /\ stray' = FALSE /\ resp' = Canary
                 /\ cmdDone' = FALSE /\ respDone' = FALSE /\ reported' = FALSE
                 /\ gates' = FALSE

Begin ==
  \/ /\ tool' = "query" /\ Query!Begin
     /\ NoDescriptors /\ NoPage /\ NoOfficial /\ NoControl /\ NoReader
  \/ /\ tool' = "descriptors" /\ Descriptors!Begin
     /\ NoQuery /\ NoOfficial /\ NoControl /\ NoReader
  \/ /\ tool' = "official" /\ Official!Begin
     /\ NoQuery /\ NoFlags /\ NoDescriptors /\ NoControl /\ NoReader
  \/ /\ tool' = "control" /\ Control!Begin
     /\ NoQuery /\ NoFlags /\ NoDescriptors /\ NoPage /\ NoOfficial /\ NoReader
  \/ /\ tool' = "recovery" /\ Recovery!Begin
     /\ NoAnswer /\ NoFlags /\ NoDescriptors /\ NoPage /\ NoOfficial
     /\ NoControl /\ NoReader
  \/ /\ tool' = "reader" /\ Reader!Begin
     /\ NoQuery /\ NoFlags /\ NoDescriptors /\ NoOfficial /\ NoControl

\* The process goes on, or something happens to it or to the card.
Go ==
  /\ \/ /\ tool = "query" /\ (Query!Main \/ Query!Environment)
        /\ UNCHANGED NotOfQuery
     \/ /\ tool = "descriptors" /\ (Descriptors!Main \/ Descriptors!Environment)
        /\ UNCHANGED NotOfDescriptors
     \/ /\ tool = "official" /\ (Official!Main \/ Official!Environment)
        /\ UNCHANGED NotOfOfficial
     \/ /\ tool = "control" /\ (Control!Main \/ Control!Environment)
        /\ UNCHANGED NotOfControl
     \/ /\ tool = "recovery" /\ (Recovery!Main \/ Recovery!Environment)
        /\ UNCHANGED NotOfRecovery
     \/ /\ tool = "reader" /\ (Reader!Main \/ Reader!Environment)
        /\ UNCHANGED NotOfReader
  /\ UNCHANGED tool

Next == Begin \/ Go

Spec == Init /\ [][Next]_vars

----------------------------------------------------------------------------
\* Experiment 001 is the only one that does not look at the control register.
In001 == tool = "descriptors" /\ mode = "001"

\* However a run that uses the control register ended, a signal, a failed check
\* or die() included, a card that still answers is cold with no descriptor.
BenchExitCold == ~ In001 => ExitLeavesCold

\* docs/experiment-methodology.md: "For DMA experiments, cleanup first
\* reasserts cold DMA control": no tool clears a ring word before it.
BenchColdFirst ==
  [][(~ In001 /\ started /\ pc = "cClear" /\ pc' # "killed"
        /\ <<desc, idx>>' # <<desc, idx>>) => dmaCtl = COLD_RESET]_vars

\* Between the enabling of an engine and the first index of the run itself.
JustEnabled == {"enableRead", "gates", "gatesRead", "zeroControls", "oneEntry",
                "postResponse"}

\* An engine is started over empty rings: an index word that a killed run of
\* any tool left in the card, the probe word of experiments 005 and 006
\* included, never reaches a run that enables an engine.
EngineStartsEmpty ==
  \A x \in RingIds : EngineLive(x[1]) /\ pc \in JustEnabled =>
    idx[x] = [bell |-> 0, write |-> 0, read |-> 0]

\* Properties of the single tools, under any history of runs.
AnswerInTime  == tool = "query" => Query!AnswerInTime
NoEngineIn001 == tool = "descriptors" => Descriptors!NoEngineIn001
=============================================================================
