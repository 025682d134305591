------------------------ MODULE TransportTestProofs ------------------------
(***************************************************************************)
(* What the runs of TransportTest check for three DSPs, proved for any     *)
(* number: the script is followed line by line, with what every line it    *)
(* has passed under set -e has established.                                *)
(***************************************************************************)
EXTENDS TransportTest, SequenceTheorems, TLAPS

CtlLines == {"info", "status", "start", "stop", "reset"}
Lines == CtlLines \cup {"checks", "insmod", "LOADED=1", "node", "STARTED=1",
                        "STARTED=0", "rmmod", "LOADED=0", "unbound"}

Before == <<"checks", "insmod", "LOADED=1", "node", "info", "status",
            "start", "STARTED=1", "info", "status">>
Loop == [i \in 1 .. NDsp |-> "reset"]
After == <<"status", "stop", "STARTED=0", "info", "status",
           "rmmod", "LOADED=0", "unbound">>

\* The lines from the k-th on.
Rest(k) == SubSeq(Script, k, Len(Script))

\* Both parts of a concatenation.
LEMMA Joined ==
  ASSUME NEW S, NEW p \in Seq(S), NEW q \in Seq(S)
  PROVE  /\ p \o q \in Seq(S) /\ Len(p \o q) = Len(p) + Len(q)
         /\ \A i \in 1 .. Len(p) : (p \o q)[i] = p[i]
         /\ \A j \in 1 .. Len(q) : (p \o q)[Len(p) + j] = q[j]
<1>1. Len(p) \in Nat /\ Len(q) \in Nat
  BY LenProperties
<1>2. /\ p \o q \in Seq(S) /\ Len(p \o q) = Len(p) + Len(q)
      /\ \A i \in 1 .. Len(p) + Len(q) :
           (p \o q)[i] = IF i <= Len(p) THEN p[i] ELSE q[i - Len(p)]
  BY ConcatProperties
<1>3. \A i \in 1 .. Len(p) : (p \o q)[i] = p[i]
  BY <1>1, <1>2
<1>4. ASSUME NEW j \in 1 .. Len(q) PROVE (p \o q)[Len(p) + j] = q[j]
  <2>1. /\ Len(p) + j \in 1 .. Len(p) + Len(q) /\ ~ (Len(p) + j <= Len(p))
        /\ (Len(p) + j) - Len(p) = j
    BY <1>1
  <2> QED BY <1>2, <2>1
<1> QED BY <1>2, <1>3, <1>4

\* The number of a line, where it occurs once, and the lines of the loop.
LEMMA ScriptLines ==
  /\ Script \in Seq(Lines) /\ Len(Script) = NDsp + 18
  /\ Script[1] = "checks" /\ Script[2] = "insmod" /\ Script[3] = "LOADED=1"
  /\ Script[4] = "node" /\ Script[5] = "info" /\ Script[6] = "status"
  /\ Script[7] = "start" /\ Script[8] = "STARTED=1" /\ Script[9] = "info"
  /\ Script[10] = "status"
  /\ \A k \in 11 .. NDsp + 10 : Script[k] = "reset"
  /\ Script[NDsp + 11] = "status" /\ Script[NDsp + 12] = "stop"
  /\ Script[NDsp + 13] = "STARTED=0" /\ Script[NDsp + 14] = "info"
  /\ Script[NDsp + 15] = "status" /\ Script[NDsp + 16] = "rmmod"
  /\ Script[NDsp + 17] = "LOADED=0" /\ Script[NDsp + 18] = "unbound"
<1>1. /\ Before \in Seq(Lines) /\ Len(Before) = 10
  BY DEF Before, Lines, CtlLines
<1>2. /\ Loop \in Seq(Lines) /\ Len(Loop) = NDsp
      /\ \A i \in 1 .. NDsp : Loop[i] = "reset"
  BY NDspPositive DEF Loop, Lines, CtlLines
<1>3. /\ After \in Seq(Lines) /\ Len(After) = 8
  BY DEF After, Lines, CtlLines
<1> DEFINE Middle == Before \o Loop
<1>4. /\ Middle \in Seq(Lines) /\ Len(Middle) = 10 + NDsp
      /\ \A i \in 1 .. 10 : Middle[i] = Before[i]
      /\ \A i \in 1 .. NDsp : Middle[10 + i] = Loop[i]
  <2>1. /\ Middle \in Seq(Lines) /\ Len(Middle) = Len(Before) + Len(Loop)
        /\ \A i \in 1 .. Len(Before) : Middle[i] = Before[i]
        /\ \A j \in 1 .. Len(Loop) : Middle[Len(Before) + j] = Loop[j]
    <3>1. Before \in Seq(Lines) /\ Loop \in Seq(Lines)
      BY <1>1, <1>2
    <3> HIDE DEF Middle
    <3>2. Middle = Before \o Loop
      BY DEF Middle
    <3> QED BY <3>1, <3>2, Joined
  <2> QED BY <1>1, <1>2, <2>1
<1>5. Script = Middle \o After
  BY DEF Script, Before, Loop, After
<1> HIDE DEF Middle
<1>6. /\ Script \in Seq(Lines) /\ Len(Script) = (10 + NDsp) + 8
      /\ \A i \in 1 .. 10 + NDsp : Script[i] = Middle[i]
      /\ \A j \in 1 .. 8 : Script[(10 + NDsp) + j] = After[j]
  <2>1. /\ Script \in Seq(Lines) /\ Len(Script) = Len(Middle) + Len(After)
        /\ \A i \in 1 .. Len(Middle) : Script[i] = Middle[i]
        /\ \A j \in 1 .. Len(After) : Script[Len(Middle) + j] = After[j]
    <3>1. Middle \in Seq(Lines) /\ After \in Seq(Lines)
      BY <1>3, <1>4
    <3> QED BY <3>1, <1>5, Joined
  <2> QED BY <1>3, <1>4, <2>1
<1>7. \A i \in 1 .. 10 : Script[i] = Before[i]
  BY <1>4, <1>6, NDspPositive
<1>8. \A k \in 11 .. NDsp + 10 : Script[k] = "reset"
  <2> SUFFICES ASSUME NEW k \in 11 .. NDsp + 10 PROVE Script[k] = "reset"
    OBVIOUS
  <2>1. k - 10 \in 1 .. NDsp /\ 10 + (k - 10) = k /\ k \in 1 .. 10 + NDsp
    BY NDspPositive
  <2>2. Middle[k] = Loop[k - 10]
    BY <1>4, <2>1
  <2> QED BY <1>2, <1>6, <2>1, <2>2
<1>10. /\ Script[1] = "checks" /\ Script[2] = "insmod" /\ Script[3] = "LOADED=1"
       /\ Script[4] = "node" /\ Script[5] = "info" /\ Script[6] = "status"
       /\ Script[7] = "start" /\ Script[8] = "STARTED=1" /\ Script[9] = "info"
       /\ Script[10] = "status"
  BY <1>7 DEF Before
<1>11. /\ After[1] = "status" /\ After[2] = "stop" /\ After[3] = "STARTED=0"
       /\ After[4] = "info" /\ After[5] = "status" /\ After[6] = "rmmod"
       /\ After[7] = "LOADED=0" /\ After[8] = "unbound"
  BY DEF After
<1>12. /\ (10 + NDsp) + 1 = NDsp + 11 /\ (10 + NDsp) + 2 = NDsp + 12
       /\ (10 + NDsp) + 3 = NDsp + 13 /\ (10 + NDsp) + 4 = NDsp + 14
       /\ (10 + NDsp) + 5 = NDsp + 15 /\ (10 + NDsp) + 6 = NDsp + 16
       /\ (10 + NDsp) + 7 = NDsp + 17 /\ (10 + NDsp) + 8 = NDsp + 18
  BY NDspPositive
<1>13. /\ Script[NDsp + 11] = "status" /\ Script[NDsp + 12] = "stop"
       /\ Script[NDsp + 13] = "STARTED=0" /\ Script[NDsp + 14] = "info"
       /\ Script[NDsp + 15] = "status" /\ Script[NDsp + 16] = "rmmod"
       /\ Script[NDsp + 17] = "LOADED=0" /\ Script[NDsp + 18] = "unbound"
  <2>1. /\ Script[(10 + NDsp) + 1] = After[1] /\ Script[(10 + NDsp) + 2] = After[2]
        /\ Script[(10 + NDsp) + 3] = After[3] /\ Script[(10 + NDsp) + 4] = After[4]
        /\ Script[(10 + NDsp) + 5] = After[5] /\ Script[(10 + NDsp) + 6] = After[6]
        /\ Script[(10 + NDsp) + 7] = After[7] /\ Script[(10 + NDsp) + 8] = After[8]
    BY <1>6
  <2> QED BY <1>11, <1>12, <2>1
<1>14. Len(Script) = NDsp + 18
  BY <1>6, NDspPositive
<1> QED BY <1>6, <1>8, <1>10, <1>13, <1>14

\* Which line a command of the script is.
LEMMA LineNumber ==
  ASSUME NEW k \in 1 .. NDsp + 18
  PROVE  /\ Script[k] = "checks" => k = 1
         /\ Script[k] = "insmod" => k = 2
         /\ Script[k] = "LOADED=1" => k = 3
         /\ Script[k] = "node" => k = 4
         /\ Script[k] = "start" => k = 7
         /\ Script[k] = "STARTED=1" => k = 8
         /\ Script[k] = "reset" => k \in 11 .. NDsp + 10
         /\ Script[k] = "stop" => k = NDsp + 12
         /\ Script[k] = "STARTED=0" => k = NDsp + 13
         /\ Script[k] = "rmmod" => k = NDsp + 16
         /\ Script[k] = "LOADED=0" => k = NDsp + 17
         /\ Script[k] = "unbound" => k = NDsp + 18
         /\ k \in 11 .. NDsp + 10 => Script[k] = "reset"
<1>1. CASE k \in 1 .. 10
  <2>1. \/ k = 1 \/ k = 2 \/ k = 3 \/ k = 4 \/ k = 5 \/ k = 6 \/ k = 7 \/ k = 8
        \/ k = 9 \/ k = 10
    BY <1>1
  <2> QED BY <2>1, ScriptLines, NDspPositive
<1>2. CASE k \in 11 .. NDsp + 10
  BY <1>2, ScriptLines, NDspPositive
<1>3. CASE k \in NDsp + 11 .. NDsp + 18
  <2>1. \/ k = NDsp + 11 \/ k = NDsp + 12 \/ k = NDsp + 13 \/ k = NDsp + 14
        \/ k = NDsp + 15 \/ k = NDsp + 16 \/ k = NDsp + 17 \/ k = NDsp + 18
    BY <1>3, NDspPositive
  <2> QED BY <2>1, ScriptLines, NDspPositive
<1> QED BY <1>1, <1>2, <1>3, NDspPositive

\* What a step of the shell does to the lines that are left.
LEMMA RestLines ==
  /\ Rest(1) = Script
  /\ Rest(NDsp + 19) = <<>>
  /\ \A k \in 1 .. NDsp + 18 :
       Rest(k) # <<>> /\ Head(Rest(k)) = Script[k] /\ Tail(Rest(k)) = Rest(k + 1)
<1>1. Script \in Seq(Lines) /\ Len(Script) = NDsp + 18
  BY ScriptLines
<1>2. Rest(1) = Script
  <2>1. Rest(1) \in Seq(Lines) /\ Len(Rest(1)) = Len(Script)
    BY <1>1, NDspPositive DEF Rest
  <2>2. \A i \in 1 .. Len(Script) : Rest(1)[i] = Script[i]
    BY <1>1, NDspPositive DEF Rest
  <2> QED BY <1>1, <2>1, <2>2, SeqEqual
<1>3. Rest(NDsp + 19) = <<>>
  BY <1>1, NDspPositive DEF Rest
<1>4. ASSUME NEW k \in 1 .. NDsp + 18
      PROVE  Rest(k) # <<>> /\ Head(Rest(k)) = Script[k] /\ Tail(Rest(k)) = Rest(k + 1)
  <2>1. /\ Rest(k) \in Seq(Lines) /\ Len(Rest(k)) = NDsp + 19 - k
        /\ \A i \in 1 .. NDsp + 19 - k : Rest(k)[i] = Script[k + i - 1]
    BY <1>1, NDspPositive DEF Rest
  <2>2. /\ Rest(k + 1) \in Seq(Lines) /\ Len(Rest(k + 1)) = NDsp + 18 - k
        /\ \A i \in 1 .. NDsp + 18 - k : Rest(k + 1)[i] = Script[k + i]
    BY <1>1, NDspPositive DEF Rest
  <2>3. Rest(k) # <<>> /\ Head(Rest(k)) = Script[k]
    BY <2>1, NDspPositive
  <2>4. /\ Tail(Rest(k)) \in Seq(Lines) /\ Len(Tail(Rest(k))) = NDsp + 18 - k
        /\ \A i \in 1 .. NDsp + 18 - k : Tail(Rest(k))[i] = Rest(k)[i + 1]
    BY <2>1, <2>3, NDspPositive
  <2>5. ASSUME NEW i \in 1 .. NDsp + 18 - k
        PROVE  Tail(Rest(k))[i] = Rest(k + 1)[i]
    <3>1. i + 1 \in 1 .. NDsp + 19 - k /\ k + (i + 1) - 1 = k + i
      BY NDspPositive
    <3>2. Rest(k)[i + 1] = Script[k + (i + 1) - 1]
      BY <2>1, <3>1
    <3> QED BY <2>2, <2>4, <3>1, <3>2
  <2> QED BY <2>2, <2>3, <2>4, <2>5, SeqEqual
<1> QED BY <1>2, <1>3, <1>4

----------------------------------------------------------------------------
(* The inductive invariant.                                                *)

TypeOK ==
  /\ phase \in {"script", "trap", "exit", "killed"}
  /\ child \in {"none", "open", "ioctl", "done", "failed"}
  /\ hit \in BOOLEAN /\ pending \in BOOLEAN /\ status \in BOOLEAN
  /\ LOADED \in BOOLEAN /\ STARTED \in BOOLEAN
  /\ module \in BOOLEAN /\ unbound \in BOOLEAN
  /\ driver \in {"absent", "stopped", "running"}
  /\ dsp \in Nat

\* Rounds of the loop that are over when the shell is at line k.
Rounds(k) ==
  IF k <= 10 THEN 0
  ELSE IF k > NDsp + 10 THEN NDsp
  ELSE IF child \in {"done", "failed"} THEN k - 10 ELSE k - 11

\* The shell is at line k, and every line before it has succeeded.
AtLine(k) ==
  /\ todo = Rest(k)
  /\ LOADED = (k \in 4 .. NDsp + 17)
  /\ (driver = "running" => LOADED)
  /\ (k <= 2 \/ k >= NDsp + 17 => driver = "absent" /\ ~ module)
  /\ (k <= NDsp + 18 => ~ unbound)
  /\ (child # "none" => k <= NDsp + 18 /\ Script[k] \in CtlLines)
  /\ dsp = Rounds(k)
  /\ (child # "failed" => resets = 0 .. dsp - 1)

ScriptInv == phase = "script" => status /\ \E k \in 1 .. NDsp + 19 : AtLine(k)

\* In cleanup a transport that runs has its module to be removed, or is known
\* to the exit status.
TrapInv ==
  phase \in {"trap", "killed"} =>
    /\ todo \in {TrapScript, <<"rmmod">>, <<>>}
    /\ (child # "none" => todo = TrapScript)
    /\ (driver = "running" => IF todo = <<>> THEN ~ status ELSE LOADED)

ExitInv == phase = "exit" => child = "none" /\ (driver = "running" => ~ status)

TestInv == TypeOK /\ ScriptInv /\ TrapInv /\ ExitInv /\ UnboundIsComplete

----------------------------------------------------------------------------
(* The shell's lines.                                                      *)

LEMMA CurrentScript ==
  ASSUME NEW k \in 1 .. NDsp + 19, todo = Rest(k), NEW l, Current(l)
  PROVE  k \in 1 .. NDsp + 18 /\ Script[k] = l
<1>1. k # NDsp + 19
  BY RestLines DEF Current
<1>2. k \in 1 .. NDsp + 18
  BY <1>1, NDspPositive
<1> QED BY <1>2, RestLines DEF Current

LEMMA CurrentTrap ==
  ASSUME todo \in {TrapScript, <<"rmmod">>, <<>>}, NEW l \in Lines, Current(l)
  PROVE  \/ l = "stop" /\ todo = TrapScript
         \/ l = "rmmod" /\ todo = <<"rmmod">>
<1>1. CASE todo = TrapScript
  <2>1. Head(todo) = "stop"
    BY <1>1 DEF TrapScript
  <2>2. l = Head(todo)
    BY DEF Current
  <2> QED BY <1>1, <2>1, <2>2
<1>2. CASE todo = <<"rmmod">>
  <2>1. Head(todo) = "rmmod"
    BY <1>2
  <2>2. l = Head(todo)
    BY DEF Current
  <2> QED BY <1>2, <2>1, <2>2
<1>3. CASE todo = <<>>
  BY <1>3 DEF Current
<1> QED BY <1>1, <1>2, <1>3

LEMMA TrapTails ==
  /\ TrapScript # <<>> /\ TrapScript # <<"rmmod">> /\ <<"rmmod">> # <<>>
  /\ Tail(TrapScript) = <<"rmmod">> /\ Tail(<<"rmmod">>) = <<>>
<1>1. TrapScript # <<>> /\ <<"rmmod">> # <<>>
  BY DEF TrapScript
<1>2. TrapScript # <<"rmmod">>
  BY DEF TrapScript
<1>3. Tail(TrapScript) = <<"rmmod">>
  BY DEF TrapScript
<1>4. Tail(<<"rmmod">>) = <<>>
  OBVIOUS
<1> QED BY <1>1, <1>2, <1>3, <1>4

\* A command of the script goes on to the next line or into cleanup.
LEMMA FinishScript ==
  ASSUME NEW k \in 1 .. NDsp + 18, todo = Rest(k), phase = "script",
         NEW ok \in BOOLEAN, Finish(ok), pending \in BOOLEAN
  PROVE  /\ child' = "none"
         /\ \/ ok /\ phase' = "script" /\ status' = TRUE /\ todo' = Rest(k + 1)
            \/ phase' = "trap" /\ todo' = TrapScript
<1>1. Tail(todo) = Rest(k + 1)
  BY RestLines
<1> QED BY <1>1 DEF Finish

\* A command of cleanup goes on to the next line and keeps a failure.
LEMMA FinishTrap ==
  ASSUME phase = "trap", NEW ok \in BOOLEAN, Finish(ok)
  PROVE  /\ child' = "none" /\ phase' = "trap" /\ status' = (status /\ ok)
         /\ todo' = Tail(todo)
BY DEF Finish

----------------------------------------------------------------------------
LEMMA TypeStep ==
  ASSUME TypeOK, Next
  PROVE  TypeOK'
<1>1. CASE Checks
  BY <1>1 DEF TypeOK, Checks, Finish
<1>2. CASE DeviceNode
  BY <1>2 DEF TypeOK, DeviceNode, Finish
<1>3. CASE Unbound
  BY <1>3 DEF TypeOK, Unbound, Finish
<1>4. CASE Assign
  BY <1>4 DEF TypeOK, Assign, Finish
<1>5. CASE Done
  BY <1>5 DEF TypeOK, Done
<1>6. CASE Skip
  BY <1>6 DEF TypeOK, Skip
<1>7. CASE Exit
  BY <1>7 DEF TypeOK, Exit
<1>8. CASE Insmod
  BY <1>8 DEF TypeOK, Insmod, Finish
<1>9. CASE Rmmod
  BY <1>9 DEF TypeOK, Rmmod, Finish
<1>10. CASE CtlSpawn
  BY <1>10 DEF TypeOK, CtlSpawn
<1>11. CASE CtlOpen
  BY <1>11 DEF TypeOK, CtlOpen
<1>12. CASE CtlOpenFails
  BY <1>12 DEF TypeOK, CtlOpenFails, Finish
<1>13. CASE CtlQuery
  BY <1>13 DEF TypeOK, CtlQuery, Result
<1>14. CASE CtlStart
  BY <1>14 DEF TypeOK, CtlStart, Result
<1>15. CASE CtlStop
  BY <1>15 DEF TypeOK, CtlStop, Result
<1>16. CASE CtlReset
  BY <1>16 DEF TypeOK, CtlReset, Result
<1>17. CASE CtlExit
  BY <1>17 DEF TypeOK, CtlExit, Finish
<1>18. CASE Signal
  BY <1>18 DEF TypeOK, Signal
<1>19. CASE Unplug
  BY <1>19 DEF TypeOK, Unplug, shellVars
<1> QED BY <1>1, <1>2, <1>3, <1>4, <1>5, <1>6, <1>7, <1>8, <1>9, <1>10,
           <1>11, <1>12, <1>13, <1>14, <1>15, <1>16, <1>17, <1>18, <1>19 DEF Next

----------------------------------------------------------------------------
(* Steps of the script.                                                    *)

\* Where a step of the script leads: on, or into cleanup.
Onward ==
  \/ phase' = "script" /\ status' /\ \E j \in 1 .. NDsp + 19 : AtLine(j)'
  \/ /\ phase' = "trap" /\ todo' = TrapScript /\ child' = "none"
     /\ (driver' = "running" => LOADED')

\* A line other than a round of the loop succeeds or leads into cleanup; what
\* the next line relies on is given by the last hypotheses.
LEMMA Advance ==
  ASSUME TypeOK, phase = "script", NEW k \in 1 .. NDsp + 18, AtLine(k),
         NEW ok \in BOOLEAN, Finish(ok), UNCHANGED <<dsp, resets>>,
         child # "failed" \/ ~ ok,
         k \in 11 .. NDsp + 10 => child = "done" \/ ~ ok,
         LOADED' \in BOOLEAN, driver' = "running" => LOADED',
         ok => LOADED' = (k + 1 \in 4 .. NDsp + 17),
         ok /\ (k + 1 <= 2 \/ k + 1 >= NDsp + 17) => driver' = "absent" /\ ~ module',
         ok /\ k + 1 <= NDsp + 18 => ~ unbound'
  PROVE  Onward
<1>1. CASE phase' = "trap" /\ todo' = TrapScript
  BY <1>1 DEF Onward, Finish
<1>2. CASE ok /\ phase' = "script" /\ status' = TRUE /\ todo' = Rest(k + 1)
  <2>1. child' = "none" /\ child # "failed"
    BY <1>2 DEF Finish
  <2>2. dsp' = Rounds(k + 1)'
    <3>1. dsp = Rounds(k) /\ dsp' = dsp
      BY DEF AtLine
    <3> QED BY <1>2, <2>1, <3>1, NDspPositive DEF Rounds, TypeOK
  <2>3. resets' = 0 .. dsp' - 1
    BY <2>1 DEF AtLine
  <2>4. k + 1 \in 1 .. NDsp + 19
    BY NDspPositive
  <2>5. AtLine(k + 1)'
    BY <1>2, <2>1, <2>2, <2>3 DEF AtLine
  <2> QED BY <1>2, <2>4, <2>5 DEF Onward
<1> QED BY <1>1, <1>2, FinishScript DEF AtLine, TypeOK

\* A step that stays at line k.
LEMMA Stay ==
  ASSUME phase' = "script", status', NEW k \in 1 .. NDsp + 19, AtLine(k)'
  PROVE  Onward
BY DEF Onward

LEMMA ScriptStep ==
  ASSUME TestInv, Next, phase = "script"
  PROVE  Onward
<1> USE NDspPositive
<1>0. TypeOK /\ TypeOK' /\ status
  BY TypeStep DEF TestInv, ScriptInv
<1> PICK k \in 1 .. NDsp + 19 : AtLine(k)
  BY DEF TestInv, ScriptInv
<1>a. ASSUME NEW l, Current(l) PROVE k \in 1 .. NDsp + 18 /\ Script[k] = l
  BY <1>a, CurrentScript DEF AtLine
<1>b. ASSUME NEW l, At(l) PROVE k \in 1 .. NDsp + 18 /\ Script[k] = l
  BY <1>a, <1>b DEF At
<1>1. CASE Checks
  <2>1. k = 1
    BY <1>1, <1>b, LineNumber DEF Checks
  <2> PICK ok \in BOOLEAN : Finish(ok)
    BY <1>1 DEF Checks
  <2>2. UNCHANGED <<LOADED, driver, module, dsp, resets, unbound>>
    BY <1>1 DEF Checks
  <2>3. child # "failed"
    BY <2>1, ScriptLines DEF AtLine, CtlLines
  <2> QED BY <1>0, <2>1, <2>2, <2>3, Advance DEF TypeOK, AtLine
<1>2. CASE DeviceNode
  <2>1. k = 4
    BY <1>2, <1>b, LineNumber DEF DeviceNode
  <2>2. UNCHANGED <<LOADED, driver, module, dsp, resets, unbound>>
    BY <1>2 DEF DeviceNode
  <2>3. child # "failed"
    BY <2>1, ScriptLines DEF AtLine, CtlLines
  <2> DEFINE ok == driver # "absent"
  <2>4. ok \in BOOLEAN /\ Finish(ok)
    BY <1>2 DEF DeviceNode
  <2> HIDE DEF ok
  <2> QED BY <1>0, <2>1, <2>2, <2>3, <2>4, Advance DEF TypeOK, AtLine
<1>3. CASE Unbound
  <2>1. k = NDsp + 18
    BY <1>3, <1>b, LineNumber DEF Unbound
  <2>2. UNCHANGED <<LOADED, driver, module, dsp, resets>>
    BY <1>3 DEF Unbound
  <2>3. child # "failed"
    BY <2>1, ScriptLines DEF AtLine, CtlLines
  <2> DEFINE ok == driver = "absent"
  <2>4. ok \in BOOLEAN /\ Finish(ok)
    BY <1>3 DEF Unbound
  <2> HIDE DEF ok
  <2> QED BY <1>0, <2>1, <2>2, <2>3, <2>4, Advance DEF TypeOK, AtLine
<1>4. CASE Assign
  <2>1. UNCHANGED <<driver, module, dsp, resets, unbound>> /\ Finish(TRUE)
    BY <1>4 DEF Assign
  <2>2. \/ k = 3 /\ LOADED' = TRUE
        \/ k = NDsp + 17 /\ LOADED' = FALSE
        \/ k \in {8, NDsp + 13} /\ LOADED' = LOADED
    BY <1>4, <1>b, LineNumber DEF Assign
  <2>3. child # "failed"
    BY <2>2, ScriptLines DEF AtLine, CtlLines
  <2>4. k \in 1 .. NDsp + 18 /\ k \notin 11 .. NDsp + 10
    BY <2>2
  <2>5. /\ LOADED' = (k + 1 \in 4 .. NDsp + 17) 
        /\ (driver' = "running" => LOADED')
    BY <1>0, <2>1, <2>2 DEF AtLine, TypeOK
  <2>6. (k + 1 <= 2 \/ k + 1 >= NDsp + 17 => driver' = "absent" /\ ~ module')
    BY <2>1, <2>2 DEF AtLine
  <2> DEFINE ok == TRUE
  <2>7. ok \in BOOLEAN /\ Finish(ok)
    BY <2>1
  <2> HIDE DEF ok
  <2> QED BY <1>0, <2>1, <2>3, <2>4, <2>5, <2>6, <2>7, Advance DEF TypeOK, AtLine
<1>5. CASE Done
  <2>1. child = "none"
    <3>1. k = NDsp + 19
      <4>1. Rest(k) = <<>>
        BY <1>5 DEF Done, AtLine
      <4>2. k \notin 1 .. NDsp + 18
        BY <4>1, RestLines
      <4> QED BY <4>2
    <3> QED BY <3>1 DEF AtLine
  <2> QED BY <1>5, <2>1 DEF Done, Onward, AtLine
<1>6. CASE Skip
  BY <1>6 DEF Skip
<1>7. CASE Exit
  BY <1>7 DEF Exit
<1>8. CASE Insmod
  <2>1. k = 2
    BY <1>8, <1>b, LineNumber DEF Insmod
  <2>2. UNCHANGED <<LOADED, dsp, resets, unbound>>
    BY <1>8 DEF Insmod
  <2>3. child # "failed"
    BY <2>1, ScriptLines DEF AtLine, CtlLines
  <2>4. driver' # "running"
    BY <1>8 DEF Insmod
  <2> PICK ok \in BOOLEAN : Finish(ok)
    BY <1>8 DEF Insmod
  <2> QED BY <1>0, <2>1, <2>2, <2>3, <2>4, Advance DEF TypeOK, AtLine
<1>9. CASE Rmmod
  <2>1. k = NDsp + 16
    BY <1>9, <1>b, LineNumber DEF Rmmod
  <2>2. UNCHANGED <<LOADED, dsp, resets, unbound>>
    BY <1>9 DEF Rmmod
  <2>3. child # "failed"
    BY <2>1, ScriptLines DEF AtLine, CtlLines
  <2>6. PICK done \in BOOLEAN, ok \in BOOLEAN :
           /\ (ok => done /\ ~ hit)
           /\ (done => module)
           /\ Finish(ok)
           /\ module' = (module /\ ~ done)
           /\ driver' = IF done THEN "absent" ELSE driver
    BY <1>9 DEF Rmmod
  <2>4. Finish(ok) /\ (ok => driver' = "absent" /\ ~ module')
    BY <2>6
  <2>5. LOADED
    <3>1. k \in 4 .. NDsp + 17
      BY <2>1
    <3>2. LOADED = (k \in 4 .. NDsp + 17)
      BY DEF AtLine
    <3> QED BY <3>1, <3>2
  <2> QED BY <1>0, <2>1, <2>2, <2>3, <2>4, <2>5, Advance DEF TypeOK, AtLine
<1>10. CASE CtlSpawn
  <2>1. k \in 1 .. NDsp + 18 /\ Script[k] \in CtlLines
    BY <1>10, <1>b DEF CtlSpawn, CtlLine, CtlLines
  <2>2. Rounds(k)' = Rounds(k)
    BY <1>10 DEF CtlSpawn, Rounds
  <2>3. AtLine(k)'
    BY <1>10, <2>1, <2>2 DEF CtlSpawn, AtLine
  <2> QED BY <1>0, <1>10, <2>3, Stay DEF CtlSpawn
<1>11. CASE CtlOpen
  <2>1. Rounds(k)' = Rounds(k)
    BY <1>11 DEF CtlOpen, Rounds
  <2>2. AtLine(k)'
    BY <1>11, <2>1 DEF CtlOpen, AtLine
  <2> QED BY <1>0, <1>11, <2>2, Stay DEF CtlOpen
<1>12. CASE CtlOpenFails
  <2>1. k \in 1 .. NDsp + 18
    BY <1>12 DEF CtlOpenFails, AtLine
  <2> QED BY <1>0, <1>12, <2>1, FinishScript
          DEF CtlOpenFails, TypeOK, AtLine, Onward
<1>13. CASE CtlQuery
  <2>1. k \in 1 .. NDsp + 18 /\ k \notin 11 .. NDsp + 10
    BY <1>13, <1>a, LineNumber DEF CtlQuery
  <2>2. Rounds(k)' = Rounds(k)
    BY <2>1 DEF Rounds
  <2>3. child' \in {"done", "failed"} /\ child = "ioctl"
    BY <1>13 DEF CtlQuery, Result
  <2>4. AtLine(k)'
    BY <1>13, <2>2, <2>3 DEF CtlQuery, Result, AtLine
  <2> QED BY <1>0, <1>13, <2>4, Stay DEF CtlQuery, Result
<1>14. CASE CtlStart
  <2>1. k = 7
    BY <1>14, <1>a, LineNumber DEF CtlStart
  <2>2. Rounds(k)' = Rounds(k)
    BY <2>1 DEF Rounds
  <2>3. child' \in {"done", "failed"} /\ child = "ioctl"
    BY <1>14 DEF CtlStart, Result
  <2>4. AtLine(k)'
    BY <1>14, <2>1, <2>2, <2>3 DEF CtlStart, Result, AtLine
  <2> QED BY <1>0, <1>14, <2>4, Stay DEF CtlStart, Result
<1>15. CASE CtlStop
  <2>1. k = NDsp + 12
    BY <1>15, <1>a, LineNumber DEF CtlStop
  <2>2. Rounds(k)' = Rounds(k)
    BY <2>1 DEF Rounds
  <2>3. child' \in {"done", "failed"} /\ child = "ioctl"
    BY <1>15 DEF CtlStop, Result
  <2>4. AtLine(k)'
    BY <1>15, <2>1, <2>2, <2>3 DEF CtlStop, Result, AtLine
  <2> QED BY <1>0, <1>15, <2>4, Stay DEF CtlStop, Result
<1>16. CASE CtlReset
  <2>1. k \in 11 .. NDsp + 10
    BY <1>16, <1>a, LineNumber DEF CtlReset
  <2>2. child' \in {"done", "failed"} /\ child = "ioctl"
    BY <1>16 DEF CtlReset, Result
  <2>3. dsp = k - 11 /\ resets = 0 .. dsp - 1
    BY <2>1, <2>2 DEF AtLine, Rounds
  <2>4. dsp' = dsp + 1 /\ dsp' = Rounds(k)'
    BY <1>16, <2>1, <2>2, <2>3 DEF CtlReset, Rounds
  <2>5. child' # "failed" => resets' = resets \cup {dsp}
    BY <1>16 DEF CtlReset, Result
  <2>6. 0 .. dsp' - 1 = (0 .. dsp - 1) \cup {dsp}
    BY <1>0, <2>4 DEF TypeOK
  <2>7. child' # "failed" => resets' = 0 .. dsp' - 1
    BY <2>3, <2>5, <2>6
  <2>8. AtLine(k)'
    BY <1>16, <2>1, <2>2, <2>4, <2>7 DEF CtlReset, Result, AtLine
  <2> QED BY <1>0, <1>16, <2>8, Stay DEF CtlReset, Result
<1>17. CASE CtlExit
  <2>1. k \in 1 .. NDsp + 18 /\ Script[k] \in CtlLines
    BY <1>17 DEF CtlExit, AtLine
  <2>2. UNCHANGED <<LOADED, module, driver, dsp, resets, unbound>>
    BY <1>17 DEF CtlExit
  <2> DEFINE ok == child = "done" /\ ~ hit
  <2>3. ok \in BOOLEAN /\ Finish(ok) /\ (ok => child = "done")
    BY <1>17 DEF CtlExit
  <2>4. k \notin {2, 3, NDsp + 16, NDsp + 17, NDsp + 18}
    BY <2>1, ScriptLines DEF CtlLines
  <2>5. LOADED' = (k + 1 \in 4 .. NDsp + 17)
    BY <2>1, <2>2, <2>4 DEF AtLine
  <2>6. k + 1 <= 2 \/ k + 1 >= NDsp + 17 => driver' = "absent" /\ ~ module'
    BY <2>1, <2>2, <2>4 DEF AtLine
  <2> HIDE DEF ok
  <2> QED BY <1>0, <2>1, <2>2, <2>3, <2>5, <2>6, Advance DEF TypeOK, AtLine
<1>18. CASE Signal
  <2>1. /\ UNCHANGED <<phase, status>>
        /\ UNCHANGED <<todo, child, LOADED, module, driver, dsp, resets, unbound>>
    BY <1>18 DEF Signal
  <2>2. AtLine(k)'
    BY <2>1 DEF AtLine, Rounds
  <2> QED BY <1>0, <2>1, <2>2, Stay
<1>19. CASE Unplug
  <2>1. /\ UNCHANGED <<phase, status>>
        /\ UNCHANGED <<todo, child, LOADED, module, dsp, resets, unbound>>
        /\ driver' = "absent"
    BY <1>19 DEF Unplug, shellVars
  <2>2. AtLine(k)'
    BY <2>1 DEF AtLine, Rounds
  <2> QED BY <1>0, <2>1, <2>2, Stay
<1> QED BY <1>1, <1>2, <1>3, <1>4, <1>5, <1>6, <1>7, <1>8, <1>9, <1>10, <1>11, <1>12,
           <1>13, <1>14, <1>15, <1>16, <1>17, <1>18, <1>19 DEF Next

----------------------------------------------------------------------------
(* Steps of cleanup, and of a child that a killed shell has left.          *)

LEMMA CleanupStep ==
  ASSUME TestInv, Next, phase \in {"trap", "killed"}
  PROVE  /\ phase' \in {"trap", "killed", "exit"}
         /\ TrapInv' /\ ExitInv'
<1>0. /\ TypeOK /\ TypeOK'
      /\ todo \in {TrapScript, <<"rmmod">>, <<>>}
      /\ (child # "none" => todo = TrapScript)
      /\ (driver = "running" => IF todo = <<>> THEN ~ status ELSE LOADED)
  BY TypeStep DEF TestInv, TrapInv
<1>a. ASSUME NEW l \in Lines, Current(l)
      PROVE  \/ l = "stop" /\ todo = TrapScript
             \/ l = "rmmod" /\ todo = <<"rmmod">>
  BY <1>0, <1>a, CurrentTrap
<1>b. ASSUME NEW l \in Lines \ {"stop", "rmmod"} PROVE ~ Current(l) /\ ~ At(l)
  BY <1>a, Zenon DEF At
<1> USE TrapTails
<1>1. ~ Checks /\ ~ DeviceNode /\ ~ Unbound /\ ~ Assign /\ ~ Done /\ ~ Insmod
  BY <1>b DEF Checks, DeviceNode, Unbound, Assign, Done, Insmod, Lines
<1>2. ~ CtlQuery /\ ~ CtlStart /\ ~ CtlReset
  BY <1>b DEF CtlQuery, CtlStart, CtlReset, Lines, CtlLines
<1>3. CASE Skip
  <2>1. UNCHANGED <<phase, child, status, driver, LOADED>> /\ todo' = Tail(todo)
    BY <1>3 DEF Skip
  <2>2. child = "none" /\ phase = "trap"
    BY <1>3 DEF Skip
  <2>3. \/ Current("stop")
        \/ Current("rmmod") /\ ~ LOADED
    BY <1>3 DEF Skip, At
  <2>4. \/ todo = TrapScript
        \/ todo = <<"rmmod">> /\ ~ LOADED
    <3>1. "stop" \in Lines /\ "rmmod" \in Lines
      BY DEF Lines, CtlLines
    <3> QED BY <1>a, <2>3, <3>1
  <2>5. CASE todo = TrapScript
    <3>1. todo' = <<"rmmod">>
      BY <2>1, <2>5
    <3> QED BY <1>0, <2>1, <2>2, <2>5, <3>1 DEF TrapInv, ExitInv
  <2>6. CASE todo = <<"rmmod">> /\ ~ LOADED
    <3>1. todo' = <<>>
      BY <2>1, <2>6
    <3> QED BY <1>0, <2>1, <2>2, <2>6, <3>1 DEF TrapInv, ExitInv
  <2> QED BY <2>4, <2>5, <2>6
<1>4. CASE Exit
  BY <1>0, <1>4 DEF Exit, TrapInv, ExitInv, TypeOK
<1>5. CASE Rmmod
  <2>1. todo = <<"rmmod">> /\ phase = "trap"
    BY <1>5, <1>a DEF Rmmod, At, Active, Lines
  <2>2. PICK done \in BOOLEAN, ok \in BOOLEAN :
          /\ (ok => done /\ ~ hit)
          /\ (done => module)
          /\ Finish(ok)
          /\ module' = (module /\ ~ done)
          /\ driver' = IF done THEN "absent" ELSE driver
    BY <1>5 DEF Rmmod
  <2>3. todo' = <<>> /\ child' = "none" /\ phase' = "trap" /\ status' = (status /\ ok)
    BY <2>1, <2>2, FinishTrap
  <2>4. driver' = "running" => ~ status'
    BY <2>2, <2>3
  <2> QED BY <2>3, <2>4 DEF TrapInv, ExitInv
<1>6. CASE CtlSpawn
  <2>1. todo = TrapScript
    BY <1>6, <1>a, <1>b DEF CtlSpawn, CtlLine, At, Lines, CtlLines
  <2> QED BY <1>0, <1>6, <2>1 DEF CtlSpawn, TrapInv, ExitInv
<1>7. CASE CtlOpen
  BY <1>0, <1>7 DEF CtlOpen, TrapInv, ExitInv
<1>8. ASSUME child # "none", NEW ok \in BOOLEAN, Finish(ok),
             UNCHANGED <<driver, LOADED>>
      PROVE  phase' \in {"trap", "killed", "exit"} /\ TrapInv' /\ ExitInv'
  <2>1. todo = TrapScript
    BY <1>0, <1>8
  <2>2. CASE phase = "trap"
    <3>1. todo' = <<"rmmod">> /\ child' = "none" /\ phase' = "trap"
      BY <1>8, <2>1, <2>2, FinishTrap
    <3> QED BY <1>0, <1>8, <2>1, <3>1 DEF TrapInv, ExitInv
  <2>3. CASE phase = "killed"
    <3>1. UNCHANGED <<todo, phase>> /\ child' = "none"
      BY <1>8, <2>3 DEF Finish
    <3> QED BY <1>0, <1>8, <2>1, <2>3, <3>1 DEF TrapInv, ExitInv
  <2> QED BY <2>2, <2>3
<1>9. CASE CtlOpenFails
  <2> DEFINE ok == FALSE
  <2>1. ok \in BOOLEAN /\ Finish(ok) /\ child # "none" /\ UNCHANGED <<driver, LOADED>>
    BY <1>9 DEF CtlOpenFails
  <2> HIDE DEF ok
  <2> QED BY <1>8, <2>1
<1>10. CASE CtlStop
  BY <1>0, <1>10 DEF CtlStop, Result, TrapInv, ExitInv, TypeOK
<1>11. CASE CtlExit
  <2> DEFINE ok == child = "done" /\ ~ hit
  <2>1. ok \in BOOLEAN /\ Finish(ok) /\ child # "none" /\ UNCHANGED <<driver, LOADED>>
    BY <1>11 DEF CtlExit
  <2> HIDE DEF ok
  <2> QED BY <1>8, <2>1
<1>12. CASE Signal
  <2>1. phase' = "killed" /\ UNCHANGED <<todo, child, status, LOADED, driver>>
    BY <1>12 DEF Signal
  <2> QED BY <1>0, <2>1 DEF TrapInv, ExitInv
<1>13. CASE Unplug
  BY <1>0, <1>13 DEF Unplug, shellVars, TrapInv, ExitInv
<1> QED BY <1>1, <1>2, <1>3, <1>4, <1>5, <1>6, <1>7, <1>9, <1>10, <1>11, <1>12,
           <1>13 DEF Next

\* After its exit the shell has no child, and only the endpoint can still go.
LEMMA ExitStep ==
  ASSUME TestInv, Next, phase = "exit"
  PROVE  Unplug
<1>1. child = "none" /\ ~ Active
  BY DEF TestInv, ExitInv, Active
<1> QED BY <1>1 DEF Next, At, Checks, DeviceNode, Unbound, Assign, Done, Skip, Exit,
           Insmod, Rmmod, CtlSpawn, CtlLine, CtlOpen, CtlOpenFails, CtlQuery,
           CtlStart, CtlStop, CtlReset, CtlExit, Signal

\* phase=unbound is printed by the last line, after which the resets and the
\* module stay as they are.
LEMMA UnboundStep ==
  ASSUME TestInv, Next
  PROVE  UnboundIsComplete'
<1> USE NDspPositive
<1>0. TypeOK /\ TypeOK' /\ UnboundIsComplete
  BY TypeStep DEF TestInv
<1>1. CASE phase = "script"
  <2> PICK k \in 1 .. NDsp + 19 : AtLine(k)
    BY <1>1 DEF TestInv, ScriptInv
  <2>a. ASSUME NEW l, Current(l) PROVE k \in 1 .. NDsp + 18 /\ Script[k] = l
    BY <2>a, CurrentScript DEF AtLine
  <2>1. CASE Unbound
    <3>1. k = NDsp + 18
      BY <2>1, <2>a, LineNumber DEF Unbound, At
    <3>2. child # "failed"
      BY <3>1, ScriptLines DEF AtLine, CtlLines
    <3>3. resets = DSPS /\ ~ module
      BY <3>1, <3>2 DEF AtLine, Rounds, DSPS
    <3> QED BY <2>1, <3>3 DEF Unbound, UnboundIsComplete
  <2>2. CASE Insmod \/ CtlReset
    <3>1. k \in 1 .. NDsp + 18
      BY <2>2, <2>a DEF Insmod, CtlReset, At
    <3>2. ~ unbound
      BY <3>1 DEF AtLine
    <3> QED BY <2>2, <3>2 DEF Insmod, CtlReset, UnboundIsComplete
  <2>3. CASE ~ (Unbound \/ Insmod \/ CtlReset)
    <3>1. UNCHANGED <<unbound, resets>> /\ (module' => module)
      BY <1>0, <2>3 DEF Next, Checks, DeviceNode, Assign, Done, Skip, Exit,
         Rmmod, CtlSpawn, CtlOpen, CtlOpenFails, CtlQuery,
         CtlStart, CtlStop, CtlExit, Signal, Unplug, TypeOK
    <3> QED BY <1>0, <3>1 DEF UnboundIsComplete, TypeOK
  <2> QED BY <2>1, <2>2, <2>3
<1>2. CASE phase # "script"
  <2>1. ~ (Unbound \/ Insmod \/ CtlReset)
    <3>1. CASE phase = "exit"
      BY <3>1, ExitStep DEF TestInv, ExitInv, Unbound, Insmod, CtlReset, At, Active
    <3>2. CASE phase \in {"trap", "killed"}
      <4>1. todo \in {TrapScript, <<"rmmod">>, <<>>}
        BY <3>2 DEF TestInv, TrapInv
      <4>2. ~ Current("unbound") /\ ~ Current("insmod") /\ ~ Current("reset")
        BY <4>1, CurrentTrap DEF Lines, CtlLines
      <4> QED BY <4>2 DEF Unbound, Insmod, CtlReset, At
    <3> QED BY <1>0, <1>2, <3>1, <3>2 DEF TypeOK
  <2>2. UNCHANGED <<unbound, resets>> /\ (module' => module)
    BY <1>0, <2>1 DEF Next, Checks, DeviceNode, Assign, Done, Skip, Exit,
       Rmmod, CtlSpawn, CtlOpen, CtlOpenFails, CtlQuery,
       CtlStart, CtlStop, CtlExit, Signal, Unplug, TypeOK
  <2> QED BY <1>0, <2>2 DEF UnboundIsComplete, TypeOK
<1> QED BY <1>1, <1>2

LEMMA TestInit == Init => TestInv
<1> SUFFICES ASSUME Init PROVE TestInv
  OBVIOUS
<1>1. TypeOK /\ TrapInv /\ ExitInv /\ UnboundIsComplete
  BY DEF Init, TypeOK, TrapInv, ExitInv, UnboundIsComplete
<1>2. AtLine(1)
  <2>1. resets = 0 .. dsp - 1
    BY DEF Init
  <2>2. todo = Rest(1)
    BY RestLines DEF Init
  <2>3. LOADED = (1 \in 4 .. NDsp + 17)
    <3>1. (1 \in 4 .. NDsp + 17) = FALSE
      BY NDspPositive
    <3>2. LOADED = FALSE
      BY DEF Init
    <3> QED BY <3>1, <3>2
  <2> QED BY <2>1, <2>2, <2>3, NDspPositive DEF Init, AtLine, Rounds
<1>3. 1 \in 1 .. NDsp + 19
  BY NDspPositive
<1> QED BY <1>1, <1>2, <1>3 DEF TestInv, ScriptInv, Init

LEMMA TestStep == TestInv /\ [Next]_vars => TestInv'
<1> SUFFICES ASSUME TestInv, [Next]_vars PROVE TestInv'
  OBVIOUS
<1>1. CASE Next
  <2>1. TypeOK' /\ UnboundIsComplete'
    BY <1>1, TypeStep, UnboundStep DEF TestInv
  <2>2. ScriptInv' /\ TrapInv' /\ ExitInv'
    <3>1. CASE phase = "script"
      <4>1. Onward
        BY <1>1, <3>1, ScriptStep
      <4> QED BY <4>1, TrapTails DEF Onward, ScriptInv, TrapInv, ExitInv
    <3>2. CASE phase \in {"trap", "killed"}
      BY <1>1, <3>2, CleanupStep DEF ScriptInv
    <3>3. CASE phase = "exit"
      BY <1>1, <3>3, ExitStep
         DEF Unplug, shellVars, TestInv, ScriptInv, TrapInv, ExitInv
    <3> QED BY <3>1, <3>2, <3>3 DEF TestInv, TypeOK
  <2> QED BY <2>1, <2>2 DEF TestInv
<1>2. CASE UNCHANGED vars
  BY <1>2 DEF vars, shellVars, TestInv, TypeOK, ScriptInv, AtLine, Rounds, TrapInv,
     ExitInv, UnboundIsComplete
<1> QED BY <1>1, <1>2

\* The script is at a line of its text with what the lines before it have
\* established, in cleanup, or over.
THEOREM TestInductive == Spec => []TestInv
BY TestInit, TestStep, PTL DEF Spec

\* uad2-compute-transport-test.sh: an exit with the transport still running has
\* a status other than 0, wherever signals hit, the endpoint went and a command
\* of the script or of cleanup failed.
THEOREM RunningReported == Spec => []RunningIsReported
<1>1. TestInv => RunningIsReported
  BY DEF TestInv, ExitInv, RunningIsReported
<1> QED BY <1>1, TestInductive, PTL

\* uad2-compute-transport-test.sh: phase=unbound means that all resets of the
\* loop were made and that the module is out, for any number of DSPs.
THEOREM UnboundComplete == Spec => []UnboundIsComplete
<1>1. TestInv => UnboundIsComplete
  BY DEF TestInv
<1> QED BY <1>1, TestInductive, PTL
=============================================================================
