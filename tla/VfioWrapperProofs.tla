------------------------- MODULE VfioWrapperProofs -------------------------
(***************************************************************************)
(* What the run of VfioWrapper checks for two wrappers and two signals,    *)
(* proved for any set of wrappers and any number of signals.               *)
(***************************************************************************)
EXTENDS VfioWrapper, SequenceTheorems, TLAPS

Work == {"modprobe", "driver_override", "drivers_probe", "verify"}
Lines == {"bound", "command", "other", "trap", "tool"} \cup Work
           \cup {"unbind", "clear"}

\* The lines from the k-th on.
From(q, k) == SubSeq(q, k, Len(q))
Rest(k) == From(Script, k)

----------------------------------------------------------------------------
(* The lines of a shell.                                                   *)

LEMMA ScriptLines ==
  /\ Script \in Seq(Lines) /\ Len(Script) = 9
  /\ Script[1] = "bound" /\ Script[2] = "command" /\ Script[3] = "other"
  /\ Script[4] = "trap" /\ Script[5] = "modprobe" /\ Script[6] = "driver_override"
  /\ Script[7] = "drivers_probe" /\ Script[8] = "verify" /\ Script[9] = "tool"
<1>1. Script \in Seq(Lines)
  BY DEF Script, Lines, Work
<1> QED BY <1>1 DEF Script

LEMMA LineNumber ==
  ASSUME NEW k \in 1 .. 9
  PROVE  /\ Script[k] = "trap" => k = 4
         /\ Script[k] = "modprobe" => k = 5
         /\ Script[k] = "driver_override" => k = 6
         /\ Script[k] = "drivers_probe" => k = 7
         /\ Script[k] = "verify" => k = 8
         /\ Script[k] = "tool" => k = 9
         /\ Script[k] \notin {"unbind", "clear"}
         /\ Script[k] \in {"bound", "command", "other"} => k <= 3
         /\ Script[k] \in {"bound", "command", "other", "trap"} <=> k <= 4
<1>1. k = 1 \/ k = 2 \/ k = 3 \/ k = 4 \/ k = 5 \/ k = 6 \/ k = 7 \/ k = 8 \/ k = 9
  OBVIOUS
<1> QED BY <1>1, ScriptLines

\* The lines that are left when one has been run.
LEMMA Suffix ==
  ASSUME NEW S, NEW q \in Seq(S), NEW k \in 1 .. Len(q)
  PROVE  /\ From(q, k) \in Seq(S) /\ Len(From(q, k)) = Len(q) - k + 1
         /\ \A i \in 1 .. Len(q) - k + 1 : From(q, k)[i] = q[k + i - 1]
         /\ From(q, k) # <<>> /\ Head(From(q, k)) = q[k]
         /\ Tail(From(q, k)) = From(q, k + 1)
<1> DEFINE n == Len(q)
<1> DEFINE r == SubSeq(q, k, n)
           t == SubSeq(q, k + 1, n)
<1>0. n = Len(q) /\ n \in Nat /\ k \in 1 .. n
  BY LenProperties
<1> HIDE DEF n
<1>1. /\ r \in Seq(S) /\ Len(r) = n - k + 1
      /\ \A i \in 1 .. n - k + 1 : r[i] = q[k + i - 1]
  BY <1>0
<1>2. /\ t \in Seq(S) /\ Len(t) = n - k
      /\ \A i \in 1 .. n - k : t[i] = q[k + i]
  BY <1>0
<1> HIDE DEF r, t
<1>3. r # <<>> /\ Head(r) = q[k]
  BY <1>0, <1>1
<1>4. /\ Tail(r) \in Seq(S) /\ Len(Tail(r)) = n - k
      /\ \A i \in 1 .. n - k : Tail(r)[i] = r[i + 1]
  <2>1. /\ Tail(r) \in Seq(S) /\ Len(Tail(r)) = Len(r) - 1
        /\ \A i \in 1 .. Len(Tail(r)) : Tail(r)[i] = r[i + 1]
    BY <1>1, <1>3, HeadTailProperties
  <2>2. Len(Tail(r)) = n - k
    BY <1>0, <1>1, <2>1
  <2> QED BY <2>1, <2>2
<1>5. ASSUME NEW i \in 1 .. n - k PROVE Tail(r)[i] = t[i]
  <2>1. i + 1 \in 1 .. n - k + 1 /\ k + (i + 1) - 1 = k + i
    BY <1>0
  <2>2. r[i + 1] = q[k + (i + 1) - 1]
    BY <1>1, <2>1
  <2> QED BY <1>2, <1>4, <2>1, <2>2
<1>6. Tail(r) = t
  BY <1>2, <1>4, <1>5, SeqEqual
<1>7. r = From(q, k) /\ t = From(q, k + 1)
  BY <1>0 DEF r, t, From
<1> QED BY <1>0, <1>1, <1>3, <1>6, <1>7

LEMMA RestLines ==
  /\ Rest(1) = Script
  /\ \A k \in 1 .. 9 : /\ Rest(k) \in Seq(Lines) /\ Len(Rest(k)) = 9 - k + 1
                       /\ \A i \in 1 .. 9 - k + 1 : Rest(k)[i] = Script[k + i - 1]
                       /\ Rest(k) # <<>> /\ Head(Rest(k)) = Script[k]
  /\ \A k \in 1 .. 8 : Tail(Rest(k)) = Rest(k + 1)
  /\ Rest(9) = <<"tool">>
<1>1. Script \in Seq(Lines) /\ Len(Script) = 9 /\ 9 \in Nat
  BY ScriptLines
<1>2. ASSUME NEW k \in 1 .. 9
      PROVE  /\ Rest(k) \in Seq(Lines) /\ Len(Rest(k)) = 9 - k + 1
             /\ \A i \in 1 .. 9 - k + 1 : Rest(k)[i] = Script[k + i - 1]
             /\ Rest(k) # <<>> /\ Head(Rest(k)) = Script[k]
             /\ Tail(Rest(k)) = Rest(k + 1)
  <2>1. k \in 1 .. Len(Script)
    BY <1>1
  <2>2. /\ From(Script, k) \in Seq(Lines) /\ Len(From(Script, k)) = Len(Script) - k + 1
        /\ \A i \in 1 .. Len(Script) - k + 1 : From(Script, k)[i] = Script[k + i - 1]
        /\ From(Script, k) # <<>> /\ Head(From(Script, k)) = Script[k]
        /\ Tail(From(Script, k)) = From(Script, k + 1)
    BY <1>1, <2>1, Suffix, Zenon
  <2> QED BY <1>1, <2>2 DEF Rest
<1>3. 1 \in 1 .. 9 /\ 9 \in 1 .. 9
  OBVIOUS
<1>4. Rest(1) = Script
  <2>1. Rest(1) \in Seq(Lines) /\ Len(Rest(1)) = 9
    <3>1. Rest(1) \in Seq(Lines) /\ Len(Rest(1)) = 9 - 1 + 1
      BY <1>2, <1>3
    <3> QED BY <3>1
  <2>2. \A i \in 1 .. 9 : Rest(1)[i] = Script[i]
    <3>1. \A i \in 1 .. 9 - 1 + 1 : Rest(1)[i] = Script[1 + i - 1]
      BY <1>2, <1>3
    <3> QED BY <3>1
  <2> QED BY <1>1, <2>1, <2>2, SeqEqual
<1>5. Rest(9) = <<"tool">>
  <2>1. <<"tool">> \in Seq(Lines) /\ Len(<<"tool">>) = 1 /\ <<"tool">>[1] = "tool"
    BY DEF Lines
  <2>2. Rest(9) \in Seq(Lines) /\ Len(Rest(9)) = 1
    <3>1. Rest(9) \in Seq(Lines) /\ Len(Rest(9)) = 9 - 9 + 1
      BY <1>2, <1>3
    <3> QED BY <3>1
  <2>3. Rest(9)[1] = "tool"
    <3>1. \A i \in 1 .. 9 - 9 + 1 : Rest(9)[i] = Script[9 + i - 1]
      BY <1>2, <1>3
    <3> QED BY <3>1, ScriptLines
  <2>4. \A i \in 1 .. 1 : Rest(9)[i] = <<"tool">>[i]
    BY <2>1, <2>3
  <2> QED BY <2>1, <2>2, <2>4, SeqEqual
<1>6. \A k \in 1 .. 8 : Tail(Rest(k)) = Rest(k + 1)
  <2>1. \A k \in 1 .. 8 : k \in 1 .. 9
    OBVIOUS
  <2> QED BY <1>2, <2>1
<1> QED BY <1>2, <1>4, <1>5, <1>6

\* What a shell with the trap installed may have left to run: cleanups and
\* lines up to the tool, or cleanups alone, the last line being the tool or
\* the write that clears the attribute.
Sound(q) ==
  /\ (q # <<>> => q[Len(q)] \in {"tool", "clear"})
  /\ \A i \in 1 .. Len(q) - 1 :
       q[i] \in {"unbind", "clear"} \/ (q[i] \in Work /\ q[Len(q)] = "tool")

LEMMA SoundText == Sound(Rest(5))
<1>1. 5 \in 1 .. 9
  OBVIOUS
<1>2. /\ Rest(5) \in Seq(Lines) /\ Len(Rest(5)) = 9 - 5 + 1
      /\ \A i \in 1 .. 9 - 5 + 1 : Rest(5)[i] = Script[5 + i - 1]
  BY <1>1, RestLines, Zenon
<1>3. Len(Rest(5)) = 5 /\ Rest(5)[5] = "tool"
  BY <1>2, ScriptLines
<1>4. ASSUME NEW i \in 1 .. 4 PROVE Rest(5)[i] \in Work
  <2>1. i = 1 \/ i = 2 \/ i = 3 \/ i = 4
    OBVIOUS
  <2>2. Rest(5)[i] = Script[5 + i - 1]
    BY <1>2
  <2> QED BY <2>1, <2>2, ScriptLines DEF Work
<1>5. Len(Rest(5)) - 1 = 4 /\ Rest(5)[Len(Rest(5))] = "tool"
  BY <1>3
<1> QED BY <1>4, <1>5 DEF Sound

\* It still runs the tool, whose end leads to cleanup, or unbinds.
Owes(q) == \E i \in 1 .. Len(q) : q[i] \in {"unbind", "tool"}

LEMMA SoundTail ==
  ASSUME NEW q \in Seq(Lines), q # <<>>, Sound(q), Head(q) # "tool"
  PROVE  /\ Tail(q) \in Seq(Lines) /\ Sound(Tail(q))
         /\ Head(q) \in Work \cup {"unbind", "clear"}
         /\ Owes(q) /\ Head(q) # "unbind" => Owes(Tail(q))
         /\ Head(q) # "clear" => Tail(q) # <<>>
         /\ Head(q) \in Work => Owes(Tail(q))
<1> DEFINE n == Len(q)
<1>1. n \in Nat \ {0} /\ Head(q) = q[1]
  OBVIOUS
<1>2. /\ Tail(q) \in Seq(Lines) /\ Len(Tail(q)) = n - 1
      /\ \A i \in 1 .. n - 1 : Tail(q)[i] = q[i + 1]
  <2>1. /\ Tail(q) \in Seq(Lines) /\ Len(Tail(q)) = Len(q) - 1
        /\ \A i \in 1 .. Len(Tail(q)) : Tail(q)[i] = q[i + 1]
    BY HeadTailProperties
  <2> QED BY <2>1
<1>0. /\ q[n] \in {"tool", "clear"}
      /\ \A i \in 1 .. n - 1 :
           q[i] \in {"unbind", "clear"} \/ (q[i] \in Work /\ q[n] = "tool")
      /\ (Owes(q) => \E i \in 1 .. n : q[i] \in {"unbind", "tool"})
  BY DEF Sound, Owes
<1> HIDE DEF n
<1>3. CASE n = 1
  <2>1. q[1] = "clear" /\ Len(Tail(q)) = 0
    BY <1>0, <1>1, <1>2, <1>3
  <2>2. ~ Owes(q)
    BY <1>0, <1>3, <2>1
  <2>3. Tail(q) = <<>>
    BY <1>2, <2>1
  <2> QED BY <1>1, <1>2, <2>1, <2>2, <2>3 DEF Sound, Work
<1>4. CASE n > 1
  <2>1. Tail(q)[n - 1] = q[n]
    <3>1. n - 1 \in 1 .. n - 1 /\ (n - 1) + 1 = n
      BY <1>1, <1>4
    <3> QED BY <1>2, <3>1
  <2>2. Tail(q) # <<>>
    <3>1. Tail(q) \in Seq(Lines) /\ Len(Tail(q)) # 0
      BY <1>1, <1>2, <1>4
    <3>2. Len(<<>>) = 0
      BY EmptySeq, Zenon
    <3> QED BY <3>1, <3>2, Zenon
  <2>3. ASSUME NEW i \in 1 .. (n - 1) - 1
        PROVE  \/ Tail(q)[i] \in {"unbind", "clear"}
               \/ Tail(q)[i] \in Work /\ q[n] = "tool"
    <3>1. i + 1 \in 1 .. n - 1 /\ i \in 1 .. n - 1
      BY <1>1
    <3> QED BY <1>0, <1>2, <3>1
  <2>4. Sound(Tail(q))
    BY <1>0, <1>2, <2>1, <2>3 DEF Sound
  <2>5. q[1] \in {"unbind", "clear"} \/ (q[1] \in Work /\ q[n] = "tool")
    BY <1>0, <1>1, <1>4
  <2>6. Head(q) \in Work => Owes(Tail(q))
    <3>1. Head(q) \in Work => q[n] = "tool"
      BY <1>1, <2>5 DEF Work
    <3>2. n - 1 \in 1 .. Len(Tail(q))
      BY <1>1, <1>2, <1>4
    <3> QED BY <2>1, <3>1, <3>2 DEF Owes
  <2>7. Owes(q) /\ Head(q) # "unbind" => Owes(Tail(q))
    <3> SUFFICES ASSUME Owes(q), Head(q) # "unbind" PROVE Owes(Tail(q))
      OBVIOUS
    <3>1. PICK i \in 1 .. n : q[i] \in {"unbind", "tool"}
      BY <1>0
    <3>2. i # 1
      BY <1>1, <3>1
    <3>3. i - 1 \in 1 .. n - 1 /\ (i - 1) + 1 = i
      BY <1>1, <3>2
    <3>4. Tail(q)[i - 1] = q[i]
      BY <1>2, <3>3
    <3>5. i - 1 \in 1 .. Len(Tail(q)) /\ Tail(q)[i - 1] \in {"unbind", "tool"}
      BY <1>2, <3>1, <3>3, <3>4
    <3> QED BY <3>5 DEF Owes
  <2> QED BY <1>1, <1>2, <2>2, <2>4, <2>5, <2>6, <2>7
<1> QED BY <1>1, <1>3, <1>4

LEMMA SoundTool ==
  ASSUME NEW q \in Seq(Lines), q # <<>>, Sound(q), Head(q) = "tool"
  PROVE  q = <<"tool">>
<1> DEFINE n == Len(q)
<1>1. n \in Nat \ {0} /\ q[1] = "tool"
  OBVIOUS
<1>2. 1 \notin 1 .. n - 1
  BY <1>1 DEF Sound, Work
<1>6. n = Len(q)
  OBVIOUS
<1> HIDE DEF n
<1>7. n = 1
  BY <1>1, <1>2
<1>3. <<"tool">> \in Seq(Lines) /\ Len(<<"tool">>) = 1
  BY DEF Lines
<1>4. \A i \in 1 .. 1 : q[i] = <<"tool">>[i]
  BY <1>1
<1>5. Len(q) = Len(<<"tool">>) /\ \A i \in 1 .. Len(q) : q[i] = <<"tool">>[i]
  BY <1>3, <1>4, <1>6, <1>7
<1> QED BY <1>3, <1>5, SeqEqual

LEMMA CleanupLines ==
  /\ Cleanup \in Seq(Lines) /\ Sound(Cleanup) /\ Owes(Cleanup) /\ Cleanup # <<>>
  /\ Head(Cleanup) = "unbind" /\ Tail(Cleanup) = <<"clear">>
  /\ <<"clear">> # <<>> /\ Head(<<"clear">>) = "clear" /\ Tail(<<"clear">>) = <<>>
  /\ <<"tool">> \in Seq(Lines) /\ Sound(<<"tool">>) /\ Owes(<<"tool">>)
  /\ <<>> \in Seq(Lines) /\ Sound(<<>>)
<1>1. Cleanup \in Seq(Lines) /\ Len(Cleanup) = 2 /\ Cleanup[1] = "unbind"
      /\ Cleanup[2] = "clear"
  BY DEF Cleanup, Lines
<1>2. Sound(Cleanup) /\ Owes(Cleanup) /\ Cleanup # <<>> /\ Head(Cleanup) = "unbind"
  <2>1. Sound(Cleanup)
    <3>1. \A i \in 1 .. Len(Cleanup) - 1 : Cleanup[i] \in {"unbind", "clear"}
      BY <1>1
    <3> QED BY <1>1, <3>1 DEF Sound
  <2>2. Owes(Cleanup)
    BY <1>1 DEF Owes
  <2> QED BY <1>1, <2>1, <2>2
<1>3. Tail(Cleanup) = <<"clear">>
  BY DEF Cleanup
<1>4. <<"clear">> # <<>> /\ Head(<<"clear">>) = "clear" /\ Tail(<<"clear">>) = <<>>
  OBVIOUS
<1>5. <<"tool">> \in Seq(Lines) /\ Sound(<<"tool">>) /\ Owes(<<"tool">>)
  BY DEF Lines, Sound, Owes
<1>6. <<>> \in Seq(Lines) /\ Sound(<<>>)
  BY DEF Sound
<1> QED BY <1>1, <1>2, <1>3, <1>4, <1>5, <1>6

\* The trap of a signal runs before the lines that are left.
LEMMA CleanupJoined ==
  ASSUME NEW q \in Seq(Lines), Sound(q)
  PROVE  /\ Cleanup \o q \in Seq(Lines) /\ Sound(Cleanup \o q)
         /\ Owes(Cleanup \o q) /\ Cleanup \o q # <<>>
<1> DEFINE r == Cleanup \o q
<1>0. Cleanup \in Seq(Lines) /\ Len(Cleanup) = 2 /\ Cleanup[1] = "unbind"
      /\ Cleanup[2] = "clear" /\ Len(q) \in Nat
  BY DEF Cleanup, Lines
<1>1. /\ r \in Seq(Lines) /\ Len(r) = Len(Cleanup) + Len(q)
      /\ \A i \in 1 .. Len(Cleanup) + Len(q) :
           r[i] = IF i <= Len(Cleanup) THEN Cleanup[i] ELSE q[i - Len(Cleanup)]
  BY <1>0, ConcatProperties
<1> HIDE DEF r
<1>2. Len(r) = 2 + Len(q) /\ r[1] = "unbind" /\ r[2] = "clear"
  BY <1>0, <1>1
<1>3. ASSUME NEW i \in 1 .. Len(q) PROVE r[2 + i] = q[i]
  <2>1. 2 + i \in 1 .. 2 + Len(q) /\ ~ (2 + i <= 2) /\ (2 + i) - 2 = i
    BY <1>0
  <2> QED BY <1>0, <1>1, <2>1
<1>4. CASE q = <<>>
  <2>1. Len(r) = 2
    BY <1>2, <1>4
  <2> QED BY <1>1, <1>2, <2>1 DEF Sound, Owes, r
<1>5. CASE q # <<>>
  <2>1. Len(q) \in Nat \ {0} /\ r[Len(r)] = q[Len(q)]
    BY <1>0, <1>2, <1>3, <1>5
  <2>2. ASSUME NEW i \in 1 .. Len(r) - 1
        PROVE  \/ r[i] \in {"unbind", "clear"}
               \/ r[i] \in Work /\ r[Len(r)] = "tool"
    <3>1. CASE i <= 2
      BY <1>2, <3>1
    <3>2. CASE i > 2
      <4>1. i - 2 \in 1 .. Len(q) - 1 /\ i - 2 \in 1 .. Len(q) /\ 2 + (i - 2) = i
        BY <1>0, <1>2, <3>2
      <4>2. r[i] = q[i - 2]
        BY <1>3, <4>1
      <4> QED BY <2>1, <4>1, <4>2 DEF Sound
    <3> QED BY <3>1, <3>2, <1>2
  <2>3. Sound(r)
    BY <1>5, <2>1, <2>2 DEF Sound
  <2>4. Owes(r) /\ r # <<>>
    BY <1>0, <1>1, <1>2 DEF Owes
  <2> QED BY <1>1, <2>3, <2>4 DEF r
<1> QED BY <1>4, <1>5

----------------------------------------------------------------------------
(* The inductive invariant.                                                *)

Stages == {"none", "enter", "enable", "region", "map", "read", "unmap",
           "release", "disable"}

TypeOK ==
  /\ bound \in {"none", "vfio-pci", "uad2_compute"}
  /\ override \in {"", "vfio-pci"}
  /\ master \in BOOLEAN
  /\ probe \in Stages
  /\ todo \in [Scripts -> Seq(Lines)]
  /\ trapped \subseteq Scripts /\ pending \subseteq Scripts
  /\ running \subseteq Scripts /\ upset \subseteq Scripts

\* What uad2_identity_probe holds is where it is; it runs on an endpoint that
\* nobody is bound to, whose bus master nothing can enable meanwhile.
ProbeInv ==
  /\ probe \in {"none", "enter", "enable"} => holds = {}
  /\ probe \in {"region", "disable"} => holds = {"enable"}
  /\ probe \in {"map", "release"} => holds = {"enable", "region"}
  /\ probe \in {"read", "unmap"} => holds = {"enable", "region", "map"}
  /\ probe # "none" => bound = "none"
  /\ probe \notin {"none", "enter"} => ~ master

\* The lines of a shell before and after its trap is installed.
ShellInv(s) ==
  /\ s \notin trapped => todo[s] = <<>> \/ \E k \in 1 .. 4 : todo[s] = Rest(k)
  /\ s \in trapped => Sound(todo[s])
  /\ s \in running => s \in trapped /\ todo[s] = <<"tool">>
  /\ s \in pending => s \in trapped /\ s \in upset

\* A wrapper that nothing has hit is in its text or in its one cleanup, and the
\* endpoint is as its lines have left it.
CalmInv(s) ==
  s \in trapped \ upset =>
    \/ todo[s] \in {<<>>, Cleanup, <<"clear">>}
    \/ \E k \in 5 .. 9 :
         /\ todo[s] = Rest(k)
         /\ k >= 7 => override = "vfio-pci"
         /\ k = 9 => bound = "vfio-pci"

\* Whatever is set on the endpoint, a trapped script has yet to take back.
OwedInv ==
  /\ bound = "vfio-pci" => \E s \in trapped : Owes(todo[s])
  /\ override = "vfio-pci" => \E s \in trapped : todo[s] # <<>>

WrapperInv ==
  /\ TypeOK /\ ProbeInv /\ OwedInv /\ OnlyUpsetGoAstray
  /\ \A s \in Scripts : ShellInv(s) /\ CalmInv(s)

----------------------------------------------------------------------------
(* What a line of a script can be.                                         *)

\* A line after the trap is run by a trapped script, which is sound.
LEMMA TrappedLine ==
  ASSUME WrapperInv, NEW s \in Scripts, NEW l, Line(s, l),
         l \notin {"bound", "command", "other", "trap"}
  PROVE  s \in trapped /\ Sound(todo[s])
<1>1. ShellInv(s) /\ todo[s] # <<>> /\ Head(todo[s]) = l
  BY DEF WrapperInv, Line
<1>2. ASSUME s \notin trapped PROVE FALSE
  <2>1. PICK k \in 1 .. 4 : todo[s] = Rest(k)
    BY <1>1, <1>2 DEF ShellInv
  <2>2. k \in 1 .. 9 /\ k <= 4
    OBVIOUS
  <2>3. Head(todo[s]) = Script[k]
    BY <2>1, <2>2, RestLines
  <2>4. Script[k] \in {"bound", "command", "other", "trap"}
    BY <2>2, LineNumber
  <2> QED BY <1>1, <2>3, <2>4
<1> QED BY <1>1, <1>2 DEF ShellInv

\* A line up to the trap is run by a script without it.
LEMMA EntryLine ==
  ASSUME WrapperInv, NEW s \in Scripts, NEW l, Line(s, l),
         l \in {"bound", "command", "other", "trap"}
  PROVE  /\ s \notin trapped
         /\ \E k \in 1 .. 4 : todo[s] = Rest(k) /\ Script[k] = l
<1>1. ShellInv(s) /\ todo[s] # <<>> /\ Head(todo[s]) = l /\ todo[s] \in Seq(Lines)
  BY DEF WrapperInv, Line, TypeOK
<1>2. s \notin trapped
  <2> SUFFICES ASSUME s \in trapped PROVE FALSE
    OBVIOUS
  <2>1. Sound(todo[s]) /\ Head(todo[s]) # "tool"
    BY <1>1 DEF ShellInv
  <2>2. Head(todo[s]) \in Work \cup {"unbind", "clear"}
    BY <1>1, <2>1, SoundTail
  <2> QED BY <1>1, <2>2 DEF Work
<1>3. PICK k \in 1 .. 4 : todo[s] = Rest(k)
  BY <1>1, <1>2 DEF ShellInv
<1>4. Script[k] = l
  <2>1. k \in 1 .. 9
    OBVIOUS
  <2> QED BY <1>1, <1>3, <2>1, RestLines
<1> QED BY <1>2, <1>3, <1>4

\* A calm script is at the line of its text that it runs.
LEMMA CalmLine ==
  ASSUME WrapperInv, NEW s \in trapped \ upset, NEW l, Line(s, l)
  PROVE  \/ l = "unbind" /\ todo[s] = Cleanup
         \/ l = "clear" /\ todo[s] = <<"clear">>
         \/ \E k \in 5 .. 9 :
              /\ todo[s] = Rest(k) /\ Script[k] = l
              /\ k >= 7 => override = "vfio-pci"
              /\ k = 9 => bound = "vfio-pci"
<1>1. /\ s \in Scripts /\ CalmInv(s) /\ todo[s] # <<>> /\ Head(todo[s]) = l
  BY DEF WrapperInv, Line, TypeOK
<1>2. CASE todo[s] \in {<<>>, Cleanup, <<"clear">>}
  BY <1>1, <1>2, CleanupLines
<1>3. ASSUME NEW k \in 5 .. 9, todo[s] = Rest(k),
             k >= 7 => override = "vfio-pci", k = 9 => bound = "vfio-pci"
      PROVE  \E j \in 5 .. 9 :
               /\ todo[s] = Rest(j) /\ Script[j] = l
               /\ j >= 7 => override = "vfio-pci"
               /\ j = 9 => bound = "vfio-pci"
  <2>0. k \in 1 .. 9
    OBVIOUS
  <2>1. Script[k] = l
    BY <1>1, <1>3, <2>0, RestLines
  <2> QED BY <1>3, <2>1
<1> QED BY <1>1, <1>2, <1>3 DEF CalmInv

----------------------------------------------------------------------------
(* A step of one script, and what it owes the invariant.                   *)

\* What the endpoint's own state must satisfy after a step.
EndpointOK ==
  /\ bound \in {"none", "vfio-pci", "uad2_compute"} /\ override \in {"", "vfio-pci"}
  /\ master \in BOOLEAN /\ probe \in Stages
  /\ ProbeInv

LEMMA ScriptStep ==
  ASSUME WrapperInv, EndpointOK',
         NEW s \in Scripts, NEW q \in Seq(Lines), todo' = [todo EXCEPT ![s] = q],
         trapped \subseteq trapped', trapped' \subseteq trapped \cup {s},
         pending' \subseteq pending \cup {s}, running' \subseteq running \cup {s},
         upset \subseteq upset', upset' \subseteq Scripts,
         astray' \subseteq upset',
         ShellInv(s)', CalmInv(s)',
         \A t \in trapped \ upset' :
           \/ t = s \/ todo[t] = <<>>
           \/ /\ bound = "vfio-pci" => bound' = "vfio-pci"
              /\ override = "vfio-pci" => override' = "vfio-pci",
         \/ bound' # "vfio-pci"
         \/ s \in trapped' /\ Owes(q)
         \/ bound = "vfio-pci" /\ (s \in trapped /\ Owes(todo[s]) => Owes(q)),
         \/ override' # "vfio-pci"
         \/ s \in trapped' /\ q # <<>>
         \/ override = "vfio-pci" /\ (s \in trapped /\ todo[s] # <<>> => q # <<>>)
  PROVE  WrapperInv'
<1>1. TypeOK /\ OwedInv /\ \A t \in Scripts : ShellInv(t) /\ CalmInv(t)
  BY DEF WrapperInv
<1>2. /\ todo' \in [Scripts -> Seq(Lines)] /\ todo'[s] = q
      /\ \A t \in Scripts \ {s} : todo'[t] = todo[t]
  BY <1>1 DEF TypeOK
<1>3. TypeOK' /\ ProbeInv'
  BY <1>1, <1>2 DEF TypeOK, EndpointOK
<1>4. OnlyUpsetGoAstray'
  BY DEF OnlyUpsetGoAstray
<1>5. ASSUME NEW t \in Scripts PROVE ShellInv(t)' /\ CalmInv(t)'
  <2>1. CASE t = s
    BY <2>1
  <2>2. CASE t # s
    <3>1. todo'[t] = todo[t] /\ ShellInv(t) /\ CalmInv(t)
      BY <1>1, <1>2, <2>2
    <3>2. /\ t \in trapped' <=> t \in trapped
          /\ t \in pending' => t \in pending
          /\ t \in running' => t \in running
          /\ t \in upset => t \in upset'
      BY <2>2
    <3>3. ShellInv(t)'
      BY <3>1, <3>2 DEF ShellInv
    <3>4. CalmInv(t)'
      <4> SUFFICES ASSUME t \in trapped' \ upset' PROVE CalmInv(t)'
        BY DEF CalmInv
      <4>1. t \in trapped \ upset /\ t \in trapped \ upset'
        BY <3>2
      <4>2. CASE todo[t] \in {<<>>, Cleanup, <<"clear">>}
        BY <3>1, <4>2 DEF CalmInv
      <4>3. ASSUME NEW k \in 5 .. 9, todo[t] = Rest(k),
                   k >= 7 => override = "vfio-pci", k = 9 => bound = "vfio-pci"
            PROVE  CalmInv(t)'
        <5>0. k \in 1 .. 9
          OBVIOUS
        <5>1. todo[t] # <<>>
          BY <4>3, <5>0, RestLines
        <5>2. /\ bound = "vfio-pci" => bound' = "vfio-pci"
              /\ override = "vfio-pci" => override' = "vfio-pci"
          BY <2>2, <4>1, <5>1
        <5> QED BY <3>1, <4>3, <5>2 DEF CalmInv
      <4> QED BY <3>1, <4>1, <4>2, <4>3 DEF CalmInv
    <3> QED BY <3>3, <3>4
  <2> QED BY <2>1, <2>2
<1>6. OwedInv'
  <2>1. ASSUME bound' = "vfio-pci" PROVE \E t \in trapped' : Owes(todo'[t])
    <3>1. CASE s \in trapped' /\ Owes(q)
      BY <1>2, <3>1
    <3>2. CASE bound = "vfio-pci" /\ (s \in trapped /\ Owes(todo[s]) => Owes(q))
      <4>1. PICK t \in trapped : Owes(todo[t])
        BY <1>1, <3>2 DEF OwedInv
      <4>2. t \in Scripts /\ t \in trapped'
        BY <1>1 DEF TypeOK
      <4>3. Owes(todo'[t])
        BY <1>2, <3>2, <4>1, <4>2
      <4> QED BY <4>2, <4>3
    <3> QED BY <2>1, <3>1, <3>2
  <2>2. ASSUME override' = "vfio-pci" PROVE \E t \in trapped' : todo'[t] # <<>>
    <3>1. CASE s \in trapped' /\ q # <<>>
      BY <1>2, <3>1
    <3>2. CASE override = "vfio-pci" /\ (s \in trapped /\ todo[s] # <<>> => q # <<>>)
      <4>1. PICK t \in trapped : todo[t] # <<>>
        BY <1>1, <3>2 DEF OwedInv
      <4>2. t \in Scripts /\ t \in trapped'
        BY <1>1 DEF TypeOK
      <4>3. todo'[t] # <<>>
        BY <1>2, <3>2, <4>1, <4>2
      <4> QED BY <4>2, <4>3
    <3> QED BY <2>2, <3>1, <3>2
  <2> QED BY <2>1, <2>2 DEF OwedInv
<1> QED BY <1>3, <1>4, <1>5, <1>6 DEF WrapperInv

----------------------------------------------------------------------------
(* The endpoint.                                                           *)

\* What a step leaves of the endpoint when it is not about it.
LEMMA EndpointKept ==
  ASSUME WrapperInv, UNCHANGED <<bound, master, probe, holds>>,
         override' \in {"", "vfio-pci"}
  PROVE  EndpointOK'
BY DEF WrapperInv, TypeOK, EndpointOK, ProbeInv

LEMMA AttachStep ==
  ASSUME WrapperInv, NEW D, Attach(D), UNCHANGED <<override, master, holds>>
  PROVE  /\ EndpointOK'
         /\ bound = "vfio-pci" => bound' = "vfio-pci"
         /\ bound' = "vfio-pci" => bound = "vfio-pci" \/ "vfio-pci" \in D
         /\ override = "vfio-pci" =>
              /\ probe' = "none"
              /\ bound = "none" => bound' # "uad2_compute"
<1>1. /\ probe = "none" /\ holds = {} /\ override \in {"", "vfio-pci"}
      /\ bound \in {"none", "vfio-pci", "uad2_compute"} /\ master \in BOOLEAN
  BY DEF WrapperInv, TypeOK, ProbeInv, Attach, Unlocked
<1>2. /\ probe' \in {"none", "enter"}
      /\ probe' # "none" => bound' = "none" /\ override = ""
      /\ bound' \in {"none", "vfio-pci", "uad2_compute"}
  BY <1>1 DEF Attach
<1>3. EndpointOK'
  BY <1>1, <1>2 DEF EndpointOK, ProbeInv, Stages
<1> QED BY <1>1, <1>2, <1>3 DEF Attach

LEMMA IdentityStep ==
  ASSUME WrapperInv, IdentityProbe
  PROVE  EndpointOK' /\ UNCHANGED <<bound, override>>
<1>0. /\ TypeOK /\ ProbeInv
  BY DEF WrapperInv
<1>1. CASE ProbeEnter
  BY <1>0, <1>1 DEF ProbeEnter, At, TypeOK, EndpointOK, ProbeInv, Stages
<1>2. CASE ProbeAcquire("enable", "region", "none")
  BY <1>0, <1>2 DEF ProbeAcquire, At, TypeOK, EndpointOK, ProbeInv, Stages
<1>3. CASE ProbeAcquire("region", "map", "disable")
  BY <1>0, <1>3 DEF ProbeAcquire, At, TypeOK, EndpointOK, ProbeInv, Stages
<1>4. CASE ProbeAcquire("map", "read", "release")
  BY <1>0, <1>4 DEF ProbeAcquire, At, TypeOK, EndpointOK, ProbeInv, Stages
<1>5. CASE ProbeRead
  BY <1>0, <1>5 DEF ProbeRead, At, TypeOK, EndpointOK, ProbeInv, Stages
<1>6. CASE ProbeRelease("unmap", "map", "release")
  BY <1>0, <1>6 DEF ProbeRelease, At, TypeOK, EndpointOK, ProbeInv, Stages
<1>7. CASE ProbeRelease("release", "region", "disable")
  BY <1>0, <1>7 DEF ProbeRelease, At, TypeOK, EndpointOK, ProbeInv, Stages
<1>8. CASE ProbeRelease("disable", "enable", "none")
  BY <1>0, <1>8 DEF ProbeRelease, At, TypeOK, EndpointOK, ProbeInv, Stages
<1> QED BY <1>1, <1>2, <1>3, <1>4, <1>5, <1>6, <1>7, <1>8 DEF IdentityProbe

LEMMA ModuleStep ==
  ASSUME WrapperInv, Insmod \/ Rmmod \/ StartStop, UNCHANGED holds
  PROVE  /\ EndpointOK' /\ UNCHANGED override
         /\ bound' = "vfio-pci" <=> bound = "vfio-pci"
<1>0. /\ TypeOK /\ ProbeInv
  BY DEF WrapperInv
<1>1. CASE Insmod
  <2>1. PICK d \in {"uad2_compute", "uad2_identity"} : Attach({d})
    BY <1>1 DEF Insmod
  <2>2. "vfio-pci" \notin {d} /\ UNCHANGED <<override, master>>
    BY <1>1 DEF Insmod
  <2> QED BY <2>1, <2>2, AttachStep
<1>2. CASE Rmmod
  <2>1. /\ probe = "none" /\ UNCHANGED <<override, probe>>
        /\ \/ bound \in {"uad2_compute", "uad2_identity"} /\ bound' = "none" /\ master' = FALSE
           \/ UNCHANGED <<bound, master>>
    BY <1>2 DEF Rmmod, Unlocked
  <2> QED BY <1>0, <2>1 DEF TypeOK, EndpointOK, ProbeInv
<1>3. CASE StartStop
  BY <1>0, <1>3 DEF StartStop, TypeOK, EndpointOK, ProbeInv
<1> QED BY <1>1, <1>2, <1>3

\* A step that leaves the scripts alone.
LEMMA EnvironmentStep ==
  ASSUME WrapperInv, EndpointOK', UNCHANGED scriptVars, UNCHANGED override,
         bound' = "vfio-pci" <=> bound = "vfio-pci"
  PROVE  WrapperInv'
<1>1. TypeOK' /\ ProbeInv' /\ OwedInv' /\ OnlyUpsetGoAstray'
  BY DEF WrapperInv, TypeOK, EndpointOK, OwedInv, OnlyUpsetGoAstray, scriptVars
<1>2. ASSUME NEW s \in Scripts PROVE ShellInv(s)' /\ CalmInv(s)'
  BY DEF WrapperInv, ShellInv, CalmInv, scriptVars
<1> QED BY <1>1, <1>2 DEF WrapperInv

----------------------------------------------------------------------------
(* The lines before the trap.                                              *)

LEMMA ChecksStep ==
  ASSUME WrapperInv, NEW s \in Scripts, Checks(s)
  PROVE  WrapperInv'
<1>1. PICK l \in {"bound", "command", "other"} :
        Line(s, l) /\ (Proceed(s) \/ Leave(s))
  BY DEF Checks, Refusal
<1>2. UNCHANGED <<identityVars, Others, upset, astray>>
  BY DEF Checks, Refusal
<1>3. UNCHANGED <<bound, override, master, probe, holds, trapped, pending, running, upset, astray>>
  BY <1>2 DEF identityVars, pciVars, Others
<1>4. PICK k \in 1 .. 4 : s \notin trapped /\ todo[s] = Rest(k) /\ Script[k] = l
  BY <1>1, EntryLine
<1>5. k \in 1 .. 9 /\ k \in 1 .. 8 /\ k <= 3
  BY <1>1, <1>4, LineNumber
<1>6. TypeOK /\ astray \subseteq upset /\ s \notin pending /\ s \notin running
  BY <1>1 DEF WrapperInv, OnlyUpsetGoAstray, Line
<1>7. EndpointOK'
  BY <1>3, <1>6, EndpointKept DEF TypeOK
<1>8. ASSUME NEW q \in Seq(Lines), todo' = [todo EXCEPT ![s] = q],
             q = <<>> \/ \E j \in 1 .. 4 : q = Rest(j)
      PROVE  WrapperInv'
  <2>1. todo'[s] = q
    BY <1>6, <1>8 DEF TypeOK
  <2>2. ShellInv(s)' /\ CalmInv(s)'
    BY <1>3, <1>4, <1>6, <1>8, <2>1 DEF ShellInv, CalmInv
  <2>3. /\ bound' = "vfio-pci" => bound = "vfio-pci"
        /\ override' = "vfio-pci" => override = "vfio-pci"
    BY <1>3
  <2> QED BY <1>3, <1>4, <1>6, <1>7, <1>8, <2>2, <2>3, ScriptStep DEF TypeOK
<1>9. CASE Proceed(s)
  <2>0. k + 1 \in 1 .. 4 /\ k + 1 \in 1 .. 9
    BY <1>5
  <2>1. Tail(todo[s]) = Rest(k + 1)
    BY <1>4, <1>5, RestLines
  <2>2. Rest(k + 1) \in Seq(Lines)
    BY <2>0, RestLines
  <2>3. todo' = [todo EXCEPT ![s] = Rest(k + 1)]
    BY <1>9, <2>1 DEF Proceed
  <2> QED BY <1>8, <2>0, <2>2, <2>3
<1>10. CASE Leave(s)
  <2>1. todo' = [todo EXCEPT ![s] = <<>>]
    BY <1>4, <1>10 DEF Leave
  <2> QED BY <1>8, <2>1, CleanupLines
<1> QED BY <1>1, <1>9, <1>10

LEMMA InstallTrapStep ==
  ASSUME WrapperInv, NEW s \in Scripts, InstallTrap(s)
  PROVE  WrapperInv'
<1>1. Line(s, "trap") /\ Proceed(s) /\ trapped' = trapped \cup {s}
  BY DEF InstallTrap
<1>2. UNCHANGED <<bound, override, master, probe, holds, pending, running, upset, astray>>
  BY DEF InstallTrap, identityVars, pciVars
<1>3. PICK k \in 1 .. 4 : s \notin trapped /\ todo[s] = Rest(k) /\ Script[k] = "trap"
  BY <1>1, EntryLine
<1>4. k = 4 /\ 4 \in 1 .. 8 /\ 5 \in 1 .. 9
  <2>1. k \in 1 .. 9
    OBVIOUS
  <2> QED BY <1>3, <2>1, LineNumber
<1>5. Tail(todo[s]) = Rest(5)
  <2>1. Tail(Rest(4)) = Rest(4 + 1)
    BY <1>4, RestLines
  <2> QED BY <1>3, <1>4, <2>1
<1>6. Rest(5) \in Seq(Lines) /\ todo' = [todo EXCEPT ![s] = Rest(5)] /\ Rest(5) # <<>>
  BY <1>1, <1>4, <1>5, RestLines DEF Proceed
<1>7. TypeOK /\ astray \subseteq upset /\ s \notin pending /\ s \notin running
  BY <1>1 DEF WrapperInv, OnlyUpsetGoAstray, Line
<1>8. EndpointOK'
  BY <1>2, <1>7, EndpointKept DEF TypeOK
<1>9. todo'[s] = Rest(5)
  BY <1>6, <1>7 DEF TypeOK
<1>10. ShellInv(s)' /\ CalmInv(s)'
  BY <1>1, <1>2, <1>7, <1>9, SoundText DEF ShellInv, CalmInv
<1>11. /\ bound' = "vfio-pci" => bound = "vfio-pci"
       /\ override' = "vfio-pci" => override = "vfio-pci"
  BY <1>2
<1> QED BY <1>1, <1>2, <1>3, <1>6, <1>7, <1>8, <1>10, <1>11, ScriptStep DEF TypeOK

----------------------------------------------------------------------------
(* The lines after it.  A shell goes on with its next line or leaves.      *)

\* The next line, where the line that was run is one of the script's own.
LEMMA NextLine ==
  ASSUME WrapperInv, NEW s \in Scripts, NEW l \in Work, Line(s, l), Proceed(s),
         trapped' = trapped, pending' = pending, running' = running,
         upset' = upset,
         l = "driver_override" => override' = "vfio-pci",
         l = "verify" => bound' = "vfio-pci",
         override = "vfio-pci" => override' = "vfio-pci",
         bound = "vfio-pci" => bound' = "vfio-pci"
  PROVE  /\ s \in trapped
         /\ Tail(todo[s]) \in Seq(Lines)
         /\ todo' = [todo EXCEPT ![s] = Tail(todo[s])]
         /\ Owes(Tail(todo[s])) /\ Tail(todo[s]) # <<>>
         /\ ShellInv(s)' /\ CalmInv(s)'
<1>1. /\ l \notin {"bound", "command", "other", "trap"}
      /\ l \notin {"tool", "clear", "unbind"}
  BY DEF Work
<1>2. s \in trapped /\ Sound(todo[s])
  BY <1>1, TrappedLine
<1>3. /\ todo[s] \in Seq(Lines) /\ todo[s] # <<>> /\ Head(todo[s]) = l
      /\ s \notin pending /\ s \notin running /\ TypeOK
  BY DEF WrapperInv, TypeOK, Line
<1>4. /\ Tail(todo[s]) \in Seq(Lines) /\ Sound(Tail(todo[s]))
      /\ Owes(Tail(todo[s])) /\ Tail(todo[s]) # <<>>
  BY <1>1, <1>2, <1>3, SoundTail
<1>5. todo' = [todo EXCEPT ![s] = Tail(todo[s])] /\ todo'[s] = Tail(todo[s])
  BY <1>3 DEF Proceed, TypeOK
<1>6. ShellInv(s)'
  BY <1>2, <1>3, <1>4, <1>5 DEF ShellInv
<1>7. CalmInv(s)'
  <2> SUFFICES ASSUME s \in trapped \ upset PROVE CalmInv(s)'
    BY DEF CalmInv
  <2>1. PICK k \in 5 .. 9 : /\ todo[s] = Rest(k) /\ Script[k] = l
                            /\ k >= 7 => override = "vfio-pci"
    BY <1>1, CalmLine
  <2>2. k \in 1 .. 9 /\ k # 9
    BY <1>1, <2>1, ScriptLines
  <2>3. k \in 1 .. 8 /\ k + 1 \in 5 .. 9
    BY <2>2
  <2>4. todo'[s] = Rest(k + 1)
    BY <1>5, <2>1, <2>3, RestLines
  <2>5. k + 1 >= 7 => override' = "vfio-pci"
    <3>1. CASE k = 6
      BY <2>1, <3>1, ScriptLines
    <3>2. CASE k # 6
      BY <2>1, <2>3, <3>2
    <3> QED BY <3>1, <3>2
  <2>6. k + 1 = 9 => bound' = "vfio-pci"
    <3> SUFFICES ASSUME k = 8 PROVE bound' = "vfio-pci"
      BY <2>3
    <3> QED BY <2>1, ScriptLines
  <2> QED BY <2>3, <2>4, <2>5, <2>6 DEF CalmInv
<1> QED BY <1>2, <1>4, <1>5, <1>6, <1>7

\* Cleanup from the EXIT trap.
LEMMA LeaveLine ==
  ASSUME WrapperInv, NEW s \in trapped, Leave(s), s \notin running',
         trapped' = trapped, pending' \subseteq pending, upset' = upset
  PROVE  /\ todo' = [todo EXCEPT ![s] = Cleanup]
         /\ ShellInv(s)' /\ CalmInv(s)'
<1>1. s \in Scripts /\ TypeOK /\ ShellInv(s)
  BY DEF WrapperInv, TypeOK
<1>2. todo' = [todo EXCEPT ![s] = Cleanup] /\ todo'[s] = Cleanup
  BY <1>1 DEF Leave, TypeOK
<1>3. s \in pending' => s \in pending
  OBVIOUS
<1>4. ShellInv(s)'
  BY <1>1, <1>2, <1>3, CleanupLines DEF ShellInv
<1>5. CalmInv(s)'
  BY <1>2 DEF CalmInv
<1> QED BY <1>2, <1>4, <1>5

\* A line whose script leaves, when the endpoint stays as it is.
LEMMA RefusedStep ==
  ASSUME WrapperInv, NEW s \in Scripts, NEW l \in Work, Line(s, l), Leave(s),
         UNCHANGED <<bound, override, master, probe, holds>>,
         UNCHANGED <<trapped, pending, running, upset, astray>>
  PROVE  WrapperInv'
<1>1. s \in trapped
  BY TrappedLine DEF Work
<1>2. TypeOK /\ astray \subseteq upset /\ s \notin running
  BY DEF WrapperInv, OnlyUpsetGoAstray, Line
<1>3. EndpointOK'
  BY <1>2, EndpointKept DEF TypeOK
<1>4. todo' = [todo EXCEPT ![s] = Cleanup] /\ ShellInv(s)' /\ CalmInv(s)'
  BY <1>1, <1>2, LeaveLine
<1> QED BY <1>1, <1>2, <1>3, <1>4, CleanupLines, ScriptStep DEF TypeOK

LEMMA ModprobeStep ==
  ASSUME WrapperInv, NEW s \in Scripts, Modprobe(s)
  PROVE  WrapperInv'
<1>1. Line(s, "modprobe") /\ "modprobe" \in Work
  BY DEF Modprobe, Work
<1>2. UNCHANGED <<override, master, holds>> /\ UNCHANGED <<trapped, pending, running, upset, astray>>
  BY DEF Modprobe, Others
<1>3. TypeOK /\ astray \subseteq upset
  BY DEF WrapperInv, OnlyUpsetGoAstray
<1>4. CASE Proceed(s) /\ Attach({"vfio-pci"} \ loaded)
  <2>1. EndpointOK' /\ (bound = "vfio-pci" => bound' = "vfio-pci")
    BY <1>2, <1>4, AttachStep
  <2>2. /\ s \in trapped
        /\ Tail(todo[s]) \in Seq(Lines)
        /\ todo' = [todo EXCEPT ![s] = Tail(todo[s])]
        /\ Owes(Tail(todo[s])) /\ Tail(todo[s]) # <<>>
        /\ ShellInv(s)' /\ CalmInv(s)'
    BY <1>1, <1>2, <1>4, <2>1, NextLine
  <2> QED BY <1>2, <1>3, <2>1, <2>2, ScriptStep DEF TypeOK
<1>5. CASE Leave(s) /\ UNCHANGED <<loaded, bound, probe>>
  BY <1>1, <1>2, <1>5, RefusedStep
<1> QED BY <1>4, <1>5 DEF Modprobe

LEMMA DriverOverrideStep ==
  ASSUME WrapperInv, NEW s \in Scripts, DriverOverride(s)
  PROVE  WrapperInv'
<1>1. Line(s, "driver_override") /\ "driver_override" \in Work
  BY DEF DriverOverride, Work
<1>2. /\ UNCHANGED <<bound, master, probe, holds>>
      /\ UNCHANGED <<trapped, pending, running, upset, astray>>
  BY DEF DriverOverride, Others
<1>3. TypeOK /\ astray \subseteq upset
  BY DEF WrapperInv, OnlyUpsetGoAstray
<1>4. CASE Proceed(s) /\ override' = "vfio-pci"
  <2>1. EndpointOK'
    BY <1>2, <1>4, EndpointKept
  <2>2. /\ s \in trapped
        /\ Tail(todo[s]) \in Seq(Lines)
        /\ todo' = [todo EXCEPT ![s] = Tail(todo[s])]
        /\ Owes(Tail(todo[s])) /\ Tail(todo[s]) # <<>>
        /\ ShellInv(s)' /\ CalmInv(s)'
    BY <1>1, <1>2, <1>4, NextLine
  <2> QED BY <1>2, <1>3, <1>4, <2>1, <2>2, ScriptStep DEF TypeOK
<1>5. CASE Leave(s) /\ UNCHANGED override
  BY <1>1, <1>2, <1>5, RefusedStep
<1> QED BY <1>4, <1>5 DEF DriverOverride

LEMMA DriversProbeStep ==
  ASSUME WrapperInv, NEW s \in Scripts, DriversProbe(s)
  PROVE  WrapperInv'
<1>1. Line(s, "drivers_probe") /\ "drivers_probe" \in Work
  BY DEF DriversProbe, Work
<1>2. /\ UNCHANGED <<override, master, holds>>
      /\ UNCHANGED <<trapped, pending, running, upset>>
  BY DEF DriversProbe, Others
<1>3. TypeOK /\ astray \subseteq upset
  BY DEF WrapperInv, OnlyUpsetGoAstray
<1>4. CASE /\ Proceed(s) /\ Attach(loaded)
           /\ astray' = IF probe' # "none" \/ (bound = "none" /\ bound' = "uad2_compute")
                        THEN astray \cup {s} ELSE astray
  <2>1. /\ EndpointOK' /\ (bound = "vfio-pci" => bound' = "vfio-pci")
        /\ override = "vfio-pci" => /\ probe' = "none"
                                    /\ bound = "none" => bound' # "uad2_compute"
    BY <1>2, <1>4, AttachStep
  <2>2. /\ s \in trapped
        /\ Tail(todo[s]) \in Seq(Lines)
        /\ todo' = [todo EXCEPT ![s] = Tail(todo[s])]
        /\ Owes(Tail(todo[s])) /\ Tail(todo[s]) # <<>>
        /\ ShellInv(s)' /\ CalmInv(s)'
    BY <1>1, <1>2, <1>4, <2>1, NextLine
  <2>3. astray' \subseteq upset'
    <3>1. CASE s \in upset
      BY <1>2, <1>3, <1>4, <3>1
    <3>2. CASE s \notin upset
      <4>1. PICK k \in 5 .. 9 : Script[k] = "drivers_probe" /\ (k >= 7 => override = "vfio-pci")
        BY <1>1, <2>2, <3>2, CalmLine
      <4>2. k = 7
        <5>1. k \in 1 .. 9
          OBVIOUS
        <5> QED BY <4>1, <5>1, LineNumber
      <4>3. override = "vfio-pci"
        BY <4>1, <4>2
      <4>4. astray' = astray
        BY <1>4, <2>1, <4>3
      <4> QED BY <1>2, <1>3, <4>4
    <3> QED BY <3>1, <3>2
  <2> QED BY <1>2, <1>3, <2>1, <2>2, <2>3, ScriptStep DEF TypeOK
<1>5. CASE Leave(s) /\ UNCHANGED <<bound, probe, astray>>
  BY <1>1, <1>2, <1>5, RefusedStep
<1> QED BY <1>4, <1>5 DEF DriversProbe

LEMMA VerifyStep ==
  ASSUME WrapperInv, NEW s \in Scripts, Verify(s)
  PROVE  WrapperInv'
<1>1. Line(s, "verify") /\ "verify" \in Work
  BY DEF Verify, Work
<1>2. /\ UNCHANGED <<bound, override, master, probe, holds>>
      /\ UNCHANGED <<trapped, pending, running, upset, astray>>
  BY DEF Verify, Others, identityVars, pciVars
<1>3. TypeOK /\ astray \subseteq upset
  BY DEF WrapperInv, OnlyUpsetGoAstray
<1>4. CASE bound = "vfio-pci" /\ Proceed(s)
  <2>1. EndpointOK'
    BY <1>2, <1>3, EndpointKept DEF TypeOK
  <2>2. /\ s \in trapped
        /\ Tail(todo[s]) \in Seq(Lines)
        /\ todo' = [todo EXCEPT ![s] = Tail(todo[s])]
        /\ Owes(Tail(todo[s])) /\ Tail(todo[s]) # <<>>
        /\ ShellInv(s)' /\ CalmInv(s)'
    BY <1>1, <1>2, <1>4, NextLine
  <2> QED BY <1>2, <1>3, <2>1, <2>2, ScriptStep DEF TypeOK
<1>5. CASE Leave(s)
  BY <1>1, <1>2, <1>5, RefusedStep
<1> QED BY <1>4, <1>5 DEF Verify

----------------------------------------------------------------------------
(* The tool, cleanup and signals.                                          *)

LEMMA ToolStartStep ==
  ASSUME WrapperInv, NEW s \in Scripts, ToolStart(s)
  PROVE  WrapperInv'
<1>1. Line(s, "tool") /\ running' = running \cup {s}
  BY DEF ToolStart
<1>2. /\ UNCHANGED <<bound, override, master, probe, holds>>
      /\ UNCHANGED <<todo, trapped, pending, upset, astray>>
  BY DEF ToolStart, identityVars, pciVars
<1>3. /\ TypeOK /\ astray \subseteq upset /\ ShellInv(s) /\ CalmInv(s)
      /\ s \notin pending /\ todo[s] # <<>> /\ Head(todo[s]) = "tool"
      /\ todo[s] \in Seq(Lines)
  BY <1>1 DEF WrapperInv, OnlyUpsetGoAstray, Line, TypeOK
<1>4. EndpointOK'
  BY <1>2, <1>3, EndpointKept DEF TypeOK
<1>5. s \in trapped /\ Sound(todo[s])
  BY <1>1, TrappedLine
<1>6. todo[s] = <<"tool">>
  BY <1>3, <1>5, SoundTool
<1>7. ShellInv(s)' /\ CalmInv(s)'
  BY <1>2, <1>3, <1>5, <1>6 DEF ShellInv, CalmInv
<1>8. todo' = [todo EXCEPT ![s] = todo[s]]
  BY <1>2, <1>3 DEF TypeOK
<1> QED BY <1>1, <1>2, <1>3, <1>4, <1>5, <1>7, <1>8, ScriptStep DEF TypeOK

LEMMA ToolEndStep ==
  ASSUME WrapperInv, NEW s \in Scripts, ToolEnd(s)
  PROVE  WrapperInv'
<1>1. s \in running /\ running' = running \ {s} /\ Leave(s)
  BY DEF ToolEnd
<1>2. /\ UNCHANGED <<bound, override, master, probe, holds>>
      /\ UNCHANGED <<trapped, pending, upset>>
  BY DEF ToolEnd
<1>3. TypeOK /\ astray \subseteq upset /\ ShellInv(s) /\ CalmInv(s)
  BY DEF WrapperInv, OnlyUpsetGoAstray
<1>4. s \in trapped /\ todo[s] = <<"tool">>
  BY <1>1, <1>3 DEF ShellInv
<1>5. EndpointOK'
  BY <1>2, <1>3, EndpointKept DEF TypeOK
<1>6. todo' = [todo EXCEPT ![s] = Cleanup] /\ ShellInv(s)' /\ CalmInv(s)'
  BY <1>1, <1>2, <1>4, LeaveLine
<1>7. astray' \subseteq upset'
  <2>1. CASE s \in upset
    BY <1>2, <1>3, <2>1 DEF ToolEnd
  <2>2. CASE s \notin upset
    <3>1. todo[s] # <<>> /\ Head(todo[s]) = "tool"
      BY <1>4
    <3>2. todo[s] \notin {<<>>, Cleanup, <<"clear">>}
      BY <3>1, CleanupLines
    <3>3. PICK k \in 5 .. 9 : todo[s] = Rest(k) /\ (k = 9 => bound = "vfio-pci")
      BY <1>3, <1>4, <2>2, <3>2 DEF CalmInv
    <3>4. k = 9
      <4>1. k \in 1 .. 9
        OBVIOUS
      <4>2. Script[k] = "tool"
        BY <3>1, <3>3, <4>1, RestLines
      <4> QED BY <4>1, <4>2, LineNumber
    <3>5. astray' = astray
      BY <3>3, <3>4 DEF ToolEnd
    <3> QED BY <1>2, <1>3, <3>5
  <2> QED BY <2>1, <2>2
<1> QED BY <1>1, <1>2, <1>3, <1>4, <1>5, <1>6, <1>7, CleanupLines, ScriptStep DEF TypeOK

LEMMA ToolOpenStep ==
  ASSUME WrapperInv, NEW s \in Scripts, ToolOpen(s)
  PROVE  WrapperInv'
<1>1. UNCHANGED <<bound, override, master, probe, holds>> /\ UNCHANGED scriptVars
  BY DEF ToolOpen
<1>2. EndpointOK'
  BY <1>1, EndpointKept DEF WrapperInv, TypeOK
<1> QED BY <1>1, <1>2, EnvironmentStep

\* A line of cleanup and the ones after it.
LEMMA CleanupLine ==
  ASSUME WrapperInv, NEW s \in Scripts, NEW l \in {"unbind", "clear"},
         Line(s, l), Proceed(s), trapped' = trapped, pending' = pending,
         running' = running, upset \subseteq upset'
  PROVE  /\ s \in trapped /\ Tail(todo[s]) \in Seq(Lines)
         /\ todo' = [todo EXCEPT ![s] = Tail(todo[s])]
         /\ l = "unbind" => Tail(todo[s]) # <<>>
         /\ l = "clear" /\ Owes(todo[s]) => Owes(Tail(todo[s]))
         /\ ShellInv(s)' /\ CalmInv(s)'
<1>1. s \in trapped /\ Sound(todo[s])
  BY TrappedLine
<1>2. /\ TypeOK /\ todo[s] \in Seq(Lines) /\ todo[s] # <<>> /\ Head(todo[s]) = l
      /\ s \notin pending /\ s \notin running
  BY DEF WrapperInv, TypeOK, Line
<1>3. /\ Tail(todo[s]) \in Seq(Lines) /\ Sound(Tail(todo[s]))
      /\ l = "unbind" => Tail(todo[s]) # <<>>
      /\ l = "clear" /\ Owes(todo[s]) => Owes(Tail(todo[s]))
  BY <1>1, <1>2, SoundTail
<1>4. todo' = [todo EXCEPT ![s] = Tail(todo[s])] /\ todo'[s] = Tail(todo[s])
  BY <1>2 DEF Proceed, TypeOK
<1>5. ShellInv(s)'
  BY <1>1, <1>2, <1>3, <1>4 DEF ShellInv
<1>6. CalmInv(s)'
  <2> SUFFICES ASSUME s \in trapped \ upset PROVE CalmInv(s)'
    BY DEF CalmInv
  <2>1. ~ \E k \in 5 .. 9 : Script[k] = l
    <3>1. \A k \in 5 .. 9 : k \in 1 .. 9
      OBVIOUS
    <3> QED BY <3>1, LineNumber
  <2>2. todo[s] = Cleanup \/ todo[s] = <<"clear">>
    BY <2>1, CalmLine
  <2>3. Tail(todo[s]) \in {<<>>, <<"clear">>}
    BY <2>2, CleanupLines
  <2> QED BY <1>4, <2>3 DEF CalmInv
<1> QED BY <1>1, <1>3, <1>4, <1>5, <1>6

LEMMA UnbindStep ==
  ASSUME WrapperInv, NEW s \in Scripts, Unbind(s)
  PROVE  WrapperInv'
<1>1. Line(s, "unbind") /\ Proceed(s) /\ "unbind" \in {"unbind", "clear"}
  BY DEF Unbind
<1>2. UNCHANGED <<override, master, probe, holds>> /\ UNCHANGED <<trapped, pending, running, astray>>
  BY DEF Unbind, Others
<1>3. TypeOK /\ ProbeInv /\ astray \subseteq upset
  BY DEF WrapperInv, OnlyUpsetGoAstray
<1>4. bound' # "vfio-pci" /\ bound' \in {"none", "uad2_compute"}
  BY <1>3 DEF Unbind, TypeOK
<1>5. /\ upset \subseteq upset' /\ upset' \subseteq Scripts
      /\ (bound = "vfio-pci" => \A t \in trapped \ upset' : t = s \/ todo[t] = <<>>)
  BY <1>3 DEF Unbind, Disturbs, Ended, TypeOK
<1>6. EndpointOK'
  <2>1. bound' = "none" \/ bound' = bound
    BY DEF Unbind
  <2> QED BY <1>2, <1>3, <1>4, <2>1 DEF TypeOK, EndpointOK, ProbeInv
<1>7. /\ s \in trapped /\ Tail(todo[s]) \in Seq(Lines)
      /\ todo' = [todo EXCEPT ![s] = Tail(todo[s])]
      /\ Tail(todo[s]) # <<>>
      /\ ShellInv(s)' /\ CalmInv(s)'
  BY <1>1, <1>2, <1>5, CleanupLine
<1>8. astray' \subseteq upset'
  BY <1>2, <1>3, <1>5
<1>9. \A t \in trapped \ upset' :
        \/ t = s \/ todo[t] = <<>>
        \/ /\ bound = "vfio-pci" => bound' = "vfio-pci"
           /\ override = "vfio-pci" => override' = "vfio-pci"
  BY <1>2, <1>5
<1> QED BY <1>2, <1>4, <1>5, <1>6, <1>7, <1>8, <1>9, ScriptStep

LEMMA ClearOverrideStep ==
  ASSUME WrapperInv, NEW s \in Scripts, ClearOverride(s)
  PROVE  WrapperInv'
<1>1. Line(s, "clear") /\ Proceed(s) /\ "clear" \in {"unbind", "clear"}
  BY DEF ClearOverride
<1>2. /\ UNCHANGED <<bound, master, probe, holds>> /\ override' = ""
      /\ UNCHANGED <<trapped, pending, running, astray>>
  BY DEF ClearOverride, Others
<1>3. TypeOK /\ astray \subseteq upset
  BY DEF WrapperInv, OnlyUpsetGoAstray
<1>4. EndpointOK'
  BY <1>2, EndpointKept
<1>5. /\ upset \subseteq upset' /\ upset' \subseteq Scripts
      /\ \A t \in trapped \ upset' : t = s \/ todo[t] = <<>>
  BY <1>3 DEF ClearOverride, Disturbs, Ended, TypeOK
<1>6. /\ s \in trapped /\ Tail(todo[s]) \in Seq(Lines)
      /\ todo' = [todo EXCEPT ![s] = Tail(todo[s])]
      /\ Owes(todo[s]) => Owes(Tail(todo[s]))
      /\ ShellInv(s)' /\ CalmInv(s)'
  BY <1>1, <1>2, <1>5, CleanupLine
<1>7. astray' \subseteq upset' /\ override' # "vfio-pci"
  BY <1>2, <1>3, <1>5
<1>8. bound' # "vfio-pci" \/ bound = "vfio-pci"
  BY <1>2
<1> QED BY <1>2, <1>4, <1>5, <1>6, <1>7, <1>8, ScriptStep

LEMMA RunTrapStep ==
  ASSUME WrapperInv, NEW s \in Scripts, RunTrap(s)
  PROVE  WrapperInv'
<1>1. s \in pending /\ s \notin running /\ pending' = pending \ {s}
  BY DEF RunTrap
<1>2. /\ UNCHANGED <<bound, override, master, probe, holds>>
      /\ UNCHANGED <<trapped, running, upset, astray>>
  BY DEF RunTrap, identityVars, pciVars
<1>3. TypeOK /\ astray \subseteq upset /\ ShellInv(s) /\ todo[s] \in Seq(Lines)
  BY DEF WrapperInv, OnlyUpsetGoAstray, TypeOK
<1>4. s \in trapped /\ s \in upset /\ Sound(todo[s])
  BY <1>1, <1>3 DEF ShellInv
<1> DEFINE q == Cleanup \o todo[s]
<1>5. q \in Seq(Lines) /\ Sound(q) /\ Owes(q) /\ q # <<>>
  BY <1>3, <1>4, CleanupJoined
<1>6. todo' = [todo EXCEPT ![s] = q] /\ todo'[s] = q
  BY <1>3 DEF RunTrap, TypeOK
<1> HIDE DEF q
<1>7. EndpointOK'
  BY <1>2, <1>3, EndpointKept DEF TypeOK
<1>8. ShellInv(s)' /\ CalmInv(s)'
  BY <1>1, <1>2, <1>4, <1>5, <1>6 DEF ShellInv, CalmInv
<1> QED BY <1>1, <1>2, <1>3, <1>4, <1>5, <1>6, <1>7, <1>8, ScriptStep DEF TypeOK

LEMMA SignalStep ==
  ASSUME WrapperInv, NEW s \in Scripts, Signal(s)
  PROVE  WrapperInv'
<1>1. upset' = upset \cup {s}
  BY DEF Signal
<1>2. /\ UNCHANGED <<bound, override, master, probe, holds>>
      /\ UNCHANGED <<trapped, running, astray>>
  BY DEF Signal, identityVars, pciVars
<1>3. TypeOK /\ astray \subseteq upset /\ ShellInv(s) /\ todo[s] \in Seq(Lines)
  BY DEF WrapperInv, OnlyUpsetGoAstray, TypeOK
<1>4. EndpointOK'
  BY <1>2, <1>3, EndpointKept DEF TypeOK
<1>5. CalmInv(s)' /\ upset \subseteq upset' /\ upset' \subseteq Scripts /\ astray' \subseteq upset'
  BY <1>1, <1>2, <1>3 DEF CalmInv, TypeOK
<1>6. CASE s \in trapped
  <2>1. pending' = pending \cup {s} /\ UNCHANGED todo
    BY <1>6 DEF Signal
  <2>2. todo' = [todo EXCEPT ![s] = todo[s]]
    BY <1>3, <2>1 DEF TypeOK
  <2>3. ShellInv(s)'
    BY <1>1, <1>2, <1>3, <1>6, <2>1 DEF ShellInv
  <2> QED BY <1>2, <1>3, <1>4, <1>5, <2>1, <2>2, <2>3, ScriptStep
<1>7. CASE s \notin trapped
  <2>1. todo' = [todo EXCEPT ![s] = <<>>] /\ UNCHANGED pending
    BY <1>7 DEF Signal
  <2>2. todo'[s] = <<>>
    BY <1>3, <2>1 DEF TypeOK
  <2>3. ShellInv(s)'
    BY <1>1, <1>2, <1>3, <1>7, <2>1, <2>2 DEF ShellInv
  <2> QED BY <1>2, <1>3, <1>4, <1>5, <1>7, <2>1, <2>3, CleanupLines, ScriptStep
<1> QED BY <1>6, <1>7

----------------------------------------------------------------------------
LEMMA WrapperInit == Init => WrapperInv
<1> SUFFICES ASSUME Init PROVE WrapperInv
  OBVIOUS
<1>1. TypeOK /\ ProbeInv /\ OwedInv /\ OnlyUpsetGoAstray
  BY ScriptLines DEF Init, PciInit, TypeOK, Stages, ProbeInv, OwedInv, OnlyUpsetGoAstray
<1>2. ASSUME NEW s \in Scripts PROVE ShellInv(s) /\ CalmInv(s)
  <2>1. todo[s] = Rest(1) /\ 1 \in 1 .. 4
    BY RestLines DEF Init
  <2> QED BY <2>1 DEF Init, ShellInv, CalmInv
<1> QED BY <1>1, <1>2 DEF WrapperInv

LEMMA WrapperStep == WrapperInv /\ [Next]_vars => WrapperInv'
<1> SUFFICES ASSUME WrapperInv, [Next]_vars PROVE WrapperInv'
  OBVIOUS
<1>1. ASSUME NEW s \in Scripts, Step(s) PROVE WrapperInv'
  BY <1>1, ChecksStep, InstallTrapStep, ModprobeStep, DriverOverrideStep,
     DriversProbeStep, VerifyStep, ToolStartStep, ToolEndStep, UnbindStep,
     ClearOverrideStep, RunTrapStep DEF Step
<1>2. ASSUME NEW s \in Scripts, ToolOpen(s) PROVE WrapperInv'
  BY <1>2, ToolOpenStep
<1>3. CASE Identity
  <2>1. EndpointOK' /\ UNCHANGED <<bound, override>> /\ UNCHANGED scriptVars
    BY <1>3, IdentityStep DEF Identity
  <2> QED BY <2>1, EnvironmentStep
<1>4. CASE (Insmod \/ Rmmod \/ StartStop) /\ UNCHANGED <<holds, scriptVars>>
  <2>1. /\ EndpointOK' /\ UNCHANGED override /\ UNCHANGED scriptVars
        /\ (bound' = "vfio-pci" <=> bound = "vfio-pci")
    BY <1>4, ModuleStep
  <2> QED BY <2>1, EnvironmentStep
<1>5. ASSUME NEW s \in Scripts, Signal(s) PROVE WrapperInv'
  BY <1>5, SignalStep
<1>6. CASE UNCHANGED vars
  <2>1. UNCHANGED <<bound, override, master, probe, holds>> /\ UNCHANGED scriptVars
    BY <1>6 DEF vars, identityVars, pciVars
  <2>2. EndpointOK'
    BY <2>1, EndpointKept DEF WrapperInv, TypeOK
  <2> QED BY <2>1, <2>2, EnvironmentStep
<1> QED BY <1>1, <1>2, <1>3, <1>4, <1>5, <1>6 DEF Next, Environment

\* The wrappers keep track of what they have set on the endpoint, and the
\* identity driver of what it has acquired.
THEOREM WrapperInductive == Spec => []WrapperInv
BY WrapperInit, WrapperStep, PTL DEF Spec

\* uad2_identity_probe: the registers are read with everything acquired and bus
\* mastering off, and whichever stage fails nothing is left behind, while
\* wrappers and the other module work on the same endpoint.
THEOREM IdentityClean == Spec => []IdentityLeavesNothing
<1>1. WrapperInv => IdentityLeavesNothing
  BY DEF WrapperInv, ProbeInv, IdentityLeavesNothing
<1> QED BY <1>1, WrapperInductive, PTL

\* cleanup of the wrapper scripts: when every wrapper has ended vfio-pci is not
\* bound and driver_override is empty, for any number of wrappers and signals.
THEOREM LastUnbinds == Spec => []LastLeavesUnbound
<1>1. WrapperInv => LastLeavesUnbound
  <2> SUFFICES ASSUME WrapperInv, \A s \in Scripts : Ended(s)
               PROVE  bound # "vfio-pci" /\ override = ""
    BY DEF LastLeavesUnbound
  <2>1. TypeOK /\ OwedInv
    BY DEF WrapperInv
  <2>2. \A s \in trapped : todo[s] = <<>>
    BY <2>1 DEF TypeOK, Ended
  <2>3. ~ Owes(<<>>)
    BY DEF Owes
  <2> QED BY <2>1, <2>2, <2>3 DEF OwedInv, TypeOK
<1> QED BY <1>1, WrapperInductive, PTL

\* The wrapper scripts: without a signal or the cleanup of another wrapper the
\* endpoint goes to vfio-pci alone and the tool finds its group, although the
\* modules of kernel/ come and go and other wrappers bind at the same time.
THEOREM CalmReachVfio == Spec => []OnlyUpsetGoAstray
<1>1. WrapperInv => OnlyUpsetGoAstray
  BY DEF WrapperInv
<1> QED BY <1>1, WrapperInductive, PTL
=============================================================================
