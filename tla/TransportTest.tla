--------------------------- MODULE TransportTest ---------------------------
(***************************************************************************)
(* tools/uad2-compute-transport-test.sh with the control tool it calls     *)
(* (lib/uad2ctl.c on lib/uad2_compute.c): a shell script under set -e and  *)
(* a cleanup trap, its one foreground child, and signals to the shell      *)
(* alone or to the whole process group.                                    *)
(*                                                                         *)
(* A trapped signal waits for the foreground command.  A child that the    *)
(* signal kills inside an ioctl still completes it, because the driver     *)
(* sleeps uninterruptibly.  The driver is what its ioctls do to the        *)
(* transport, each as one step (ComputeDriver has the steps).              *)
(***************************************************************************)
EXTENDS Integers, Sequences

CONSTANT NDsp   \* DSPs on the card, and rounds of the reset loop

ASSUME NDspPositive == NDsp \in Nat \ {0}

VARIABLES
  phase,    \* "script", "trap" (inside cleanup), "exit" or "killed"
  todo,     \* lines still to be run, the current one first
  child,    \* "none", or what the foreground uad2ctl does next
  hit,      \* the foreground child has been signalled
  pending,  \* a trapped signal waits for the foreground command
  status,   \* the exit status is 0: $? until cleanup saves it
  LOADED, STARTED,  \* the script's flags
  dsp,      \* the script's loop counter
  module,   \* uad2_compute is in the kernel
  driver,   \* "absent" (not bound), "stopped" or "running"
  resets,   \* DSPs that a reset command has reset
  unbound   \* phase=unbound is printed

shellVars == <<phase, todo, child, hit, pending, status, LOADED, STARTED>>
vars == <<shellVars, module, driver, dsp, resets, unbound>>

DSPS == 0 .. NDsp - 1

Script ==
  <<"checks", "insmod", "LOADED=1", "node", "info", "status",
    "start", "STARTED=1", "info", "status">>
  \o [i \in 1 .. NDsp |-> "reset"]
  \o <<"status", "stop", "STARTED=0", "info", "status",
       "rmmod", "LOADED=0", "unbound">>

TrapScript == <<"stop", "rmmod">>

Active == phase \in {"script", "trap"}
Current(line) == todo # <<>> /\ Head(todo) = line
At(line) == Active /\ Current(line)

Init ==
  /\ phase = "script" /\ todo = Script
  /\ child = "none" /\ hit = FALSE /\ pending = FALSE
  /\ status = TRUE /\ LOADED = FALSE /\ STARTED = FALSE
  /\ module = FALSE /\ driver = "absent"
  /\ dsp = 0 /\ resets = {} /\ unbound = FALSE

----------------------------------------------------------------------------
(* The shell.                                                              *)

\* The current command ends with status 0 if ok.  set -e and a pending signal
\* both lead to cleanup, which begins by saving $?; in cleanup a failure is
\* remembered and the next line runs.  Nobody waits for the child of a killed
\* shell.
Finish(ok) ==
  /\ child' = "none" /\ hit' = FALSE /\ pending' = FALSE
  /\ \/ /\ phase = "script" /\ status' = ok
        /\ IF ok /\ ~ pending
           THEN todo' = Tail(todo) /\ UNCHANGED phase
           ELSE todo' = TrapScript /\ phase' = "trap"
     \/ /\ phase = "trap" /\ status' = (status /\ ok)
        /\ todo' = Tail(todo) /\ UNCHANGED phase
     \/ phase = "killed" /\ UNCHANGED <<phase, todo, status>>

\* The identity, IOMMU group and file tests before insmod, the device node
\* after it, and the driver link at the end.
Checks ==
  /\ At("checks")
  /\ \E ok \in BOOLEAN : Finish(ok)
  /\ UNCHANGED <<LOADED, STARTED, module, driver, dsp, resets, unbound>>

DeviceNode ==
  /\ At("node") /\ Finish(driver # "absent")
  /\ UNCHANGED <<LOADED, STARTED, module, driver, dsp, resets, unbound>>

Unbound ==
  /\ At("unbound") /\ Finish(driver = "absent")
  /\ unbound' = (driver = "absent")
  /\ UNCHANGED <<LOADED, STARTED, module, driver, dsp, resets>>

Assign ==
  /\ \/ At("LOADED=1")  /\ LOADED' = TRUE   /\ UNCHANGED STARTED
     \/ At("LOADED=0")  /\ LOADED' = FALSE  /\ UNCHANGED STARTED
     \/ At("STARTED=1") /\ STARTED' = TRUE  /\ UNCHANGED LOADED
     \/ At("STARTED=0") /\ STARTED' = FALSE /\ UNCHANGED LOADED
  /\ Finish(TRUE)
  /\ UNCHANGED <<module, driver, dsp, resets, unbound>>

\* The last line is done: the EXIT trap runs cleanup.
Done ==
  /\ phase = "script" /\ todo = <<>>
  /\ phase' = "trap" /\ todo' = TrapScript
  /\ UNCHANGED <<child, hit, pending, status, LOADED, STARTED,
                 module, driver, dsp, resets, unbound>>

\* A line of cleanup whose condition is false.
Skip ==
  /\ phase = "trap" /\ child = "none"
  /\ \/ At("stop")  /\ ~ (STARTED /\ driver # "absent")
     \/ At("rmmod") /\ ~ LOADED
  /\ todo' = Tail(todo)
  /\ UNCHANGED <<phase, child, hit, pending, status, LOADED, STARTED,
                 module, driver, dsp, resets, unbound>>

Exit ==
  /\ phase = "trap" /\ todo = <<>>
  /\ phase' = "exit"
  /\ UNCHANGED <<todo, child, hit, pending, status, LOADED, STARTED,
                 module, driver, dsp, resets, unbound>>

----------------------------------------------------------------------------
(* insmod and rmmod.  insmod succeeds although a probe fails; rmmod makes  *)
(* the driver's remove stop the transport.  A signalled command has or has *)
(* not done its work, and fails.                                           *)

Insmod ==
  /\ At("insmod")
  /\ \E done, ok \in BOOLEAN :
       /\ ok => done /\ ~ hit
       /\ Finish(ok)
       /\ module' = done
       /\ driver' \in IF done THEN {"absent", "stopped"} ELSE {"absent"}
  /\ UNCHANGED <<LOADED, STARTED, dsp, resets, unbound>>

\* Mutant: cleanup does not look at the result of rmmod.
Rmmod_ResultLost ==
  /\ At("rmmod")
  /\ phase = "trap" => LOADED
  /\ \E done \in BOOLEAN :
       /\ done => module
       /\ Finish(phase = "trap" \/ (done /\ ~ hit))
       /\ module' = (module /\ ~ done)
       /\ driver' = IF done THEN "absent" ELSE driver
  /\ UNCHANGED <<LOADED, STARTED, dsp, resets, unbound>>

Rmmod ==
  /\ At("rmmod")
  /\ phase = "trap" => LOADED
  /\ \E done, ok \in BOOLEAN :
       /\ ok => done /\ ~ hit
       /\ done => module
       /\ Finish(ok)
       /\ module' = (module /\ ~ done)
       /\ driver' = IF done THEN "absent" ELSE driver
  /\ UNCHANGED <<LOADED, STARTED, dsp, resets, unbound>>

----------------------------------------------------------------------------
(* uad2ctl: open the node, make the ioctl, close.                          *)

CtlLine(line) ==
  /\ line \in {"info", "status", "start", "stop", "reset"} /\ At(line)
  /\ phase = "trap" => STARTED /\ driver # "absent"

CtlSpawn ==
  /\ child = "none"
  /\ \E line \in {"info", "status", "start", "stop", "reset"} : CtlLine(line)
  /\ child' = "open"
  /\ UNCHANGED <<phase, todo, hit, pending, status, LOADED, STARTED,
                 module, driver, dsp, resets, unbound>>

\* uad2_compute_open: without a node it fails, and it may fail for memory.
CtlOpen ==
  /\ child = "open" /\ driver # "absent" /\ ~ hit
  /\ child' = "ioctl"
  /\ UNCHANGED <<phase, todo, hit, pending, status, LOADED, STARTED,
                 module, driver, dsp, resets, unbound>>

CtlOpenFails ==
  /\ child = "open" /\ Finish(FALSE)
  /\ UNCHANGED <<LOADED, STARTED, module, driver, dsp, resets, unbound>>

\* The ioctl of the command returns zero or an error.
Result(ok) ==
  /\ child' = IF ok THEN "done" ELSE "failed"
  /\ UNCHANGED <<phase, todo, hit, pending, status, LOADED, STARTED>>

\* One command of main().  An ioctl on a device that has gone fails with
\* ENODEV.
CtlQuery ==
  /\ child = "ioctl" /\ (Current("info") \/ Current("status"))
  /\ \E ok \in BOOLEAN : (ok => driver # "absent" /\ ~ hit) /\ Result(ok)
  /\ UNCHANGED <<module, driver, dsp, resets, unbound>>

CtlStart ==
  /\ child = "ioctl" /\ Current("start")
  /\ \E done \in BOOLEAN :
       /\ done => driver = "stopped"
       /\ driver' = IF done THEN "running" ELSE driver
       /\ Result(done)
  /\ UNCHANGED <<module, dsp, resets, unbound>>

\* A stop that reports EIO has stopped the transport all the same.
CtlStop ==
  /\ child = "ioctl" /\ Current("stop")
  /\ driver' = IF driver = "running" THEN "stopped" ELSE driver
  /\ \E ok \in BOOLEAN : (ok => driver # "absent") /\ Result(ok)
  /\ UNCHANGED <<module, dsp, resets, unbound>>

\* One round of the reset loop.
CtlReset ==
  /\ child = "ioctl" /\ Current("reset")
  /\ dsp' = dsp + 1
  /\ \E done \in BOOLEAN :
       /\ done => driver = "running"
       /\ resets' = IF done THEN resets \cup {dsp} ELSE resets
       /\ Result(done)
  /\ UNCHANGED <<module, driver, unbound>>

\* Mutant: the label fail is left with the status of the last close.
CtlExit_StatusOfClose ==
  /\ child \in {"done", "failed"}
  /\ Finish(~ hit)
  /\ UNCHANGED <<LOADED, STARTED, module, driver, dsp, resets, unbound>>

\* A command that succeeded closes the device and exits.  One that failed
\* closes it, goes on to the label fail and closes the freed structure again:
\* the second close and free act on whatever is there, and the process aborts
\* or returns EXIT_FAILURE.
CtlExit ==
  /\ child \in {"done", "failed"}
  /\ Finish(child = "done" /\ ~ hit)
  /\ UNCHANGED <<LOADED, STARTED, module, driver, dsp, resets, unbound>>

----------------------------------------------------------------------------
\* A signal to the shell, or to its process group with the child in it.
\* cleanup has put the default actions back: a second signal ends the shell.
Signal ==
  \/ /\ phase = "script" /\ ~ pending
     /\ pending' = TRUE
     /\ hit' \in IF child # "none" \/ At("insmod") \/ At("rmmod")
                 THEN BOOLEAN ELSE {FALSE}
     /\ UNCHANGED <<phase, todo, child, status, LOADED, STARTED,
                    module, driver, dsp, resets, unbound>>
  \/ /\ phase = "trap"
     /\ phase' = "killed"
     /\ hit' \in IF child # "none" THEN {hit, TRUE} ELSE {hit}
     /\ UNCHANGED <<todo, child, pending, status, LOADED, STARTED,
                    module, driver, dsp, resets, unbound>>

\* The endpoint is unbound or unplugged under the script: the driver's remove
\* stops the transport.
Unplug ==
  /\ driver # "absent"
  /\ driver' = "absent"
  /\ UNCHANGED <<shellVars, module, dsp, resets, unbound>>

Next ==
  \/ Checks \/ DeviceNode \/ Unbound \/ Assign \/ Done \/ Skip \/ Exit
  \/ Insmod \/ Rmmod
  \/ CtlSpawn \/ CtlOpen \/ CtlOpenFails
  \/ CtlQuery \/ CtlStart \/ CtlStop \/ CtlReset \/ CtlExit
  \/ Signal \/ Unplug

Spec == Init /\ [][Next]_vars

----------------------------------------------------------------------------
\* A script that comes to its exit with the transport still running says so
\* in its exit status: STARTED may miss a start that a signal interrupted, but
\* the rmmod that follows stops the transport or fails.
RunningIsReported == phase = "exit" /\ driver = "running" => ~ status

\* phase=unbound is printed only by a test that reset every DSP and took its
\* module out again: under set -e no failing command is passed over.
UnboundIsComplete == unbound => resets = DSPS /\ ~ module

\* docs/driver-api.md: "The reproducible target-side test performs all eight
\* reset operations and always stops the transport from its cleanup trap".
SuccessResetsAll == phase = "exit" /\ status => resets = DSPS
=============================================================================
