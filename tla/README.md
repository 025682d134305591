# TLA+ model of the UAD-2 OCTO transport and experiment tools

The repository drives a Universal Audio UAD-2 OCTO card (eight DSPs, two DMA
rings each, four pages per ring) in two ways: a Linux kernel driver that
starts, stops and resets the transport for its clients
(`kernel/uad2_compute.c`), and a series of user-space experiments that do the
same and more through VFIO (`tools/vfio_*.c`). Both publish page addresses to
a bus-mastering device, so what can go wrong is mostly about order and about
the way out: an engine enabled before its descriptors are complete, a page
freed while a descriptor names it, a failed step that leaves the card running.
None of it is reachable by the repository's tests, which cover the Python
scripts.

Section 1 is the inventory, 2 the modules, 3 the runs, 4 the proofs, 5 what is
left out, 6 the plan.

## 1. Inventory

| Component | State | Operations | Hard behaviour |
|---|---|---|---|
| `kernel/uad2_compute.c` | per device: `started`, `removing`, reference count, mutex, 64 coherent pages, BAR mapping; the card's registers | open, release, seven ioctls, probe, remove | ioctls of several clients against remove and the next probe; rollback of a start; link loss in mid-sequence |
| `lib/uad2_compute.c`, `lib/uad2ctl.c` | one file descriptor | one ioctl per command | second close after a failed command |
| `tools/uad2-compute-transport-test.sh` | `LOADED`, `STARTED`, the loaded module | insmod, info, status, start, reset, stop, rmmod | signals between a command and its flag; exit status of the trap |
| `tools/vfio_full_octo_start.c` | VFIO handles, mapped pages, the card | start all rings, reset each DSP, clean up | kill between writes, signal in the loop, every `goto cleanup` |
| `tools/vfio_full_query.c` | as above, response buffer | connect, query, poll, judge | answer racing the timeout; doorbell order |
| `tools/vfio_loader_rejection.c` | as above, payload file | as above with a payload in one or two buffers | page limits, short reads |
| `tools/vfio_runtime_load.c` | as above, firmware image | as above with a descriptor chain | ring capacity, no-progress limit, late unmap failure |
| `tools/vfio_query_command.c` | as above, DSP 0 only, `*_modified` flags | query DSP 0 | what to undo after a failed readback |
| `tools/vfio_ring_descriptors.c` | as above | four experiments on one code path | modes with fewer checks and no device reset |
| `tools/vfio_official_ring_init.c` | as above, card stays cold | initialise and clear two rings | signal after the observation |
| `tools/vfio_ring_control.c` | VFIO handles, one index word | write 1, look twice, write 0, reset | kill between the two writes; exit through `die()` |
| `tools/vfio_reset_recovery.c` | VFIO handles | one reset and a timed poll | clock against a slow recovery |
| `tools/vfio_read_status.c`, `vfio_capability_snapshot.c`, `vfio_resource_layout.c`, `vfio_dma_map.c` | VFIO handles, one canary page | reads; map and unmap | a page mapped while an engine that a killed run left may still run |
| `kernel/uad2_identity.c` | what the probe has acquired | probe, which never binds | unwind labels; anybody may start the probe |
| wrapper scripts `tools/uad2-vfio-*.sh` | driver binding, `driver_override` | check, bind, run, unbind | two wrappers at once; trap that returns into the script; modules loaded between check and bind |
| register readers | none | reads | none |
| Python analysis scripts | none | parse vendor files | bounds arithmetic |

Interaction: clients reach the driver through `/dev/uad2_compute0`; its mutex
serialises the register sequences of one device, and the PCI core serialises
probe and remove of the function. A VFIO tool owns the card alone; tools run
one after the other and meet only through what a run leaves in the card. The
wrappers hand the endpoint to `vfio-pci` and take it back; they meet each other
and the two kernel modules in the PCI core.

What makes each part correct: an engine runs only through complete descriptors
of live memory; results and flags tell the truth about the card; every
resource is given back on every path; an exit leaves the card cold; a success
means what the experiment's document says it means.

## 2. Modules

`UadCard` is the card and the register helpers of the driver: the DMA control
word as a record (global bit, set of enabled DSPs, set of DSPs held in reset),
the descriptor words (`desc[<<dsp, ring, page, half>>]`, 0 or the number of the
device or run that wrote it), three index words per ring, the ready bits, the
interrupt enable and `linked`. A card that is not linked ignores writes and
reads as all ones. The ready bits may change at any time. An engine can run
(`EngineLive`) when its enable and the global bit are set and its reset bit is
not.

| Module | Models | Correspondence |
|---|---|---|
| `ComputeDriver` | `kernel/uad2_compute.c` | One actor per client and `Core` for the PCI core. `pc` is the place in the function; each register write, lock and acquisition is an action. A structure per probe (generation) so that files of a removed device stay around. |
| `Transport` | what the driver promises | absent, stopped or running, and the set of engines; `ComputeDriver` implements it. |
| `*Proofs` | | inductive invariants and theorems, section 4 |
| `VfioSession` | code that the VFIO tools share | setup, baseline, startup, cleanup label, release; signal and kill |
| `VfioExchange` | code that the command-sending tools share | connect, doorbells, poll, copy; a card that answers at any time, word by word, or never |
| `Dsp0Steps` | code that the DSP 0 tools share | descriptor words, control word with readback, flag-driven cleanup |
| `DirectSession` | code that the tools without a cleanup label share | stages that end in `die()`, after which the kernel closes what is open |
| `FullStart`, `FullQuery`, `LoaderRejection`, `RuntimeLoad`, `Dsp0Query`, `RingDescriptors`, `OfficialRingInit`, `RingControl`, `ResetRecovery` | one tool each | the tool's own `main()` on top of the shared steps |
| `ReadOnlyTools` | the four tools that write no register | `kind` is the tool; the two register snapshots, which differ in what they print, are one kind |
| `Experiment` | what every experiment promises | written only to a card found clear, engines only over mapped pages, clear again at the end unless killed; `VfioSession` has the refinement mapping |
| `Bench` | the small experiments on one card | `INSTANCE`s six tool modules; each process is any of them and finds the card as the last one left it |
| `PciEndpoint` | the PCI core, external | bound driver, `driver_override`, registered drivers, bus-master bit, device lock |
| `IdentityDriver` | `kernel/uad2_identity.c` | one step per acquisition and release of the probe |
| `VfioWrapper` | the wrapper scripts | the lines still to run of each script, trap, pending signals |
| `TransportTest` | the test script, `uad2ctl`, the library | the lines still to run, the foreground child, which runs on when the shell is killed, pending signals |
| `MC*` | | instances for TLC |

Operators with an underscore in their name (`RemoveLock_NoStop`) are mutants: a
variant of the definition that follows, changed as a bug would change it. They
take no part in any specification; each is used to see that a property notices.

Choices that a reader should know:

- The two index words of a doorbell and the interrupt shadow after them are one
  step, and so are the two clears of a ring (`ClearRing`) and the reads of one
  check. Descriptor words, control words and everything with a wait between
  them are separate steps.
- The VFIO tools do not enable PCI bus mastering. The model still lets an
  enabled engine work, which can only add behaviour.
- All runs of a tool publish the same addresses. The run number in a descriptor
  word serves the properties; no guard compares it.
- A check of a tool can fail on a card that answers, for a reason that the card
  of the model does not have: another FPGA revision, a register that does not
  read back as it was written (`Refuse` in `VfioSession`). The cleanup is then
  that of any failed check.
- The `sysfs` writes of a wrapper's script may fail, which `set -e` turns into
  its cleanup. Those of the cleanup itself are followed by `|| true`; they are
  taken to succeed.
- When a tool is killed the kernel closes the VFIO device and resets the
  function, with or without effect; both are explored.
- A setup stage that fails may leave its own descriptor behind or not.
- The wrappers are one script of nine lines. They differ in arguments, in the
  tool and in whether they read the command register (`checks`). The tool is
  opened, and ends with any status; its steps are in the other modules.
- A shell runs a trapped signal's handler between two commands. The handler of
  the wrappers does not exit, so the script goes on; that of the transport test
  does.
- `upset` and `astray` of `VfioWrapper`, and `unbound` and `resets` of
  `TransportTest`, are history for the properties; no guard reads them.

## 3. Runs

Passing runs:

| Run | Bounds | Shows |
|---|---|---|
| `driver` | 2 DSPs, 1 page, 2 entries, 2 probes, 2 clients (symmetric) | 2.2 million states. DMA safety (`DmaSafe`, `NoDanglingDescriptor`, `EnabledRingsEmpty`), exclusion (`OneRegisterUser`), lifetime (`MmioWhileMapped`, `NoUseAfterFree`, `RemovedStaysDead`), truth of `started` and of results (`StartedIsTruth`, `ResultIsTruth`), unwinding (`UnboundClean`), reset isolation (`ResetIsolation`), refinement (`ImplementsTransport`) |
| `driver_live` | 1 DSP, 1 client, 2 probes | every call, probe and remove ends (`CallsReturn`) |
| `full_start` | 2 DSPs, 2 runs | DMA containment, cold exit, complete resets behind a success, and refinement of `Experiment` (`ImplementsExperiment`): nothing that a killed run left is ever written over |
| `full_query` | 2 DSPs, 4 entries, 2 polls, 2 response words | doorbell order, connect before query, what a success says about the answer (`PolledAnswerIsWhole`: also when a signal ends the poll while the card is writing), refinement of `Experiment`, and an exit that is reached although the card may never answer. One run of the tool; the theorem of section 4 covers successive ones |
| `loader_rejection` | page of 3 words, files of 0 to 7 bytes | what is offered lies in its page and was read to the end |
| `runtime_load` | files of 1 to 5 words, pages of 2 words, ring of 6 | the chain carries the file and ends inside the ring; the printed indexes agree with the verdict when the poll saw the answer and are never ahead of it when the loop gave up (`FinalReadsAgree`); the printed result is the exit status |
| `bench` | 1 DSP, 2 pages, 2 polls, 2 words, 2 processes of any tool and mode | 1.6 million states. Every tool implements `Experiment`; cold exit (`BenchExitCold`) and cold before clear (`BenchColdFirst`) for all but experiment 001; an engine never starts over index words of an earlier process (`EngineStartsEmpty`); experiment 001 never meets a running engine although it does not look (`NoEngineIn001`); only an answer seen by the poll succeeds (`AnswerInTime`) |
| `transport_test` | 3 rounds | a transport left running is reported; `phase=unbound` means a complete test, whatever the second close of a failed command does |
| `wrapper` | 2 scripts, 2 signals, both modules at any time | 0.7 million states. The endpoint is free when the last wrapper has ended (`LastLeavesUnbound`); a wrapper that no signal and no other cleanup has hit gets `vfio-pci` and its tool finds the group (`OnlyUpsetGoAstray`); every wrapper ends (`WrappersEnd`); the identity probe reads only what it has claimed and leaves nothing (`IdentityLeavesNothing`) |

Runs that end in a violation, each a place where a document says more than the
code does:

| Run | Statement | What happens |
|---|---|---|
| `full_start_cold_first` | docs/experiment-methodology.md: cleanup "first reasserts cold DMA control" | the full-card tools clear the rings under `GLOBAL_ONLY` and go cold last. No engine is enabled then (`ContainedDma` holds) |
| `transport_test_success` | docs/driver-api.md: the test "performs all eight reset operations" | a signal while the last `$?` is 0 ends the script with status 0 and fewer resets. The sentence goes on "and always stops the transport from its cleanup trap": a signal between the end of `uad2ctl start` and `STARTED=1` leaves that to `rmmod`, and if `rmmod` fails the transport runs on, with a failing exit status (`RunningIsReported`) |
| `wrapper_bus_master` | docs/experiment-methodology.md: "PCI bus mastering is off before VFIO owns the endpoint" | the wrapper of the loader probe does not look at the command register, and the other wrappers of mutating probes look at it before the bind (those of two read-only probes, `uad2-vfio-status-probe.sh` and `uad2-vfio-dma-map.sh`, do not look either; the document does not ask it of them) |

`full_query`, `loader_rejection` and `runtime_load` share a weakness that the
properties state exactly: an answer that arrives after the last poll and during
the copy can be accepted with words that are still the canary
(`PolledAnswerIsWhole` holds only for `poll < Polls`). The whole answer is in the buffer by
then (`SuccessIsAnswered`), and no document of the repository says more of the copy. `vfio_query_command.c`
keeps the positions that its last poll read and does not have it
(`AnswerInTime`).

`vfio_official_ring_init.c` reads its signal flag once, with the observation. A
signal that arrives during the cleanup is ignored and the run may still succeed;
docs/experiment-011 lists a signal among the causes of failure. The cleanup runs
to its end either way (`BenchExitCold`).

What `OnlyUpsetGoAstray` leaves open does happen: a signalled wrapper cleans up,
goes on with `drivers_probe` and an empty override, and a loaded module of
`kernel/` may take the endpoint; its verification then refuses. The cleanup of
one wrapper takes `vfio-pci` away from another one that is not yet running its
tool, and that one's tool fails. Neither leaves the endpoint bound to `vfio-pci`
in the end.

Why the bounds are enough. Two DSPs tell "this DSP" from "the others" and a
first from a last one; one page has two descriptor words, so half-written
descriptors occur; two entries are the smallest ring with a full and an empty
state, and the exchange runs use as many as their commands need. Two probes
give an old and a new device; two clients give a holder of the mutex and a
waiter, and with `Core` three contenders. Two polls give a first, a last and a
timed-out one. Two processes on the bench give every ordered pair of tools; what
a third one could meet is what the first left, if the second refused it, or what
the second left after it had found the card clear itself. Two wrappers and two
signals give a cleanup that runs in the middle of the other script, twice. The
bench has one DSP because its tools use DSP 0 only. The proofs of section 4 hold for every bound.

`CHECK_DEADLOCK` is off because the systems really may stop: when all probes or
runs of the bound are used up, or the scripts have exited.

Fairness. `driver_live`: a client or the PCI core that is in a call goes on
(weak fairness), and a waiter for the mutex gets it (strong fairness on the
locking steps: Linux mutexes hand over to the first waiter). Nothing is assumed
of the card or of calls not yet made. Tools: weak fairness of `main()`, since a
runnable process is scheduled and its sleeps end. Nothing is assumed of the
card, of signals or of kills. `wrapper`: each script goes on and each tool ends
(the tools' loops are bounded, see `RunEnds`), with strong fairness because a
line may wait for the device lock or the VFIO group, which other scripts and
probes take and give back; the kernel serves such waiters in turn. Nothing is
assumed of the modules being loaded or of the group being opened.

## 4. Proofs

| Module | Theorem | Property | Holds for every |
|---|---|---|---|
| `ComputeDriverProofs` | `TypeCorrect` | `TypeOK` | number of DSPs, pages, entries, probes; set of clients |
| | `DmaSafety` | `DmaSafe` | |
| | `NoDangling` | `NoDanglingDescriptor` | |
| | `ExclusiveRegisters` | `OneRegisterUser` | |
| | `MappedAccess` | `MmioWhileMapped` | |
| | `DeadAfterRemove` | `RemovedStaysDead` | |
| | `CleanUnbind` | `UnboundClean` | |
| | `UseBeforeFree` | `NoUseAfterFree` | |
| | `StartedTruth` | `StartedIsTruth` | |
| | `ResultTruth` | `ResultIsTruth` | |
| | `RingsEmpty` | `EnabledRingsEmpty` | |
| | `IsolatedReset` | `ResetIsolation`, an action property | |
| | `TransportRefined` | `ImplementsTransport`, a refinement | |
| `FullStartProofs` | `Containment` | `ContainedDma` | number of DSPs, pages, entries, runs |
| | `ColdExit` | `ExitLeavesCold` | |
| | `ResetsComplete` | `SuccessResetAll` | |
| | `ExperimentRefined` | `ImplementsExperiment`, a refinement | |
| `FullQueryProofs` | `OfferedFirst` | `ResponseOffered` | number of DSPs, pages, polls, response words, runs; more than 3 entries |
| | `ConnectedQuery` | `QueryAfterConnect` | |
| | `AnsweredSuccess` | `SuccessIsAnswered` | |
| | `WholeAnswer` | `PolledAnswerIsWhole` | |
| | `QueryRefines` | `ImplementsExperiment`, a refinement | |
| `LoaderProofs` | `WholeFileOffered` | `ChainCarriesFile` | size of file and page; number of DSPs, ring pages, entries, polls, response words, runs |
| | `PrintedIndexes` | `FinalReadsAgree` | |
| | `ReportedStatus` | `ReportIsExitStatus` | |
| | `ProbeInPage` | `OfferedInPage` of `LoaderRejection`, instantiated as `Probe` | size of word, page and file |
| `BenchProofs` | `BenchEndsCold` | `BenchExitCold` | number of DSPs, pages, polls, response words, processes; more than 1 entry |
| | `EngineOverEmptyRings` | `EngineStartsEmpty` | |
| | `QueryAnswersInTime` | `AnswerInTime` | |
| | `No001Engine` | `NoEngineIn001` | |
| | `ColdBeforeClearing` | `BenchColdFirst`, an action property | |
| | `BenchRefines` | `ImplementsExperiment`, a refinement | |
| `TransportTestProofs` | `RunningReported` | `RunningIsReported` | number of DSPs |
| | `UnboundComplete` | `UnboundIsComplete` | |
| `VfioWrapperProofs` | `IdentityClean` | `IdentityLeavesNothing` | set of wrappers, number of signals |
| | `LastUnbinds` | `LastLeavesUnbound` | |
| | `CalmReachVfio` | `OnlyUpsetGoAstray` | |

So every invariant, every action property and every refinement that a passing
run checks is proved. Assumed of the constants: the numbers of the card, of
polls and of response words are positive, `Clients` is finite, `Core` is not a
client, and `Nobody` not an actor or a script; a word of the loader probe fits in
its page (4 and 4096 bytes in the code); the load tool gives up for want of
progress within its polls (`NO_PROGRESS_LIMIT_MS` in the code). For the query tool a ring has
more than three entries (1024 in the code): connect mode uses the positions up
to 3, and in a smaller ring the position of the query would be one that the
connect commands had. The bench needs more than one entry, so that the position
1 that its query waits for is not the 0 that the ring starts from. The load tool
needs no such assumption: it tests the capacity of the ring itself. Nothing else
is assumed of the constants.
`UadCardProofs` has what several proofs need of the card: its words keep their
type under a write, and which engines a control word lets run.

None of the properties is inductive as it stands. Each proof rests on a
conjunction that is, with a lemma per conjunct and in it a step per action; TLC
checked each conjunction on the bounds of its run before it was proved.

### The driver

`IInv` of `ComputeDriverProofs`: `LoopOK` (what is still to be written or
cleared at each place of a loop), `LockInv` (who is inside a locked section owns
the mutex of its device), `GenInv` (which generations can be bound, removed, or
not yet probed), `CoreInv` (what probe and remove hold at each place),
`PagesInv` (a device with descriptors in the card has all its pages),
`StartedInv` (a started device is bound and its rings are complete), `CardInv`
(descriptors belong to the bound device; no engine while words are missing),
`ProgressInv` (how far a sequence is, read off the card). `LockInv` with
`GenInv` gives exclusion: two actors in register sequences would own the same
mutex, or one of them a device that is no longer bound. `CardInv`,
`ProgressInv` and `PagesInv` give DMA safety: an engine is live only for a DSP
all of whose words are written, or while its descriptors are untouched, and
pages go only after the words.

`LifetimeInv`, in the same module, adds `HeldInv` (what the bound device has acquired at each place
of probe and remove, and nothing for any other), `CoreOwns` (the PCI core has a
mutex only between the lock and the unlock of remove), `MasterInv` (bus mastering
is on exactly for a started device and inside a start or its rollback) and
`RefInv`: the reference count of a generation is the number of files that have
it open, plus one for the binding. A count that is merely positive is not
preserved by a release, so the number of users has to be in the invariant; this
is where the finiteness of `Clients` is used.

`TransportInv` adds `DmaInv` (the value of the control register at each place of
start, reset and teardown, and `ALL_DSPS` for a running transport with nobody
inside), `IdxInv` (all indexes are zero while a transport runs or is started or
stopped: a start clears them and no driver step moves one) and `ResultInv` (what
a result that is about to be returned says about `started`). From it follow
`StartedIsTruth` and `ResultIsTruth`, `ResetIsolation` for each step of a reset,
and the refinement: under the mapping of `ImplementsTransport` each action is
shown to be a stutter or a step of one abstract action, with one lemma per
abstract action.

### The start tool

`IInv` of `FullStartProofs`: `HeldInv` (what the process holds, complete from
the baseline test to the release), `WordInv` (the value of the control register
at each place), `HostWordInv` (the descriptor and index words, and how far the
loops over them have come) and `ResetInv` (the DSPs that passed are those before
the current one, and a loop that ended early left a flag that the verdict looks
at). It says nothing of the card while the process has written nothing: that a
killed run may have left it in any state is what the baseline check is for, and
`WordInv` begins after it. The refinement of `Experiment` goes the same way as
that of `Transport`.

### The query tool

`QueryInv` of `FullQueryProofs` needs nothing of the control register or the
descriptors; the refinement below does. Its first observation is in `QueryTypeOK`: the indexes that the
tool takes before the startup and uses after it are always zero, since the
baseline test refuses a card with any other and what a lost card returns is out
of bounds. `BellInv` then gives the index words of an answering card from the
baseline test to the verdict: the card consumes only up to a doorbell, so words
that are equal stay as they are, and the response index is 0, or 1 with every
word of the buffer written. `OfferInv` carries the order of the two doorbells
through cleanup, where the command ring of a DSP is cleared before its response
ring. `AnswerInv` says what is known at each place after the poll: a response
index seen at its position implies a full buffer, a full buffer does not change,
so a copy made after it is the buffer. A lost card is no exception because the
value it returns is never the position that is waited for.

The refinement of `Experiment` has an invariant of its own, with the parts that
the start tool has: `HeldInv`, `WordInv` and `HostWordInv`. The last one is
weaker here: the tool moves the doorbells and the card its indexes, so between
the startup and the cleanup it says nothing of the words, which are zero before
the one and, ring by ring, after the other. Doorbells and polls are stutters of
`Experiment`; a connect sequence that is not consumed goes through the same
cleanup as a verdict.

### The loader tools

`LoadInv` of `LoaderProofs` goes along the lines of the query tool: `BellInv`
gives the index words of DSP 0 on an answering card, `FinalInv` what the reads
after a poll that saw the answer return, and from where they are known to agree.
`PrintInv` covers the loop that gave up: an index that was printed at its
position is still there when the verdict reads it, because the card moves an
index only up to the doorbell.
`StageInv` has the counter of each sequence and, from the report on, that the
printed result is the one that is returned. `ChainInv` says what was checked
before the chain is shown: the capacity, the size and checksum of the file, and
the length of each descriptor. That these lengths add up to the file is an
induction over the descriptors, which the provers cannot do directly. `Carried`
is a recursive function, so its value at each position follows from the one
before; `ChainSum` takes the least position at which it would not be the number
of words in the pages so far (`Least`, from the well-foundedness of < on the
naturals) and finds that there is none.

`ProbeInv`, for the loader probe, ties the payload size and the bytes read to
the stage: a size other than that of the one zero word comes from a file that
passed the size test, and only a file read to its last byte gets past the read
loop. The division into words rounds down, so that whole words stay in the
page.

### The bench

The six tools of the bench are instances, and each brings its own copy of the
steps that the tools share. `BenchProofs` first says what the names of each
instance are (`QueryNames` and its like) and that each step of a tool is one of
a short list of steps in the module's own names (`Dsp0Step`, `OfficialStep`,
`RingControlStep`, `RecoveryStep`, `ReaderStep`). All else is proved from those.

`BenchInv` has the part that every tool leaves to the next process: `CardInv`,
which says that an enabled engine has the five descriptors it was enabled over,
killed owner or not, and that after the last cleared word there is no engine, no
descriptor and no index. The other parts hold for one tool each. `Dsp0Stage` and
`Dsp0Card` say where a tool for DSP 0 is, what its flags promise to the cleanup,
and what it has done to the card. `OfficialInv` says that the official
initializer never leaves the cold state, `ControlInv` that one index word may be
set and the other one not, `ReaderInv` that the remaining tools write nothing.
`AnswerInv` is the argument of the query tool for positions that the last poll
kept. A step of a tool disturbs only its own part and `CardInv`; a new process
starts with nothing known but `CardInv`, and its part of the invariant begins
behind its baseline test. `NoEngineIn001` follows because experiment 001 refuses
a card with descriptors, and by `CardInv` an enabled engine has some. The
refinement of `Experiment` has one lemma per abstract action (`AsMap`,
`AsFirst`, `AsMove`, ...).

### The scripts

A script is the sequence of its remaining lines. In `TransportTestProofs` the
lemmas `ScriptLines` and `RestLines` turn "the lines from the k-th on" into line
numbers, for a loop of any length, and `AtLine(k)` says what the lines before k
have established under `set -e`: the flags, the loop counter and the resets made
so far, and that a child runs only for a line that starts one. `TrapInv` carries
over into cleanup only that a running transport still has its `rmmod` before it
or is known to the exit status.

In `VfioWrapperProofs` a signal may put another cleanup in front of the
remaining lines any number of times, so no finite list of remainders covers
them. `Sound` describes them: cleanups and lines up to the tool, or cleanups
alone. `OwedInv` says that whoever set the attribute or bound `vfio-pci`, some
script with its trap installed still has a line that takes it back. `CalmInv`
says where a script is that nothing has hit, and what holds of the endpoint
there. `ProbeInv` ties what the identity probe holds to its stage.

### What is only model-checked

Liveness: `CallsReturn`, `RunEnds` and `WrappersEnd`. Fairness and ENABLED are
out of the prover's reach. The three statements that runs violate have
counterexamples and no proofs.

## 5. Not modelled

- Copies between user and kernel space, structure layouts, register values that
  are only reported (FPGA revision, capabilities).
- The contents of commands and firmware beyond sizes, and the checksum beyond
  whether it matches.
- The launchers that copy a wrapper and a tool to the target and run them over
  ssh (`uad2-vfio-query.sh`, `uad2-vfio-official-ring-init.sh`): no state on the
  target. `uad2-identity-probe.sh` enables the endpoint without a
  driver and reads it from Python, `uad2-uio-identity-probe.sh` binds a UIO
  driver; both have the trap of the wrappers around a read-only probe.
- The Python scripts and register readers: no state that outlives a call. The
  container parsers' arithmetic may become a module of pure operators.
- Argument parsing and printing of `uad2ctl`.
- The composition of the bench with the full-card tools. They start from the
  same baseline; of the four, `FullStart` and `FullQuery` are checked and proved
  against `Experiment`.

## 6. Plan

1. Done: `UadCard`, `ComputeDriver`, `Transport` and the first theorems; all
   VFIO tools; the abstract `Experiment`; the bench; the transport test; the
   wrappers and the identity driver.
2. Done: proofs of all safety properties of all passing runs, with the
   refinements of `Transport` and of `Experiment` (start tool, query tool, bench).
3. Next: the loader probe and the load tool against `Experiment`, and the bench
   composed with the full-card tools.
4. Later: the bounds arithmetic of the container parsers as operators checked
   against a reference definition.
