# A specification of Anticheat-Detector

TLA+ models of the detector (`src/AntiCheat Detector`, a module loaded into
Minecraft's JVM) and of its injector (`src/external`, the program that loads the
module and prints what it reports), the TLC configurations that check them, and
TLAPS proofs of what matters most.

All paths below are relative to `src/`; `D/` stands for `AntiCheat Detector/`.

## 1. The system

A Minecraft server's anticheat sends *transactions*: packets
`S32PacketConfirmTransaction` with a 16-bit id, which the client answers with
`C0FPacketConfirmTransaction` and the same id. The detector reads the ids and
infers the anticheat from their pattern.

```
 injector process                        game process (javaw.exe)
 ----------------                        -----------------------------------------
 main                                    InitThread     attach to the JVM, enable two
  |  scan for javaw.exe                     |           hooks, create event and block
  |  injectDLL  ---- remote thread ---->    v
  |                                      JVM threads    onClassFileLoadHook: instrument
  |                                         |           onClassPrepare: bind the native
  |                                         v
  |                                      packet thread  logServer/ClientTransactionIdCpp
  |                                         |             -> TransactionAnalyzer
  v                                         v
 listenForDetection <-- event, block --- notify_detection
```

| Component | Source | State | Operations |
|---|---|---|---|
| Transaction analyzer | `D/transaction.cpp`, `.hpp` | last report, current guess, queue of unanswered ids, last id, packet count | `analyzeServer`, `analyzeClient` |
| Detection channel, module side | `D/transaction.cpp:32-57`, `D/dllmain.cpp:184-237` | the handles of the event and of the shared block | creation in `InitThread`, `notify_detection`, `DLL_PROCESS_DETACH` |
| Detection channel, listener | `external/ipc.cpp` | the console mode, retries, the string read, the string printed last | `listenForDetection` |
| JVM agent | `D/dllmain.cpp:24-182` | the two JVMTI events; per packet class its code and its native method | `InitThread`, `onClassFileLoadHook`, `onClassPrepare`, the native callbacks |
| Injector | `external/main.cpp`, `process.cpp`, `injection.cpp` | process id, handles, the path allocated in the game, the remote thread | `main`, `getProcessIdByName`, `injectDLL` |
| Class instrumenter | `D/instrumenter.cpp`, `class.hpp`, `endian.hpp` | the parsed class file | parse, add constants and a native method, inject a call, write |
| Console logging | `D/console.cpp` | the console handle; the colour of the console | `SpawnConsole`, `Log`, `DetachConsole` |
| DLL path lookup | `external/utils.cpp` | the path found; the files and the standard input around it | `findOrPromptForDllPath` |

**How they interact.** `InitThread` turns the hooks on *before* it creates the
event and the block, so packets can be analysed while there is no channel yet.
The analyzer calls `notify_detection` on the packet thread, inside
`analyzeServer`. The block is written in one process and read in another with no
lock; only the event orders the two. The injector sees the game as a process id
that comes and goes, and the game may end between any two of its calls. It looks
the module up before it waits for the game, so the file may be gone when the game
loads it. The class instrumenter works on the bytes the JVM hands to the load hook
and puts the call in place through which every packet reaches the analyzer. Every
hook, callback and `InitThread` itself log to one console, without a lock.

**What is hard here.** State of one session met by packets of the next (nothing
tells the analyzer that the connection changed); three scalars that have to
stand for a sequence of packets; a lock-free copy between processes; a wakeup
that could be lost between the read and the reset; two hooks that are enabled
one after the other while classes load; a chain of operating system calls each
of which may fail with resources held, on a process that may die; a binary format
in which one index or offset taken wrongly spoils everything behind it; an edit of
bytecode that moves what other bytes point to. The list with
line numbers, and the properties aimed at each entry, is `hazards` in
`PROJECT.json`.

**What makes each component correct.**

- *Analyzer*: a report is exactly what the ids received since the last verdict
  justify; a server with a signature of its own is recognised whatever came
  before and stays recognised; no answer still owed is missing from the queue.
- *Channel*: a name printed was written as a whole unless the copies overlapped;
  no detection that was signalled is slept through; one that stays is printed.
- *Analyzer and channel*: the block holds the analyzer's last report, or that
  report was dropped.
- *Agent*: a call that reaches the native method finds it bound.
- *Injector*: whatever fails, nothing leaks; the path lives as long as its
  reader; only a game started after the injector looked is injected; a module
  that was found and stays is the one loaded.
- *Instrumenter*: the class is read as the JVM reads it; every index that is
  written resolves to what was meant; the edited method does what it did before,
  and hands over the field once, when it holds the id.
- *Console*: it ends up white, and only messages that overlap mix their colours.

## 2. The modules

| Module | Models | Kind |
|---|---|---|
| `TransactionAnalyzer` | the class of that name | component |
| `Fingerprinting` | what it promises, stated over sequences of ids | abstract specification |
| `AnalyzerHistory` | the analyzer with a history variable, and its refinement | refinement |
| `GameSession` | the analyzer with servers, a client and a player around it | composition |
| `DetectionChannel` | event and block between module and listener | component |
| `SafeRegister` | Lamport's safe register, what an unlocked block can promise | abstract specification |
| `Detector` | the analyzer and the channel together | composition |
| `Agent` | hooks, class loading, native registration | component |
| `DllLookup` | `findOrPromptForDllPath` and the files around it | component |
| `Injector` | `main`, the lookup, the scans, `injectDLL` | component, extends `DllLookup` |
| `ClassInstrumenter` | `instrument_and_get_bytes` on a whole class file | component |
| `MethodInjection` | the edit of one method's code, and a run of the result | component and refinement |
| `MethodRun` | the JVM running a method | external machine, the specification `MethodInjection` refines |
| `Console` | the console of the module | component |
| `MCFingerprinting`, `MCGameSession`, `MCDetectionChannel`, `MCDetector`, `MCMethodInjection`, `MCClassInstrumenter` | instances for TLC | model checking |
| `TransactionAnalyzer_proofs` (with `GameSession`), `DetectionChannel_proofs`, `Detector_proofs`, `Agent_proofs`, `Injector_proofs`, `ClassInstrumenter_proofs`, `MethodInjection_proofs`, `Console_proofs` | theorems | proofs |

Operators whose comment begins with "Mutant of" are variants of the operator
below them, changed as a bug would change it. No specification uses them; each
property is known to fail when its variant takes the operator's place
(`mutants` in `PROJECT.json`).

### TransactionAnalyzer

One action per handler, each the whole handler: `AnalyzeServer` enqueues (with
the eviction at the limit), updates the guess, counts, tries to confirm, and
either concludes (report, reset of guess and count) or continues; it always ends
with `lastId' = id`. `AnalyzeClient` erases the first occurrence of the id.
`Confirms` is the `switch` of lines 84-106, `Sequential` the rule for Verus.
`lastId + 1` is computed on integers because C++ promotes `int16_t` to `int`:
32767 followed by -32768 is *not* consecutive. The queue's limit (100 in the
code) is `QueueLimit`. `lastNotifiedAnticheat` is assigned even when it does not
change, which is the same state as the guarded assignment of lines 118-123.

Handlers are one step each: they run on the event loop of one connection, which
serialises them. Two connections that overlap during a server switch could run
them on two threads; this is listed in section 5.

### Fingerprinting and AnalyzerHistory

`Fingerprinting` has no counter, no guess and no remembered id. The packets
since the last verdict are a *round*; the owner of the round's last signature is
the suspect; the last two ids are the evidence; a verdict closes the round.
`AnalyzerHistory` adds the variable `round` to the analyzer (no step reads it)
and states `ImplementsFingerprinting` under the mapping
`reported <- lastNotifiedAnticheat`.

### GameSession

The environment of the analyzer: a player connects, a server sends the ids of its
anticheat, the client answers in order, the connection drops with answers still
owed. What a server sends (`IdSent`) is not in the repository: it is what the
heuristic of `D/transaction.cpp:68-115` expects of each anticheat, and is marked
external. A Verus server starts anywhere (`Starts`) and counts by one.

### DetectionChannel and SafeRegister

Three threads: `InitThread` (from the creation of the event on),
`notify_detection` and `listenForDetection`. `strcpy_s` is a loop over cells, and
the constructor `std::string(pBuf)` is two: `strlen` (`ListenerMeasureCell`), then
the copy of as many cells, whatever has become of them (`ListenerReadCell`). Each
cell is a step, so every overlap of the two threads is explored. Cells behind the terminator keep what they held (a release
build's `strcpy_s` does not fill them). `ResetEvent` is modelled with the right
it needs: `ListenerAccess` is what `OpenEventA` asks for (`SYNCHRONIZE`), so the
reset has no effect. `SetEvent` can fail: the name stays in the block, nobody is told,
and the caller takes it for notified (`D/transaction.cpp:51-56`). The history variable
`unsignaled` says that this has happened to the name in the block and the event was
not still set from an earlier one. `Failures` says which calls can fail; `"detach"` is the end
of the game between any two steps, also in the middle of a copy.

The block refines `SafeRegister`: `writing` is "a copy in is under way", `value`
is the name copied completely last, `printed` is what the listener prints. A read
that no write overlaps returns the value; one that a write overlaps may return
anything.

### Detector

Conjoins the two: `DServer` is `AnalyzeServer` together with the call to
`NotifyDetection` when the verdict is news; the packet thread then waits for
`notify_detection` to return (`notifyPc = "idle"` guards the handlers). History
variable `dropped`: the last report has not reached the block.

### Agent

`InitThread` up to the two `SetEventNotificationMode` calls, whose results the
code drops; class loading, class preparation and calls of the packet methods at
any moment on the game's threads. The instrumentation of a class is an outcome:
done, or an exception, which leaves the class as it was. `Allocate` failing is an
exception for S32 and a write through an unset pointer for C0F, as in the code.

### DllLookup and Injector

`DllLookup` is `findOrPromptForDllPath`: the injector's own folder, then
Downloads, then the prompt, while anybody adds or removes files. Two conversions
matter and are modelled by what they do: `string()` of a folder that the ANSI code
page cannot spell throws, *after* the file was found (`LookInExeDir`), and the
Downloads path is converted to UTF-8 but read as ANSI, so that a name beyond ASCII
is another folder (`NamesDownloads`). A typed line may carry a quote at either
end; a pair is removed, a single one makes the path name nothing. The prompt does
not look at the two folders again. At the end of the input `getline` fails for
ever and the loop spins: a state without successor. `Accepts` takes whatever
exists under a name in `.dll`, also a folder and also a relative path, which
means something else to the game (`MayFind`, `MayMiss`).

`Injector` is `main` with the lookup, its two loops and `injectDLL` call by call;
`Abort(held)` is an error path and what it releases. `game` is the process that
runs now, and every call on the game fails once it is not the one whose id was
found. The calls that take something can fail, and so can the wait for the remote
thread, whose result `injectDLL` drops (`external/injection.cpp:61`): it goes on to
free the path while `LoadLibraryA` may still read it, which then loads the module,
finds nothing, or takes the game down. The history variable `abandoned` records such
a wait. The calls that release (`VirtualFreeEx`, `CloseHandle`) succeed on what is
held. Process ids are never reused within a behaviour. A failing snapshot looks
like an absent process, as in `getProcessIdByName`; the history variable `blinded`
records that one did, `removed` that the module was taken away after it was found.

### ClassInstrumenter

`instrument_and_get_bytes` on a whole class file, one action per stage: one turn
of the loop over the constant pool (`ParseConstant`), the rest of the file, the
six constants and the native method, the two searches, the edit, the writer. A
class file is a pool with the offset (`start`) and the index (`slot`) at which the
JVM finds each constant; these are data of the instance, tied to the pool by
`ClassesAssumption` (`IsPool`, `IsClass`: the offsets follow each other by the sizes
of the constants, the indices by their slots, and what names a constant names one of
the pool). The code keeps its own account of both in `cp_cursor` and
`i`, and reads whatever lies at the offset it has reached: an offset where no
constant begins reads as no constant. `Limit` is 65536, the range of a u2, small
enough in the instance for the count of some pools to wrap and of others not.

What the code leaves open is left open here: the order in which the compiler
evaluates the two `add_utf8` of line 410; what the search at line 32 reads
outside `cp_offsets` when no method of the class matches (an exception if it is
lucky, a crash otherwise). Class files are well formed (the JVM has written or
checked them before), bytes that are only copied (access flags, interfaces, fields, class
attributes) are left out, and an edited method carries the two constants its new
instructions name, which is what `MethodInjection` needs to know.

### MethodInjection and MethodRun

`MethodRun` is the JVM on one method made of ten instructions: those of the injected
code, what `readPacketData` is made of (a value read from the buffer and stored in the
field), and a branch, a jump, a pop and a return, so that methods can loop and handlers
return. The operand stack is its depth, the field that holds the id is the place of the
`putfield` that stored it last, and both kinds of call may throw. An instruction outside
the ten, like the constants and the calls with more operands of `writePacketData`,
differs from these in its length and its effect on the depth, which is all the edit
could disturb; it is not in the model. Errors that the JVM may raise anywhere, like
`StackOverflowError`, are left out as well. `MethodInjection` computes the edit
(`Instrumented`: the position, the seven bytes, the stack, the exception table, the
StackMapTable) and runs the *edited* method. Under the mapping `Back`, which
takes an offset of the edited code to the one it came from, that run is a run of
the original (`RunsAsBefore`): the injected instructions are stutters, with one
exception. When the native method is not registered (`bound`, an outcome of
`Agent`), the injected call throws `UnsatisfiedLinkError`. `CallbackMissing` says what
comes of it: the method ends with the exception, or a handler catches it whose range
holds the insertion point or ends at it (`Around`), the latter because
`D/instrumenter.cpp:103-105` extends such a range over the injected code.

A method comes with the depth of the operand stack at each instruction, as the
verifier infers it (`IsVerified`): branches and handlers meet with one depth, and none
exceeds `max_stack`.

Three conditions say what the code takes for granted and never checks. `Headroom`:
the stack has room for one more operand where the code is inserted, either because
`max_stack` is raised to two or because the method leaves room itself. `Insertable`:
the byte found is an instruction, and no branch crosses the insertion, since branch
offsets are not adjusted. `SoleReturn`: there is one return, and no branch and no
handler leads back to it from behind. A packet class of Minecraft, straight line
code with one return at its end that leaves the stack empty, meets all three. What happens to a method that does
not: an operand 0xb1 before the return has the seven bytes split an instruction; a
branch across them lands seven bytes short; a second return skips the callback,
and so does a handler that begins at the return; a return that leaves a full stack of
two or more has no room for the operand the injected code pushes. Line number and local variable
tables keep their offsets, which only debuggers see. A range of the exception table
that ends where the code is inserted is extended over it, which only an
unregistered callback can tell.

### Console

Three calls per message (`SetColour`, `WriteMessage`, `ResetColour`) on any number
of threads, and the end of the game between any two. `SpawnConsole` runs in
`InitThread` before any hook is on. `overlapped` is a history variable: another
`Log` ran during this one.

## 3. The runs

`CHECK_DEADLOCK FALSE` appears wherever the system may really stop: the player
plays no further session, the game has ended, the injector has halted, or a
bound is reached.

| Run | Instance and bounds | Shows |
|---|---|---|
| `MCFingerprinting` | 14 ids (the signatures, the confirming ids, the guarded neighbours, one plain id, the largest id), queue 1, 3 packets between verdicts | `TypeOK`, `GuessSummarisesRound`, `ImplementsFingerprinting` |
| `MCSessions` | six servers, three Verus starts, 3 sessions of 4 transactions, queue and lag 2 | `GTypeOK`, `DetectedAtSecondPacket`, `ReportStays`, `PendingIsSuffix` |
| `MCChannel` | three names of lengths 1, 2, 3 in 4 cells, 3 attempts, 3 notifications, every failure | `TypeOK`, `NoLostWakeup`, `ImplementsSafeRegister`, `SettledDetectionIsPrinted` |
| `MCReports` | the ids that report Grim and AntiGamingChair, 2 names, 3 cells, 2 attempts, 3 notifications, every failure | `BlockHoldsReport`, `PrintsCurrentReport`, `ReportIsPrinted` |
| `MCAgent` | both packet classes, every failure | `TypeOK`, `CoveredCallsAreBound` |
| `MCInjector` | 3 games; a full path, a relative one, a folder and a file that is no module to type; every failure of the injector's own calls, the wait included | `TypeOK`, `NearestCopyWins`, `NothingLeaks`, `PathOutlivesThread`, `InjectsNewGame`, `KeptModuleIsLoaded`, `PollingInjects` |
| `MCInjection` | all methods of up to 4 items (a store of the field, a branch or jump to any item, a pop, a return), one handler around any store or none, which begins with a pop or a return and is entered by an exception only, operands 0 and 0xb1, the callback registered or not | `TypeOK`, `ReportsBeforeReturn`, `ReportsAtStart`, `StackFits`, `RunsAsBefore` |
| `MCInstrumenter` | 14 constants in 3 orders, one more of each tag at 5 places or two of two slots, 6 lists of methods, `Limit` 24 | `TypeOK`, `ParsedAsJVMReads`, `WrittenIfInstrumentable`, `ConstantsStay`, `NativeMethodResolves`, `OnlyTheTargetChanges`, `InstrumentableIsWritten` |
| `MCConsole` | 3 threads, 3 messages, the 4 levels | `TypeOK`, `WhiteAtRest`, `OwnColourUnlessOverlapped` |

**Why the bounds are enough.** A verdict depends on the guess, the last id, the
current id and whether the count exceeds one, so three packets between verdicts
reach every case; with the largest id, a comparison made at 16 bits would show, since
-32768 would follow it and confirm Intave. `AnalyzerImplementsFingerprinting` removes the bounds. A
leftover of one session can reach the next and the one after, hence three
sessions; four transactions are two more than a verdict needs. Lag equal to the
queue's limit is the case in which eviction is closest to an owed answer. Names
of three different lengths give every overwriting of a longer by a shorter
name, and the longest fills the block up to its terminator. Three games let a
game be present at the start, a second be found and a third take its place during
the injection. `LoadLibraryA` fails in `MCInjector` exactly when the path does not
lead to a module; that it may fail for no reason would empty `KeptModuleIsLoaded`,
and the theorems of section 4 cover it for the others. Four items are enough for a
method to loop over a store, to jump over its return, to have a second one and to
have a handler at, before or behind the insertion, each combined with an operand
that looks like a return. The pools put every tag before, between and behind the
constants the edit looks for, so an index or offset taken wrongly is always
followed by one that is used; with `Limit` 24 the count fits for all pools but those with both a
long and a double, for which it wraps. Three threads let a message be overlapped by one
that began before it and by one that began after. The theorems of section 4 hold for every value.

Runs that end in a violation check what a comment, a message or the README says
against what the code does (`findings` in `PROJECT.json` quotes both):

| Run | Claim refuted | How |
|---|---|---|
| `MCCounting` | `CountingIsNotVulcan`, `D/transaction.cpp:102` | a counting server meets -30767; the guard stops only the confirmation next to the neighbour, the packet after it confirms |
| `MCSwitchToVerus` | `SwitchToVerusIsDetected`, `README.md:39` | the last report VULCAN disables the sequential rule for every later session |
| `MCEventReset` | `EventIsReset`, `README.md:20` | the event is opened without the right to reset it; after the first detection the listener never sleeps again |

`EventIsReset` and `NoLostWakeup` belong together: with the missing right added,
the reset that follows the read can erase the signal of a detection written in
between, and `NoLostWakeup` and the liveness properties fail (this is their
mutant). Opening the event with `EVENT_MODIFY_STATE` alone would trade a spinning
listener for a lost detection; an auto-reset event would repair both.

**Observations** met while modelling, for which no run is kept:

- The chain of ifs at `D/transaction.cpp:69-73` runs on every packet, not only "on
  the very first packet of a session" (line 68). Intave's -32768 makes the guess
  INTAVE; the -32767 after it, which would confirm it, is Karhu's signature and
  replaces the guess first. `README.md:59` lists Intave; it is never reported.
- `notify_detection` returns nothing, and `lastNotifiedAnticheat` is assigned all
  the same, though it is meant to be "the last anticheat we successfully identified
  and reported" (`D/transaction.hpp:34`). A report made before line 196 of
  `D/dllmain.cpp`, with the hooks active since line 181, is lost and not made
  again: `BlockHoldsReport` needs its `dropped`.
- When `SetEvent` fails (`D/transaction.cpp:54`) the name is in the block and noted as
  notified, and nobody wakes the listener: it prints that name when the next
  notification wakes it, unless that one has overwritten it.
- When the wait for the remote thread fails (`external/injection.cpp:61`) the path is
  freed under `LoadLibraryA`: `PathOutlivesThread` needs its `abandoned`.
- A packet class loaded after line 181 and prepared before line 182 of
  `D/dllmain.cpp` has the call injected and its native never bound; its first
  packet throws `UnsatisfiedLinkError`, which `README.md:33` says the module
  avoids. `CoveredCallsAreBound` says that there is no other such class.
- In such a class the injected call throws, and a range of the exception table that
  ended where it was inserted now covers it (`D/instrumenter.cpp:104`). A handler of
  that range that leads back to the return meets the same call again: if it catches
  errors, the method never ends. The packet classes of the game have no handlers.
- Ids left in the queue when a connection drops are never removed except by
  eviction; the comment at `D/transaction.hpp:40` says they await a response.
- A guess made from the first packet of a server that was left at once is
  confirmed by the next server's first packet, so the wrong server can be
  reported for one packet; `DetectedAtSecondPacket` bounds the damage.
- AntiGamingChair goes on with 3, 4, ... after its 1, 2; those are consecutive
  ids without a guess, so the right report is replaced by Verus. This is why
  `Stable` does not contain it.
- A copy out that a copy in overlaps can print a mixture of two names; the safe
  register leaves exactly this open.
- A failed `CreateFileMappingA` closes the event and keeps its handle
  (`D/dllmain.cpp:199`); the module closes it once more when it is unloaded.
- A restart of the game between two one-second scans (`external/main.cpp:15`) is
  not noticed: process ids are not compared.
- The class is written as version 50 (`D/instrumenter.cpp:138`), but the pool is
  copied: a class with tags 15, 16 or 18, which the parser lets pass, is no longer
  a legal class file. The packet classes, compiled for Java 6, have none.
- The first `Fieldref` of the field's name is taken (`D/instrumenter.cpp:43-52`),
  whatever its class; in a class that also uses another's `uid` it may be the
  wrong one. Nothing keeps `cp_count_new` from wrapping (line 388).
- A prompt whose input has ended asks for ever (`external/utils.cpp:58-74`).
- `onClassPrepare` looks at the class name only; a class that could not be
  instrumented has its registration refused, and the exception is cleared.

### Fairness

Weak fairness of each thread once it has something to do: `InitThread`,
`notify_detection` and the listener in `DetectionChannel` and `Detector`; `main`
(`MainRuns`) and the remote thread in `Injector`; the one call of `ClassInstrumenter`, which
waits for nothing. They are threads of running processes that block only on what
the actions wait for. A listener asleep on an event that is not
set need do nothing: its wait may fail but is not made to (`ListenerRuns`), since a
failure that fairness forced would excuse every detection that was never printed. The
same holds for `main` while it waits for the remote thread. That the remote thread ends
is an assumption: a `LoadLibraryA` that hangs holds `main` for ever.
Nothing forces the environment: no packet has to arrive, no player has to start,
close or join anything, and the game may end. Strong fairness appears twice, for calls the code repeats for ever:
mapping an existing block succeeds in the end (`ListenerMaps`), and so does the
process snapshot (`Poll`). Without it the operating system could refuse for ever
and no property of this code could help. The model's bound on `retries` is the
code's own limit, and both printing properties exempt a listener that gave up.

## 4. The proofs

Every theorem is checked by `tlapm` without omissions, for every value of the
constants that meets the named assumptions.

| Theorem | States | Beyond the module's assumptions |
|---|---|---|
| `AnalyzerTypeCorrect` | `TypeOK`, with the bound of the queue | |
| `ScalarsSummariseRound` | `GuessSummarisesRound` | |
| `AnalyzerImplementsFingerprinting` | the refinement | |
| `GameTypeCorrect` | `GTypeOK` | `Ids = Int16` |
| `OwedAnswersAreQueued` | `PendingIsSuffix` | `Ids = Int16`, `MaxLag <= QueueLimit` |
| `SignedServersAreDetected` | `DetectedAtSecondPacket` | `Ids = Int16`, `MaxSent <= 12000` |
| `StableReportsStay` | `ReportStays` | `Ids = Int16`, `MaxSent <= 12000` |
| `ChannelTypeCorrect` | `TypeOK` of the channel: neither copy leaves the block | |
| `NoWakeupIsLost` | `NoLostWakeup`, which exempts a name whose `SetEvent` failed | |
| `ChannelImplementsSafeRegister` | the refinement | |
| `AnalyzerAndBlockAgree` | `BlockHoldsReport` | |
| `CurrentReportIsPrinted` | `PrintsCurrentReport` | |
| `DetectorRunsChannel`, `DetectorRunsAnalyzer` | the composition implements both components | |
| `AgentTypeCorrect` | `TypeOK` | |
| `CoveredClassesAreBound` | `CoveredCallsAreBound` | |
| `InjectorTypeCorrect` | `TypeOK` | |
| `NearestCopyIsFound` | `NearestCopyWins` | |
| `InjectionLeaksNothing` | `NothingLeaks` | |
| `PathIsThereForThread` | `PathOutlivesThread`, which exempts a wait that failed | |
| `OnlyNewGamesAreInjected` | `InjectsNewGame` | |
| `FoundModuleIsLoaded` | `KeptModuleIsLoaded` | |
| `InjectionTypeCorrect` | `TypeOK` of the edited method | |
| `EditedMethodRunsAsBefore` | `RunsAsBefore`, the refinement with the one exception of an unregistered callback | |
| `FieldIsReportedBeforeReturn` | `ReportsBeforeReturn` | |
| `FieldIsReportedAtStart` | `ReportsAtStart` | |
| `InjectedOperandsFit` | `StackFits` | |
| `TypeCorrect` (`ClassInstrumenter_proofs`) | `TypeOK` | |
| `WalkIsTheJVMs` | `ParsedAsJVMReads` | |
| `OnlyInstrumentableIsWritten` | `WrittenIfInstrumentable` | |
| `ConstantsKeepTheirIndices` | `ConstantsStay` | |
| `NativeMethodIsFound` | `NativeMethodResolves` | |
| `OnlyTheTargetIsEdited` | `OnlyTheTargetChanges` | |
| `ConsoleTypeCorrect` | `TypeOK` | |
| `ConsoleIsWhiteAtRest` | `WhiteAtRest` | |
| `MessagesAloneKeepColour` | `OwnColourUnlessOverlapped` | |

The modules' assumptions worth naming here: `MethodsAssumption`, that the methods
are well formed in the JVM's sense and the edited ones still fit into 65535 bytes
(the JVM's own limit for code); `ClassesAssumption`, that class files are what the
format says; `TypedAssumption`, that the two default places are
none of the typed ones; `ChannelAssumption`, that the analyzer's names meet the
assumptions of the channel they are sent through.

`Ids = Int16` says that any 16-bit id may occur. `MaxLag <= QueueLimit` is the
case the queue was sized for: a client further behind does lose ids to eviction.
`MaxSent <= 12000` keeps a server's ids from wrapping or running into another
signature within one session: Vulcan, which goes up by 5 from -30767, is the first
to wrap, after some 12700 transactions; Karhu and Grim take more than twice that
to reach Vulcan's id.

**Inductive invariants.**

- `HInv` (analyzer): types and the meaning of the three scalars. The refinement
  follows from the scalars determining the suspect and the evidence; the work is
  in `SuspectsAppend`, how one more id changes the suspect of a round.
- `QInv` (session): types and the suffix. The three ways the queue moves are
  three lemmas about sequences: a suffix survives an append to both, the loss of
  the oldest element while it is shorter than the limit, and the erasure of the
  *first* occurrence of its head, which lies at or before the suffix.
- `DInv` (session): `DetectedAtSecondPacket` says nothing after one packet, and
  the guess may have been confirmed early by leftovers. The invariant adds that
  `lastId` is the id this server sent last, that after one packet the analyzer
  either holds the right guess or has already reported this server, and that
  from the second packet of a stable server no guess is left.
- `IInv` (channel): `Handles` (a notification under way has both handles open),
  `Block` (outside a copy the block holds the string `written`, terminated; its
  last cell is always a terminator, which is what bounds the copy out),
  `CopyOut` (a copy out no copy in overlapped has a prefix of `written`),
  `Signalled` (what is written is signalled, or about to be, or its `SetEvent` failed),
  `Attempts`.
  `NoLostWakeup` alone is not inductive: it holds because the event, once set,
  stays set.
- `Remembered` (agent): a hook that covered a class when it was loaded stays on
  while the game runs, and only a covered class is instrumented. Without it nothing
  says, at the preparation, that the prepare hook is still there.
- `LookupInv`, `Held`, `ThreadInGame`, `Found`, `Scanned`, `LoadedWhenDone`
  (injector): what the lookup returned is there until somebody removes it; which of
  the handle, the memory and the thread exist at each program counter, given that the
  memory goes with the game; a thread runs only in the game it was started in; a
  file found and never removed has been loaded once the thread is done.
- `Run` and `HandedOver` (method injection): the run is at an instruction of the
  original or at one of the three injected; at the return that was found nothing
  but the return follows, at the start nothing came before. `EditRelates` collects
  once what an edited method and its original have to do with each other, from
  the definitions of the edit; every step is then a lemma over these facts. That
  the first return is the least offset of its kind needs well-foundedness of the
  naturals (`LeastExists`).
- `DepthInferred` (method injection): the depth of the run, less the operand the
  injected code has pushed, is the depth the verifier inferred at the original
  instruction, because every step of the edited method is a step of the original or
  a stutter. `StackFits` follows at each of the three injected instructions.
- `Walk`, `PoolRead`, `ConstantsAdded`, `Located`, `MethodsKept`, `Written` (class
  instrumenter): the walk is at the beginning of a constant, `i` at its index, and the
  constants before it, and nothing else, are in `cp_tags` and `cp_offsets`; once it is
  through, a name compared through `cp_offsets` is the name the JVM reads. Each later
  conjunct says what one stage leaves for the next. `ParsedAsJVMReads` alone is not
  inductive: it says nothing while the walk goes on. That indices and offsets grow
  along a pool of any length (`Increasing`), that `Kept` keeps only what it is given
  (`KeptFrom`, from the ranks of a finite set being one to one) and where the new
  constants lie (`NewSlots`) are the lemmas behind the theorems on the class written.
- `Refused` (class instrumenter): a call that ends in an exception was given a class
  in which something is missing. With `Located` and `MethodsWritten` it makes
  `WrittenIfInstrumentable` sharp: a call that ends ends in `done` exactly for the
  classes that can be edited, and what `InstrumentableIsWritten` adds is only that it
  ends.
- `Alone` (console): a thread that logs alone has set the colour the console has.
- The channel's invariant holds of the composition: `Detector_proofs` takes
  `DetectionChannel_proofs` as an instance and lifts it through
  `DetectorRunsChannel`, which gives `CurrentReportIsPrinted`; the types of the two
  components carry over the same way and are not stated again.
- `ReportUnderWay` (composition): while a report is on its way its name is
  the argument of `notify_detection`, then the content of the block.

**Only model-checked**: the liveness properties (`SettledDetectionIsPrinted`,
`ReportIsPrinted`, `PollingInjects`, `InstrumentableIsWritten`), which are beyond the
prover. Every invariant and every action property of a passing run has a theorem.
What `ClassInstrumenter` computes along a sequence is stated without recursion
(`Slots` and `Kept` count), so that it can be proved of sequences of any length; the
walk itself is the induction, one `ParseConstant` per constant.

## 5. What is not modelled, and why

- *JNI and JVMTI headers* (`D/jni/`): third-party declarations, four fifths of
  the repository's lines of C and C++. They declare an interface and do nothing;
  what its calls do is in `Agent`, from how `D/dllmain.cpp` uses them.
- *Functions nothing calls*: `rebuild_stack_map_table`, `add_field_ref`,
  `add_string` (`D/instrumenter.hpp:47-91`, `D/instrumenter.cpp:413-424`).
- *Two packet threads*: handlers of two connections that overlap during a server
  switch. They would race on a `std::deque`, after which the language promises
  nothing; no property of this code survives that, and the models assume that
  one connection has ended before the next one sends.
- *`AttachToJVM` in its five calls*: one step, since nothing another thread sees
  changes before the events are on.
- *Classes, interfaces, fields and attributes that are copied through*, and the
  access flags: copied bytes.
- *Malformed class files*: the JVM has parsed the classes of the game before, and
  a malformed one is beyond what the code promises.
- *A path of the executable longer than `MAX_PATH`*, and typed paths beyond the
  code page of the console.
- *The text of messages*, the colours and the time of the printed detection.

## 6. Plan

Built, in this order: `TransactionAnalyzer` with its abstract specification,
`GameSession`, `DetectionChannel` with `SafeRegister`, `Detector`, `Agent`,
`Injector` with `DllLookup`, `MethodInjection` with `MethodRun`,
`ClassInstrumenter`, `Console`; proofs for all of them.

Next:

1. The whole system: `Injector`, `Agent` and `Detector` composed, from the start
   of the game to the printed name.
