# RecoverySuite: specifications and proofs

RecoverySuite is a C++20 suite that inspects disks and recovers files from
them, read-only: a library of disk access, partition tables, filesystems and
recovery engines, a command line, and a Qt GUI. This directory holds TLA+
models of it, TLC configurations, and TLAPS proofs.

Paths below are relative to `src/src/`.

## 1. Inventory

| Component | State | Operations | Talks to |
|---|---|---|---|
| State manager, `GUI/core/StateManager.cpp` | `currentState_` | `transitionTo`, `canTransitionTo`, `resetToStart`, `forceTransitionTo` | owned by the workflow controller and by the main window, one each |
| Workflow controller, `GUI/widgets/WorkflowController.cpp` | its state manager, selected source, detected filesystem, `validationPassed_` | `initialize`, `proceed`, `goBack`, `cancel`, `processCurrentState`, one handler per state | calls its owner back: state change, recovery complete; both may call in again |
| Main window, `GUI/core/MainWindow.cpp` | its own state manager, page, `isOperationRunning_`, `selectedDevice_` | seven operations from the menu and the workflow page, slots for the signals of the pages | recovery service (from timers), pages (signals and calls), modal dialogs (nested event loops), recovery worker thread |
| Source discovery page, `GUI/widgets/SourceDiscoveryWidget.cpp` | table of devices, `selectedDevicePath_`, enabled buttons | select, double click, refresh | signals `sourceSelected` 500 ms after the click |
| Configuration, workflow and progress pages, `GUI/widgets/` | form fields, enabled buttons | buttons | signals to the window |
| Application, `GUI/core/Application.cpp` | window, service | `run`, `shutdown` | creates both; gives the service no disk reader |
| GUI recovery service, `Application/Service/GUIRecoveryService.cpp` | map of cancellation tokens | `analyzeFilesystem`, `recoverFiles`, `recoverMetadata`, `carveFiles` | called by the main thread and by recovery workers; calls the recovery service and converts its results |
| Recovery service, `Application/Service/RecoveryService.cpp` | pointers to engines, set at first use | the same four | engines, validator |
| Operation validation, `Recovery/RecoveryOperationValidator.cpp`, `RecoveryCapability.cpp`, `RecoverySafetyPolicy.cpp` | registry of capabilities | `validateOperation`, register, unregister, clear | every engine asks it first |
| Carving engine, `Recovery/CarvingEngine.cpp` | none between calls of `carveFiles`; a static offset in `carveFileType` | `carveFiles`, `carveFileType` | disk reader |
| File and metadata recovery, export, `Recovery/` | none | `recoverFiles`, `recoverFile`, `recoverMetadata`, `recoverMetadataType`, `exportData`, `exportDataItem` | disk reader |
| Filesystem detection and analysis, `Recovery/` | the analyzer's start sector | `detectFilesystems`, `analyzeFilesystem`, `getFilesystemInfo` | disk reader, through an adapter in the analyzer |
| FAT, `Filesystem/FAT/` | lazily loaded table, cached boot sector | entries, cluster states, chains, chain reader; type, sizes and validity from the boot sector, four times over | disk reader |
| NTFS, `Filesystem/NTFS/` | none | probe, analysis, validity, sizes; creates no filesystem yet | disk reader |
| Filesystem registry and manager, `Filesystem/` | list of drivers | register, unregister, detect, create | drivers |
| Partition tables, `Partition/` | none between calls | parse and validate GPT, with a backup header, and MBR | disk reader, which the MBR parser opens and leaves open |
| Disk, storage, platform, `Disk/`, `Storage/`, `Platform/` | open handles | read sectors, list devices, vendor queries | operating system |
| Command line, `CLI/CLIHandler.cpp` | table of operations, a recovery service | `list`, `disk info`, `analyze`, `validate`, `recover`, `cancel`, `status` | disk manager, recovery service; the shipped `main` runs one command, the class any number |
| Logging, `Logging/Logger.cpp` | level, file | write | everyone |

### What is hard, and what makes each component correct

*State manager and its owners.* The transition table is one switch; the
targets of `proceed`, `goBack` and `cancel` are three more, written apart. They
must agree. Both owners must move through the table only.

*Workflow controller.* It is synchronous but calls its observers in the middle
of a step, and the observers may call back; a handler runs for the state that
is current *after* the callback. Handlers of `VALIDATION` and `RECOVERY` may
fail, and then re-enter `processCurrentState()`. No stage may be skipped, an
observer must not be told of a state the controller is not in, every call must
return, and a validation flag must not outlive the inputs it vouches for.

*Main window.* One thread, yet handlers overlap: a modal dialog runs a nested
event loop in which timers go on firing. State, page, selected device and the
running flag are set at different places, so they may part; the flag may be
lowered too early or never. A detection runs 100 ms after it was announced, on
the device that is selected then.

*Carving engine.* A chunk loop with three searches, each with its own resume
position; offsets are converted between range, chunk, sector and disk; bytes
are read twice; any read may fail. What it returns must be what it searched
for, files of one type must not overlap, nothing that lies in a chunk may be
missed, no file may replace another, and the result must be honest.

*Partition tables.* Two headers, an entry array and an MBR on a disk of which
any sector may be unreadable or damaged. The header gives the size of its
entries, which are copied into a structure of a fixed one. A table handed out must
be sound, one that is there must be found, deleted entries or not and however many
sectors it takes, and 32-bit sums must not accept what wraps.

*FAT.* Widths and boundaries of entries, end-of-chain values, cycles, a chain
that leaves the table, a load or a read that fails half way. A followed chain
must be a simple path, a verdict must mean reachability, every call must return.
Type and sizes are derived in four classes, one of which caches the boot sector;
they must not contradict each other.

*Registry and NTFS.* Which of several confident drivers wins must not depend on
what was registered in between; three copies of a test must agree.

*Engines.* Ranges in sectors and offsets in bytes, checked with sums that may
wrap; the test for a filesystem written four times; a start sector handed over
through a member; space checked in bytes and written in sectors; results that do
not depend on what is on the disk.

*Services.* Engines made at first use by several threads, without a lock, and
the second assignment deletes an engine in use; tokens kept in a map that each
recovery must leave as it found it; a result converted by keys that two classes
must agree on. (The application as it is builds the service without a reader,
`Application.cpp:54`, and never starts a recovery worker, theorem `ConfinedAlways`;
the races between threads are modelled as what a program around the service would
meet, and are no hazards of this one.)

*Command line.* Numbers that wrap, a test of a range written twice, operations
that must stay as they ended, and disks with two owners.

`PROJECT.json` lists these hazards at the lines where they bite.

## 2. Modules

| Module | Models |
|---|---|
| `StateManager` | the state manager; abstract specification of its two owners |
| `WorkflowController` | the controller and its callbacks; instantiates `StateManager` |
| `MainWindow` | main window with discovery page; instantiates `StateManager` |
| `MainWindowRequests` | the main window with the devices it has announced a detection of |
| `CarvingEngine` | `carveFiles` and `extractFileData` |
| `MCCarvingEngine` | small disks for the carving runs |
| `PartitionTables` | `GPTParser`, one action per sector it reads, `GPTValidator`, `MBParser`, `PartitionManager`, `PartitionValidator` |
| `FilesystemRegistry` | `SimpleFilesystemRegistry`, `FilesystemManager`, the NTFS driver's probe |
| `FATVolumes` | `FATFilesystem`, `FATMetadata`, `FATVolume`, `FATTableParser` on one boot sector, which may be rewritten |
| `NTFSVolumes` | `NTFSAnalyzer`, `NTFSVolume`, `NTFSMetadata` on one boot sector |
| `DiskLayout` | composes the four modules above |
| `MCDiskLayout` | disks, drivers and boot sectors for `DiskLayout` |
| `FATTable` | entries of three widths, cluster states, following a chain, the verdicts of `FATTable` and `FATValidator` |
| `FATChainReader` | the reader on top of `FATTable` |
| `OperationValidation`, `DiskReading` | the gate of every engine; what an engine sees of a disk |
| `FilesystemDetector`, `FilesystemAnalyzer`, `MetadataRecovery`, `FileRecovery`, `OutputExporter` | one engine each, its operations as operators from a disk and a request to an answer |
| `RecoveryEngines` | the engines on one disk, called in any order; instantiates the five |
| `RecoveryServices` | `GUIRecoveryService` over `RecoveryService`, called by several threads |
| `CommandLine` | `CLIHandler` over `DiskManager`, `PhysicalDisk` and `RecoveryService` |
| `RecoveryClients` | composes the three modules above: a program on the engines, the GUI, the command line |
| `MCRecoveryClients` | small disks, masks, exports and typed numbers |
| `StackLemmas`, `NumberLemmas` | lemmas about stacks; least elements, products, division and rounding |
| `WorkflowControllerProofs`, `MainWindowProofs`, `CarvingEngineProofs`, `FATTableProofs`, `DiskLayoutProofs`, `RecoveryClientsProofs` | theorems, see section 6 |

No two parts of `DiskLayout` or of `RecoveryClients` share state: a behaviour of
the first is about one `part` and one of the second about one `client`, so that
their states add up instead of multiplying. Components that do interact are
composed inside the parts: the chain reader on its table, the engines on one
disk with one registry, the threads on one service, the command line on the
manager and the service.

### How they correspond to the code

**StateManager.** `ValidTransitions` is the switch of `isValidTransition` as a
set of pairs. `TransitionTo(new)` is the accepted move, `AfterTransition` what
is left when the caller ignores the result, which several callers do. `Spec` is
what a user of the guarded interface can see: accepted moves and restarts.

**WorkflowController.** One action per API call (`Proceed`, `GoBack`, `Cancel`,
`Initialize`, `ProcessCurrentState`) and one per handler. A call moves the
state and notifies in one step, and pushes a frame on `stack`; the handler is
the step in which the callback returns. Between the two, the callback may call
in again (`CanCall`), to the depth `limit`; `limit = 1` are observers that
never do. `handled` is a history variable: the states whose handler has
succeeded since a source was last selected. The source and the filesystem are
the placeholders the code itself assigns. `forceTransitionTo` is never called by
the application, and is an operator no action uses.

**MainWindow.** `timers` counts pending single-shot timers by kind (`refresh`,
`select`, `detect`, `analyze`); `dialogs` is the stack of open modal dialogs,
each named by what its handler does when it closes. A user action needs an
empty stack (`WindowActive`), a timer does not. `Accept` is the head of
`handleWorkflowOperation`, which assigns the flag; `Refuse` its early return.
The paths that the wiring cannot take are left out: nothing calls
`setSelectedDevice` of the configuration page, so `configurationReady` is never
emitted; and the recovery worker starts only from `RECOVERY`, which theorem
`ConfinedAlways` excludes (`AnswerRecovery` still models the transition that
would start it). `Init` is the window after its constructor, which has filled the
table of devices already. The two operations that call the service end in a dialog
whatever the service does; success and failure differ by the transition they
request. `MainWindowRequests` adds, as a history variable, the device each pending
detection was announced for, and the order that the timers' lengths give: 500 ms for
a selection, 100 ms for a detection, so that only a selection made before the
request can come between it and its detection.

**CarvingEngine.** One action is one iteration of one of the loops:
`ReadChunk`, then for each type `Extract`, `ExtractFails` or, for a JPEG,
`SkipEndless`, until `SearchEnds`; `ReturnSuccess` at the end of the range.
Each read may fail. The disk is a sequence of bytes; `ScanData` and
`ExtractFileData` do the sector arithmetic of the code, rounding down at the
start, up at the end, and trimming. Files are stored under
`<<size of the map, type>>`, as in the code. `from` and `to` in a stored file
are history: where in the range the hit was. The validator's verdict is the
input `valid`. Left out: `cancellationStateIsValid`, a bool passed by value
that the validator has already required to be true and that cannot change
during the call; and overflow guards, which cannot bite on a range within the
disk.

**PartitionTables.** `step` is the sector `parseGPT` reads next; each action
reads it, or `ReadFails`. `HasProtectiveMBR` drops what it finds, as the code
does. A checksum is the content it was computed over, so that two checksums are
equal exactly when the contents are. `EntryData` is an entry copied at the size the
header gives: fields behind a smaller one stay zero, and from 8 bytes on the
validator takes it. A copy of more than the 128 bytes of an entry is undefined
behaviour: `OverrunEntry` makes any answer of that call (`Undefined`), or a
new process. The code counts the sectors of the entry array with a `bool`, so that
more than one is always a failure (`ReadSectorsWorks`). `ParseMBR` may open the reader, and leaves it open; the
three callers differ in what they make of the entries.

**FilesystemRegistry.** A confidence of the code is a multiple of 0.25 here. The
drivers other than NTFS have no source in the repository: they are constants
with the answers `FilesystemDriver` asks for. `DriversAssumption` is the contract
of that interface: a driver handles the type it names, and no confidence is
negative. `Without` is `remove_if`, written as a recursive function so that it can
be reasoned about.

**FATVolumes, NTFSVolumes.** One operator per derivation, with its divisions and
its truncations, in the order of the code's tests; a division by zero ends the
process (`Crash`). `FATFilesystem` reads a sector into 512 bytes of stack
(`BootSectorRoom`): the process may not survive a larger one; `FATTable` refuses geometries without sectors or clusters
(`TableRefused`). `WriteBootSector` is another program that formats or repairs
the volume between two uses: `FATFilesystem` goes on with the sector it cached,
`FATTableParser` with the one it read first.

**FATTable, FATChainReader.** `raw` is the table on the disk; everything goes
through `GetEntry`, which loses bits and cannot read across sectors, as the
decoders do. Each turn of the loop that follows a chain is an action, and so is
each cluster of the read loop. `loadFatData` may fail at every call until it
succeeded once. The buffer is the sequence of the sectors copied into it.

**RecoveryEngines.** A call of an engine is one step: it has no callback and
shares only the registry and the analyzer's start sector. Its reads may work,
fail, throw or come up short while reporting success; a call that reads twice
gets two such outcomes. `detected` is a caller's note of what detection said.
What the code makes up (recovered files have invented names and contents) is
kept as named pieces; `fatsIntact` says whether the FATs behind a boot sector are
whole, which no engine looks at. A short read may leave the buffer smaller than it was:
`recoverFile` copies from it all the same, and may not survive that.

**RecoveryServices.** `pc[t]` is where a thread is in its call. Each pointer of
`initializeComponents` is tested and assigned in two steps, because another
thread may assign in between; passing pointers that are set needs no steps of
its own, since none is ever emptied. `MakeComponent` marks the threads whose
engine it deletes (`dangling`); such a call ends somehow or ends the process.
The map of tokens has no lock: two changes at once may lose one or end the
process, and `raced` remembers it. A call has a token or not. `Convert` is the GUI
service's conversion of an analysis: it fails if a key it makes a number of
(`NumberKeys`) is none the analyzer writes (`AnalysisKeys`). The operations of both
services are actions of their own made of shared steps. Left out are the GUI
service's handlers for exceptions, but for that of the analysis: `RecoveryService`
turns every exception into a result, and the callbacks throw none. The service is
built with a disk reader in the tests and without one in `Application.cpp:54`;
`present` is both.

**CommandLine.** One action per command. `deletions` counts how often the disk a
command opened was deleted; from the second deletion on the process may crash,
or not notice. `IsSectorRangeValid` is the service's test, `HandleValidate` the
handler's own. `PhysicalDisk` refuses to read what it has opened read-only, so
what passes the range check ends in an exception, which the service turns into an
error message. Nothing thus gets to the catch of `handleRecover`
(`CLIHandler.cpp:578-584`), which would mark the row with the greatest id as failed;
it is left out. `IsUint64` and `ParseUint64` are `std::stoull`: a number of 2^64 or more
is refused, a negative one of that size is its complement. `tests/test_cli/test_cli.cpp:189`,
wants `"-1"` refused (section 3). One process of the shipped
`main` runs one command; the longer sessions of the model are those of a program
or test that keeps the handler, which the table of operations is for.

## 3. What the runs show

| Run | Shows |
|---|---|
| `workflow` | The three switches agree with the table (`TablesAgree`); the controller implements the state manager however callbacks nest (`ImplementsStateManager`); the flag always has its inputs (`ValidatedHasInputs`); with passive observers no stage is skipped (`StagesInOrder`), notifications are true (`HonestNotice`) and every call returns (`EveryCallReturns`) |
| `mainwindow` | The window never gets past the inspection of partitions (`Confined`): no handler requests `FILESYSTEM_DETECTION`, and what finished operations request is refused. State and page agree, inspection has a device, and an operation with a timer or dialog lowers the flag in the end |
| `mainwindow_overlap` | *Violated*: validate or cancel, accepted while a detection is pending, lowers the flag, and a second operation overlaps the first |
| `mainwindow_listing` | *Violated*: a successful listing of the sources never lowers the flag |
| `mainwindow_requests` | *Violated*: the status bar announces a detection of the device selected then, and the timer analyzes the one selected when it fires |
| `carving` | Files carved from sector 0 are well formed, files of one type are disjoint, nothing within a chunk is missed, nothing is overwritten, the result is honest, and every call returns |
| `carving_offset` | *Violated*: a range that does not start at 0 is carved from the wrong place, since offsets relative to the range are used as offsets on the disk |
| `fat` | On every FAT12, FAT16 and FAT32 table of three data clusters: a followed chain is a simple path (`ChainIsSimplePath`), a verdict says whether the chain reaches an end on the disk (`VerdictIsReachability`), a read delivers the sectors of the chain in order, unreadable clusters left out without a gap (`ReadFollowsChain`), and every call returns |
| `layout` | Partition tables handed out are sound (`GPTTableIsSound`), whole ones are found whatever the size of their entries (`GPTFindsTable`), the 32-bit tests of an MBR accept what unbounded numbers accept (`MBRAccepted`); the derivations of FAT and NTFS volumes agree; the right driver is chosen whatever was registered before |
| `layout_unused` | *Violated*: an intact table with a deleted entry, of type zero but with its range left, is refused, since `isEmpty` wants all bytes zero; the comment at `GPTPartitionEntry.hpp:25` calls such an entry unused |
| `recovery` | Engines read only what they are asked for and hand out what they read (`EnginesReadWhatIsAsked`), agree with detection (`DetectionAgrees`), export within the range (`ExportFits`); tokens belong to live operations; `validate` and `recover` agree on every range; ended operations stay as they are |
| `owner` | *Violated*: one `analyze` deletes the disk it opened twice, as the handler returns and with the service |

### Other disagreements

Met while modelling, in the models as the code has them, without a run of their own:

- A PDF is carved up to the bytes of `%%EF`, not of `%%EOF` as the comment beside
  them says (`Recovery/CarvingEngine.cpp:203`); one without them to the end of its chunk.
- `GPTParser::readSectors` compares a `bool` with the number of sectors asked for
  (`Partition/GPTParser.cpp:171-172`), so that an entry array of more than one sector,
  such as the usual one of 128 entries, is never read.
- 55 AA at the end of a sector is tested before the name `NTFS`
  (`Recovery/FilesystemDetector.cpp:116`), and an NTFS boot sector has both:
  it is detected as FAT, against `docs/RECOVERY_LOG.md:57`.
- An analysis that succeeded is reported to the GUI as failed: the GUI's service
  makes numbers of `"total_size_bytes"` and three more keys
  (`Application/Service/GUIRecoveryService.cpp:116-119`), which the analyzer never
  writes (`AnalysisKeys`), and `std::stoull` of nothing throws.
- Metadata recovery of a FAT volume succeeds when its FATs are damaged: they are made
  up (`Recovery/MetadataRecovery.cpp:384-395`). `tests/test_corrupted_filesystem.cpp:462`,
  which `tests/CMakeLists.txt` does not build, prints that it "should have failed".
- `-1` is taken for a number (`CLI/CLIHandler.cpp:763`), against
  `tests/test_cli/test_cli.cpp:189`, which CTest runs. The value it stands for can be typed
  without the sign, too, so that `ValidateAgrees` is about both.

### Properties with a restriction

Where a property has a precondition, it is false, or about something else,
without it.

- `limit = 1` in `StagesInOrder`, `HonestNotice` and `EveryCallReturns`. An
  observer that calls back can skip stages, since the outer call then processes
  the inner call's state; it can reach `VALIDATION` without a source, whose
  handler requests a move to `ERROR` that the table refuses, announces it all
  the same, and processes `VALIDATION` again, for ever. The properties say that
  this takes an observer that calls back.
- `startSector = 0` in `FilesAreWellFormed`: see `carving_offset`.
- FAT16 and FAT32 in `VerdictIsReachability`: the decoder of odd FAT12 entries
  keeps four bits of twelve, so that a verdict on a FAT12 chain is about another
  chain.
- A cluster boundary and a range within 32 bits in `ReadFollowsChain`: the code
  adds a byte offset inside a cluster to a sector number, and its sum of offset
  and length wraps.
- Copies that are whole in `GPTFindsTable`: intact, blank in the entries not used,
  and in one sector. For what is not blank see `layout_unused`; longer arrays are
  never read. Entries of less than 128 bytes are read, but are no GPT's; larger
  ones are undefined behaviour, about which no property says anything.
- Intact FATs where `DetectionAgrees` speaks of recoveries, and reads that are whole:
  a recovery from damaged FATs succeeds as well, against a test (see above).
- Sectors of 512 bytes where `EnginesReadWhatIsAsked` speaks of bytes of
  metadata, of at least 512 for files: the code assumes them.
- `~raced` in `TokensAreOfLiveOps`: two changes of an unlocked map at once may
  do anything. The property does not say that a live call keeps its token: two calls
  of one kind in one millisecond share one.
- The end of the process in `EnginesReadWhatIsAsked`: a call that ended it answered
  nothing.
- More than no sectors in `ValidateAgrees`: `validate` passes an empty range,
  which `recover` refuses.

## 4. Bounds

- `workflow`: `MaxDepth = 3`. Depth 1 are passive observers, 2 one re-entrant
  call in a callback, 3 a re-entrant call whose callback re-enters again. The
  state is finite otherwise.
- `mainwindow` and the three runs next to it: two devices, since one late selection must overwrite another;
  `MaxTimers = 2` pending timers of one kind, since a second is what makes an
  order. Dialogs need no bound: each takes a user action with an empty
  stack, or a timer.
- `carving`, and the run that contradicts the code's claim: disks of 16
  bytes in 4-byte sectors, chunks of 12: a full chunk of three sectors and a
  short one, and every range of sectors. The disks are all arrangements of three
  fragments of 1 to 5 bytes, namely a zero, every signature, `%%EOF` and a whole
  JPEG, so that files begin and end at every position of a sector, signatures
  straddle sectors and chunks, and one chunk holds two files of a type.

The real sizes are 512 or 4096 bytes and 64 KiB; as here, the sector divides the
chunk. Two theorems assume that it does (section 6), the others hold for all sizes.
- `fat`: five cluster numbers, of which three hold data, so that there are
  cycles of one, two and three clusters, tails that lead into them, and cross
  links. Entries are free, a pointer into or just out of the table, a mark on
  either side of reserved and end of chain, and for FAT32 a value with its upper
  four bits set. Sectors of 4 bytes make FAT12 entries straddle them.
  `UInt32 = 1002` makes the sum of an offset of 4 and a length of 1000 wrap.
- `layout` and `layout_unused`: some 2,000 disks. GPT disks have both headers, good or
  damaged in each field a test reads, and arrays whose partitions touch, overlap, are
  reversed, deleted, or lie outside the usable sectors. Entries have sizes from 0
  to 264 bytes, on either side of each a test or a copy tells apart, and arrays fill
  less than a sector, one, or more. MBR partitions lie at both ends of a range of
  `UInt32 = 2^20` sectors. FAT boot sectors lie on both sides of the 4084/4085
  and 65524/65525 clusters that separate the types. Three drivers, two of
  which claim the same type and confidence, are what an order needs.
- `recovery` and `owner`: eleven disks of four sectors, with sectors of 0 to
  2048 bytes and boot sectors of every type, of wrong sizes and of none;
  `UInt64 = 65536`, with starts and counts up to 65535 so that sums wrap. Three
  threads with two calls in all (`MaxCalls`): every pair of concurrent calls
  and every call after another, on engines made or not. `MaxMillis = 1`: two
  calls share a millisecond or do not. `MaxCommands = 3`: a validation and a
  recovery of the same range and one command more; typed numbers include negative
  ones.

The theorems of section 6 do without these bounds.

## 5. Fairness

- `workflow`: weak fairness of `CallbackReturns`. Callbacks return, and the code
  after them is sequential. No API call is fair.
- `mainwindow`: weak fairness of each timer, since Qt serves the timers that are
  due in order, also in a nested loop, and of `DialogAnswered`: a user answers a
  modal dialog in the end. No click is fair, so `mainwindow_listing` is not the
  fault of an idle user: the operation itself has ended.
- `carving`: weak fairness of `Scan`, a sequential loop. Reads return, with
  success or without.
- `fat`: weak fairness of `Continue`. A call runs on its caller's thread until it
  returns; no call is fair.
- `layout` and `recovery`: none. Their properties are invariants and an action
  property; a call is a straight line of steps that waits for nothing.

`MCRecoveryClients.cfg` and `MCCommandLineOwner.cfg` do not check
deadlock, since the process of the command line ends.

## 6. What is proved

All theorems hold for every value of the constants, from the `ASSUME`s in the
component's module, and are checked to the last leaf.

*WorkflowControllerProofs.* The inductive invariant is `TypeOK`,
`ValidatedHasInputs` and `Passive`: with `limit = 1` the stack has at most one
frame; what the frame says of `view` and of the handlers that have run
determines `state`. `HonestNotice` and `StagesInOrder` are not inductive alone:
that a failed validation is unreachable with passive observers needs the stages
before it, and the stages need the frame. `ImplementsStateManager` needs only
`TypeOK`: each step is an accepted transition, a restart, or leaves `state`.

*MainWindowProofs.* The inductive invariant is `TypeOK` and `Places`: the state
is one of two, the page is its page, inspection has a device, and a device is
chosen whenever a select timer is pending or the select button is enabled. The
last is why a select timer never delivers the empty path.

*CarvingEngineProofs.* The invariant adds to `TypeOK` that the range lies within
the disk (`InRange`); that every number in a name is below the number of files
(`Numbered`), which makes the next name fresh; that `success`
means there are files (`Tally`); and that every file of a type lies before the
position its search has reached (`Behind`, `Ordered`), which makes the next
file disjoint from all before. Sector arithmetic rests on `NumberLemmas`.
`NothingEverMissed` follows a search through its chunk: what the search for a type
has passed, in this chunk and in those before, is in a file of that type
(`Complete`). The step over a file is the hard one: the positions it skips must be
inside that file. `FilesAlwaysWellFormed` shows that the bytes `extractFileData`
reads anew in whole sectors are the ones that were searched. Both assume `Aligned`,
that a chunk is a whole number of sectors: otherwise a chunk is read from a sector
rounded down, and the bytes are not those the offsets are about (listed as a
hazard at `CarvingEngine.cpp:97`). With it, `byteOffset` is always a multiple of the
chunk (`OnChunkStart`), hence of the sector. Every sector size in use divides 64 KiB.

*FATTableProofs.* The invariant of `ChainIsAlwaysSimplePath` adds to `TypeOK`
and the property itself that `current`, as long as the chain goes on, is what
the entry of its last cluster names (`Chained`); `EntriesKept` says that no call
writes the table. The table may be cyclic or corrupt, and decoded by any of the three
decoders. `TypeCorrect` is worth its proof for two of its parts: the chain
holds clusters of the volume only, and the read loop's index stays on it.
`ReadAlwaysFollowsChain` needs that the bytes copied so far are those of the
window's readable clusters the loop has passed (`Filled`, in `Reading`), and that
when one of the loop's three ways to stop is taken no cluster of the window is left
(`NothingLeft`): the loop counts bytes, the property counts clusters.
`VerdictsAreReachability` is the pigeonhole: the chain is a walk from its start
(`FromStart`), and a walk on the disk that does not end within `ClusterCount`
steps repeats a cluster, so the limits at which the loop stops cut off no chain that
has an end. It assumes `EveryEntryFits`, that the FAT has room for the entries of
all clusters and none straddles two sectors; without it the decoders answer for
some cluster with a default, and what is on the disk no longer decides.

*DiskLayoutProofs.* For the GPT: while the parser is at the array, the header in
use is one on the disk whose signature holds (`Headed`), and what was handed out
is sound by that header (`Tabled`). That a table is found needs in addition which
header the parser has come to and that it had no better one (`Located`), and that
a whole copy passes every test (`WholeIsAccepted`), at every entry size that a
copied entry survives; a call that overran one ends without a table, and leaves the
parser as it was or as it began. For the MBR: the verdict is
the one on the disk's entries (`Judged`), and 32-bit tests agree with unbounded
ones on 32-bit numbers. `LayoutAssumption` says that the fields of entries are
numbers of their width, that arrays lie where headers point, and that no entry size
cuts a number in the middle.
The FAT views agree because each is what its object says of the sector its owner
has kept since (`Cached`, `Spoken`), although `boot` has changed meanwhile; what
remains is that the derivations agree on one sector (`ParserAgrees`, `ValidVolume`).
The NTFS invariant says that a favourable verdict is about the test itself and every
known size is one product (`NTFSInv`). `DriverChoiceRight` is an action property;
its invariant is that the list holds drivers, each once (`Registered`), which
`unregisterDriver` must keep (`WithoutKeeps`). That the prober found is of the
greatest confidence needs that there is a greatest (`GreatestIndex`); that a
filesystem is made by it or by an earlier one needs that drivers handle the type
they name. `VolumesAssumption` says that the fields of boot sectors are numbers and
that a reader's sectors have at least 512 bytes.

*RecoveryClientsProofs.* `TokensAreOfLiveOps` is strengthened to say at which
places of its call a thread holds a token (`Held`). `ValidateAgrees` needs that
both recorded verdicts are the same test of the same range (`Validated`,
`Recovered`), which comes down to arithmetic with one wrap-around.
`FinishedRowsStay` needs that rows are numbered without gaps (`Recorded`), so
that a new one replaces none. `ClientsAssumption` says that `UInt64` is
positive, that the main thread is no worker, and that typed numbers are
integers.
The engines' two properties share one invariant (`EnginesInv`): the noted detection
is that of the sector it names (`DetectedRight`), and the last answer reads only
what was asked and names the type detection would (`Answered`). The four copies of
the detection test are different operators of four instances; the lemmas `One...`
show them equal, which is where a difference between the classes would surface.
The two theorems assume `BytesFit`, that 64 bits count the bytes of every disk:
beyond it `DiskReaderAdapter.cpp:20` wraps and reads another sector.
`ExportAlwaysFits` assumes `LengthsFit`, that the lengths of the pieces, which
are in memory together, add up in 64 bits; rounding a start down and a length up
then stays within whole sectors (`StartDownLengthUp`). `TypeCorrect` covers engines,
threads and command line; `EnginesAssumption` gives the fields of disks, starts and
counts the ranges of their types, and TLC evaluates it on the disks of the runs.

*Recursion.* What a recursive function computes is proved from two facts: that
a function with its equation exists, and induction over a set of naturals
(`Induction` in `NumberLemmas`, from the least element of a set), because a rule with a
predicate for a parameter could not be applied. `LeavingExists` and `WithoutKeeps`
do this for the registry's list, `SumExists` and `LengthsAddUp` for an export's
offsets.

*Only model-checked.* Every invariant and every action property that a passing run
checks is stated by a theorem, two of them (`FilesAreWellFormed` and `NothingMissed`)
for aligned chunks, `VerdictIsReachability` where entries fit, and three for numbers
that 64 bits hold. The liveness properties
`EveryCallReturns`, `OperationEnds`, `CallReturns` and `CallsReturn`
stay with TLC: liveness under fairness is out of TLAPS's reach. The runs that
expect a violation refute a claim and have nothing to prove.

## 7. What is not modelled

- Storage access and reports, platform calls, logging: wrappers over the
  operating system and formatting, with no protocol of their own. Models take
  the bytes of a disk and reads that may fail.
- The recovery worker's thread in the window: unreachable, see above.
  `RecoveryServices` has the threads that call the service, had they been started.
- The configuration page, which nothing ever hands a device; the progress page,
  which displays; the application object, which creates two objects and runs
  the event loop.
- `carveFileType`: only tests call it. It keeps its search offset in
  a static local, so that a second call starts where the first stopped.
- Which buttons of the workflow page are enabled, progress bars and status
  texts: the menu offers every operation at all times.
- Device and partition queries of the services, which return constants; the
  texts of results and of validation reports; the scores of `FATValidator`,
  labels, names and the constant fields of `NTFSMetadata`.
- The contents of recovered files and metadata: the code makes them up from the
  boot sector. `parseFatDirectoryEntry` and `followFatChain` have no caller.
- The catch of `handleRecover` and the exception handlers of the GUI's service but
  that of the analysis: nothing the models' disks, services and callbacks do gets there.
- Sectors below 512 bytes in the FAT and NTFS parts of `DiskLayout`, which readers
  of this suite do not have; the products of 64-bit sizes in `NTFSVolumes`, which are
  not wrapped at 2^64. The runs have sectors of 512 bytes there; larger ones are the
  theorems' part.
- Checksums as arithmetic: a damaged block with the right checksum does not
  exist in the model.

## 8. Plan

What remains, in order of what it would add:

1. The safety half of the liveness properties, as theorems: measures that every
   step of a running call decreases (the stack and its pending callbacks, the
   search positions of a chunk, the length of a chain, the cluster of a read).
2. Properties for hazards that none covers yet, the disagreements of section 3 first.
3. What carving promises when a sector does not divide the chunk, in place of the
   hypothesis `Aligned`.
4. `carveFileType` with its static offset, should the application come to call it;
   the recovery worker, should the window reach `RECOVERY`.
