-------------------------- MODULE RecoveryClients --------------------------
(***************************************************************************)
(* The recovery code as its three kinds of clients use it: a program on    *)
(* the engines themselves, the GUI's threads on its service, and the       *)
(* command line.  A process is one of the three, so a behaviour is, and    *)
(* the parts add up.                                                       *)
(***************************************************************************)
EXTENDS Integers, Sequences

CONSTANTS
    UInt64,
    Devices, Masks, FailingSets, Starts, Counts, Offsets, Sizes, Exports,
    Main, Workers, Total, Ranges, MaxCalls, MaxMillis,
    Typed, MaxCommands

ASSUME ClientsAssumption ==
    /\ UInt64 \in Nat \ {0}
    /\ Total \in Nat
    /\ Main \notin Workers
    /\ Typed \subseteq Int \X Int
    /\ MaxCommands \in Nat

Sectors == 0..(UInt64 - 1)

BootSectors ==
    [signature : BOOLEAN, oemNTFS : BOOLEAN, bytesPerSector : Nat, sectorsPerCluster : Nat,
     reserved : Nat, fatCount : Nat, rootEntryCount : Nat, total : Nat,
     fatSize16 : Nat, fatSize32 : Nat]

VARIABLES
    client,             \* the kind of client of this behaviour
    device, registry, startSector, detected, last,
    present, engines, pc, call, dangling, answer, tokens, raced, millis, calls, crashed,
    process, commands, deletions, service, rows, counter, validated, recovered

Engines == INSTANCE RecoveryEngines
Services == INSTANCE RecoveryServices
CLI == INSTANCE CommandLine

(* Sectors are counted, and ranges and lengths passed, in 64 bits.         *)
ASSUME EnginesAssumption ==
    /\ Devices # {}
    /\ \A d \in Devices :
          /\ d.present \in BOOLEAN /\ d.sectorSize \in Nat /\ d.total \in Sectors
          /\ d.fatsIntact \in BOOLEAN
          /\ \A n \in DOMAIN d.boots : d.boots[n] \in BootSectors
    /\ Masks \subseteq SUBSET Engines!Capabilities
    /\ Starts \subseteq Sectors /\ Counts \subseteq Sectors
    /\ Offsets \subseteq Sectors /\ Sizes \subseteq Sectors
    /\ Exports \subseteq Seq(Nat)

engineVars == <<device, registry, startSector, detected, last>>
serviceVars ==
    <<present, engines, pc, call, dangling, answer, tokens, raced, millis, calls, crashed>>
cliVars == <<process, commands, deletions, service, rows, counter, validated, recovered>>
vars == <<client, engineVars, serviceVars, cliVars>>

Init ==
    /\ client \in {"engines", "gui", "cli"}
    /\ device \in IF client = "engines" THEN Devices ELSE {CHOOSE d \in Devices : TRUE}
    /\ Engines!EnginesInit
    /\ Services!ServicesInit(IF client = "gui" THEN BOOLEAN ELSE {FALSE})
    /\ CLI!CLIInit

Next ==
    /\ client' = client
    /\ \/ /\ client = "engines"
          /\ Engines!EnginesNext
          /\ UNCHANGED <<serviceVars, cliVars>>
       \/ /\ client = "gui"
          /\ Services!ServicesNext
          /\ UNCHANGED <<engineVars, cliVars>>
       \/ /\ client = "cli"
          /\ CLI!CLINext
          /\ UNCHANGED <<engineVars, serviceVars>>

Spec == Init /\ [][Next]_vars

-----------------------------------------------------------------------------
(* Every variable keeps the shape its class declares; the start sector the *)
(* analyzer keeps and the sector a caller notes are ones asked for.        *)
TypeOK ==
    /\ device \in Devices
    /\ registry \subseteq Engines!Capabilities
    /\ startSector \in Starts \cup {0} /\ detected.sector \in Starts \cup {0}
    /\ detected.type \in Engines!Recoverable \cup {"FAT", ""}
    /\ last # Engines!NoCall => last.answer.result \in {"true", "false", "throws", "trap"}
    /\ \A t \in Services!Threads :
          /\ pc[t] \in {"idle", "register", "range", "check", "make", "run", "convert", "erase", "return"}
          /\ call[t].at \in 0..4
          /\ dangling[t] => pc[t] = "run" /\ call[t].kind \in engines
    /\ DOMAIN rows = 1..counter
    /\ service \in 0..commands

EnginesReadWhatIsAsked == Engines!EnginesReadWhatIsAsked
DetectionAgrees == Engines!DetectionAgrees
ExportFits == Engines!ExportFits
TokensAreOfLiveOps == Services!TokensAreOfLiveOps
ValidateAgrees == CLI!ValidateAgrees
FinishedRowsStay == CLI!FinishedRowsStay
DiskFreedOnce == CLI!DiskFreedOnce

=============================================================================
