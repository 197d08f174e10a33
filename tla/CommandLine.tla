---------------------------- MODULE CommandLine ----------------------------
(***************************************************************************)
(* CLIHandler, one handler after the other, over DiskManager, PhysicalDisk *)
(* and RecoveryService.  A disk the manager opens is owned by the handler, *)
(* which deletes it when it returns, and once more by the service, which   *)
(* is replaced in the next handler or destroyed at the end: from the       *)
(* second deletion on anything may happen, of which the model keeps the    *)
(* end of the process and that nothing is noticed.                         *)
(*                                                                         *)
(* A command is one call of run on one handler.  The shipped main makes    *)
(* one call and returns; the class serves any number, and what it keeps    *)
(* between them (the operations, the service) has no other use.            *)
(***************************************************************************)
EXTENDS Integers, OperationValidation

CONSTANTS
    Total,              \* the sectors of every disk: 1000000 in the code
    UInt64,             \* 2^64
    Typed,              \* the pairs of numbers typed, negative ones included
    MaxCommands         \* commands in a behaviour

VARIABLES
    process,            \* "running", "ended", "crashed"
    commands,           \* commands so far; disks are numbered by them
    deletions,          \* how often the disk opened by a command was deleted
    service,            \* the command whose disk recoveryService_ holds, 0
    rows,               \* activeOperations_, by the counter in their ids
    counter,            \* generateOperationId's counter
    validated,          \* the last verdict of validate
    recovered           \* the last recovery and its error

cliVars == <<process, commands, deletions, service, rows, counter, validated, recovered>>

Recoveries == {"FILESYSTEM_ANALYSIS", "FILE_RECOVERY", "METADATA_RECOVERY", "CARVING"}

CLIInit ==
    /\ process = "running"
    /\ commands = 0
    /\ deletions = [c \in 1..MaxCommands |-> 0]
    /\ service = 0
    /\ rows = << >>
    /\ counter = 0
    /\ validated = [cap |-> "NONE", start |-> 0, num |-> 0, passed |-> FALSE]
    /\ recovered = [cap |-> "NONE", start |-> 0, num |-> 0, error |-> ""]

(* A minus sign is accepted and wraps; what is 2^64 or more without it is  *)
(* refused.                                                                *)
IsUint64(text) == text > -UInt64 /\ text < UInt64

ParseUint64(text) == text % UInt64

(* RecoveryService's test of a range.                                      *)
IsSectorRangeValid(startSector, numSectors) ==
    /\ numSectors # 0
    /\ startSector <= UInt64 - 1 - numSectors
    /\ startSector < Total
    /\ startSector + numSectors <= Total

(* DiskManager opens any number, read-only, and PhysicalDisk refuses to    *)
(* read a disk opened read-only: what gets past the range check ends in    *)
(* an exception, which the service turns into an error message.            *)
ServiceError(startSector, numSectors) ==
    IF IsSectorRangeValid(startSector, numSectors) THEN "Exception" ELSE "Invalid sector range"

(* What the deletions of a step do to the process: a disk deleted for the  *)
(* second time may end it.                                                 *)
Delete(disks, otherwise) ==
    /\ deletions' = [c \in DOMAIN deletions |->
                        deletions[c] + IF c \in disks THEN 1 ELSE 0]
    /\ process' \in {otherwise} \cup IF \E c \in disks : deletions[c] > 0 THEN {"crashed"} ELSE {}

(* The disk is opened, the service made on it and the last one replaced,   *)
(* the operation done, and the handler's disk deleted as it returns.       *)
OpenDiskFor(command) ==
    /\ service' = command
    /\ Delete({command, service} \ {0}, "running")

NextCommand ==
    /\ process = "running"
    /\ commands < MaxCommands
    /\ commands' = commands + 1

-----------------------------------------------------------------------------
HandleAnalyze(start, num) ==
    /\ NextCommand
    /\ IsUint64(start) /\ IsUint64(num)
    /\ recovered' = [cap |-> "FILESYSTEM_ANALYSIS",
                     start |-> ParseUint64(start), num |-> ParseUint64(num),
                     error |-> ServiceError(ParseUint64(start), ParseUint64(num))]
    /\ OpenDiskFor(commands')
    /\ UNCHANGED <<rows, counter, validated>>

(* Wrong variant: the sum of start and number may wrap.                       *)
ValidateWithoutOverflow(cap, start, num) ==
    LET startSector == ParseUint64(start)
        numSectors == ParseUint64(num)
        endSector == (startSector + numSectors) % UInt64
        failing == IF startSector < Total /\ endSector <= Total THEN {} ELSE {"INVALID_SOURCE_RANGES"}
    IN /\ NextCommand
       /\ IsUint64(start) /\ IsUint64(num)
       /\ validated' = [cap |-> cap, start |-> startSector, num |-> numSectors,
                        passed |-> ValidationPassed(ValidateOperation(Recoveries, {cap}, failing))]
       /\ Delete({commands'}, "running")
       /\ UNCHANGED <<service, rows, counter, recovered>>

(* The disk is opened for its size and deleted on return; its registry is  *)
(* one of the handler's own.                                               *)
HandleValidate(cap, start, num) ==
    LET startSector == ParseUint64(start)
        numSectors == ParseUint64(num)
        endSector == (startSector + numSectors) % UInt64
        failing == (IF startSector < Total /\ endSector <= Total THEN {} ELSE {"INVALID_SOURCE_RANGES"})
                   \cup (IF endSector >= startSector THEN {} ELSE {"ARITHMETIC_OVERFLOW_RISK"})
    IN /\ NextCommand
       /\ IsUint64(start) /\ IsUint64(num)
       /\ validated' = [cap |-> cap, start |-> startSector, num |-> numSectors,
                        passed |-> ValidationPassed(ValidateOperation(Recoveries, {cap}, failing))]
       /\ Delete({commands'}, "running")
       /\ UNCHANGED <<service, rows, counter, recovered>>

(* Wrong variant: the counter as it was before this operation.                *)
OldCounter == counter

(* The number in the operation's id, which the clock in it only decorates. *)
GenerateOperationId == counter + 1

(* Everything but an analysis asks first.  Nothing inside the handler's    *)
(* try throws: disks are opened without a check, and the service turns     *)
(* exceptions into errors; so its catch, which would mark the row with the *)
(* greatest id as failed, is never entered.                                *)
HandleRecover(cap, start, num, confirmed) ==
    /\ NextCommand
    /\ IsUint64(start) /\ IsUint64(num)
    /\ IF cap = "FILESYSTEM_ANALYSIS" \/ confirmed
       THEN LET error == ServiceError(ParseUint64(start), ParseUint64(num))
            IN /\ counter' = counter + 1
               /\ rows' = [id \in DOMAIN rows \cup {GenerateOperationId} |->
                              IF id = GenerateOperationId
                              THEN [type |-> cap, status |-> "Failed", cancelled |-> FALSE]
                              ELSE rows[id]]
               /\ recovered' = [cap |-> cap,
                                start |-> ParseUint64(start), num |-> ParseUint64(num),
                                error |-> error]
               /\ OpenDiskFor(commands')
       ELSE /\ process' = process
            /\ UNCHANGED <<deletions, service, rows, counter, recovered>>
    /\ UNCHANGED validated

Finished == {"Completed successfully", "Failed"}

Cancelling(row) == [type |-> row.type, status |-> "Cancelling...", cancelled |-> TRUE]

(* Wrong variant: only a success counts as finished.                          *)
CancelUnlessCompleted(id) ==
    /\ NextCommand
    /\ rows' = IF id \in DOMAIN rows /\ rows[id].status # "Completed successfully"
               THEN [rows EXCEPT ![id] = Cancelling(@)]
               ELSE rows
    /\ UNCHANGED <<process, deletions, service, counter, validated, recovered>>

HandleCancel(id) ==
    /\ NextCommand
    /\ rows' = IF id \in DOMAIN rows /\ rows[id].status \notin Finished
               THEN [rows EXCEPT ![id] = Cancelling(@)]
               ELSE rows
    /\ UNCHANGED <<process, deletions, service, counter, validated, recovered>>

(* The records are printed, one or all.                                    *)
HandleStatus ==
    /\ NextCommand
    /\ UNCHANGED <<process, deletions, service, rows, counter, validated, recovered>>

(* List and disk info only print; a mistyped number, an unknown capability *)
(* or command and a missing argument end a handler before it does          *)
(* anything.                                                               *)
HandleOther ==
    /\ NextCommand
    /\ UNCHANGED <<process, deletions, service, rows, counter, validated, recovered>>

(* main returns and the handler is destroyed, the service with it.         *)
Exit ==
    /\ process = "running"
    /\ Delete({service} \ {0}, "ended")
    /\ service' = 0
    /\ UNCHANGED <<commands, rows, counter, validated, recovered>>

CLINext ==
    \/ \E typed \in Typed :
          LET start == typed[1]
              num == typed[2]
          IN
          \/ HandleAnalyze(start, num)
          \/ \E cap \in Recoveries :
                \/ HandleValidate(cap, start, num)
                \/ \E confirmed \in BOOLEAN : HandleRecover(cap, start, num, confirmed)
    \/ \E id \in 1..(counter + 1) : HandleCancel(id)
    \/ HandleStatus
    \/ HandleOther
    \/ Exit

-----------------------------------------------------------------------------
(* validate passes exactly the ranges recover does not refuse, however the *)
(* numbers wrap; a range of no sectors is the exception, which validate    *)
(* passes and recover refuses (CLIHandler.cpp:332-335, RecoveryService.cpp:*)
(* 274-306).                                                               *)
ValidateAgrees ==
    /\ validated.cap # "NONE" /\ recovered.cap # "NONE"
    /\ validated.start = recovered.start /\ validated.num = recovered.num
    /\ validated.num # 0
    => (validated.passed <=> recovered.error # "Invalid sector range")

(* The record of an operation that ended is final: no later command of the *)
(* session cancels, replaces or drops it (CLIHandler.cpp:609-616, 829-840).*)
FinishedRowsStay ==
    [][\A id \in DOMAIN rows :
          rows[id].status \in Finished => id \in DOMAIN rows' /\ rows'[id] = rows[id]]_cliVars

(* A disk has one owner: "Use `std::unique_ptr` for exclusive ownership"   *)
(* (docs/DEVELOPMENT_RULES.md:19).  The handlers give it two               *)
(* (CLIHandler.cpp:245, 455).                                              *)
DiskFreedOnce == \A c \in DOMAIN deletions : deletions[c] <= 1

=============================================================================
