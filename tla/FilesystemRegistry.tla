------------------------- MODULE FilesystemRegistry -------------------------
(***************************************************************************)
(* Which driver a boot sector gets: SimpleFilesystemRegistry, the          *)
(* FilesystemManager in front of it and the one driver of the repository,  *)
(* NTFSDriver.  Other drivers are external: they are what FilesystemDriver *)
(* asks of them.  Confidences are counted in quarters.                     *)
(***************************************************************************)
EXTENDS Integers, Sequences, SequencesExt

CONSTANTS
    OtherDrivers,       \* drivers implemented elsewhere
    Claim,              \* the type each of them names as its own
    Supports,           \* the types each of them supports
    Confidence,         \* what each of them thinks of each kind of boot sector
    BootSectors

(* A driver handles the type it names, and a confidence is not negative    *)
(* (FilesystemDriver.h:23-41).                                             *)
ASSUME DriversAssumption ==
    /\ "none" \notin OtherDrivers
    /\ \A d \in OtherDrivers :
          /\ Claim[d] \in Supports[d]
          /\ \A b \in BootSectors : Confidence[d][b.kind] \in Nat

NTFSDriver == "ntfs"
Drivers == OtherDrivers \cup {NTFSDriver}

VARIABLES
    drivers,            \* drivers_, in registration order
    detected            \* what the last call returned

registryVars == <<drivers, detected>>

Nobody ==
    [op |-> "none", boot |-> [kind |-> "none"], type |-> "UNKNOWN", confidence |-> 0,
     driver |-> "none"]

RegistryInit == drivers = <<>> /\ detected = Nobody

BootSectorSize == 499

PowersOf2 == {1, 2, 4, 8, 16, 32, 64, 128, 256, 512, 1024, 2048, 4096}

(* Wrong variant: any cluster size up to 128 is taken.                        *)
AnyClusterSize(b) ==
    /\ b.size >= BootSectorSize
    /\ b.oemNTFS
    /\ b.bytesPerSector \in PowersOf2 /\ b.bytesPerSector >= 256
    /\ b.sectorsPerCluster \in 1..128
    /\ b.signature497

(* The packed BootSector is 499 bytes long: the signature it checks is at  *)
(* offset 497 of the sector, not at 510.                                   *)
ValidateBootSector(b) ==
    /\ b.size >= BootSectorSize
    /\ b.oemNTFS
    /\ b.bytesPerSector \in PowersOf2 /\ b.bytesPerSector >= 256
    /\ b.sectorsPerCluster \in PowersOf2 /\ b.sectorsPerCluster <= 128
    /\ b.signature497

NTFSProbe(b) == IF b.size >= BootSectorSize /\ ValidateBootSector(b) THEN 4 ELSE 0

Probe(d, b) == IF d = NTFSDriver THEN NTFSProbe(b) ELSE Confidence[d][b.kind]
GetFilesystemType(d) == IF d = NTFSDriver THEN "NTFS" ELSE Claim[d]
GetSupportedTypes(d) == IF d = NTFSDriver THEN {"NTFS"} ELSE Supports[d]

(* Wrong variant: of equally confident drivers the last one is taken.         *)
LastBestProber(b) ==
    LET best == {i \in DOMAIN drivers : /\ Probe(drivers[i], b) > 0
                                        /\ \A j \in DOMAIN drivers :
                                              Probe(drivers[j], b) <= Probe(drivers[i], b)}
    IN IF best = {} THEN "none" ELSE drivers[Max(best)]

(* findDriver over a boot sector: the greatest confidence, the earlier     *)
(* registration, none if no driver has any.                                *)
FindProber(b) ==
    LET best == {i \in DOMAIN drivers : /\ Probe(drivers[i], b) > 0
                                        /\ \A j \in DOMAIN drivers :
                                              Probe(drivers[j], b) <= Probe(drivers[i], b)}
    IN IF best = {} THEN "none" ELSE drivers[Min(best)]

(* findDriver over a type: the first driver that supports it.              *)
FindDriver(t) ==
    LET fit == {i \in DOMAIN drivers : t \in GetSupportedTypes(drivers[i])}
    IN IF fit = {} THEN "none" ELSE drivers[Min(fit)]

-----------------------------------------------------------------------------
RegisterDriver(d) ==
    /\ drivers' = IF \E i \in DOMAIN drivers : drivers[i] = d THEN drivers ELSE Append(drivers, d)
    /\ UNCHANGED detected

(* What remove_if leaves of the drivers, in their order.                   *)
Without(d, s) ==
    LET left[i \in 0..Len(s)] ==
            IF i = 0 THEN <<>>
            ELSE IF s[i] = d THEN left[i - 1] ELSE Append(left[i - 1], s[i])
    IN left[Len(s)]

UnregisterDriver(d) ==
    /\ drivers' = Without(d, drivers)
    /\ UNCHANGED detected

ClearDrivers ==
    /\ drivers' = <<>>
    /\ UNCHANGED detected

Detection(op, b) ==
    LET d == FindProber(b)
    IN IF d = "none" THEN [Nobody EXCEPT !.op = op, !.boot = b]
       ELSE [op |-> op, boot |-> b, type |-> GetFilesystemType(d),
             confidence |-> Probe(d, b), driver |-> d]

DetectFilesystem(b) ==
    /\ detected' = Detection("detectFilesystem", b)
    /\ UNCHANGED drivers

(* The driver that creates a filesystem: NTFSDriver creates none yet.      *)
CreateFilesystem(t) ==
    IF FindDriver(t) = NTFSDriver THEN "none" ELSE FindDriver(t)

CreateFilesystemOfType(t) ==
    /\ detected' = [Nobody EXCEPT !.op = "createFilesystem", !.type = t,
                                  !.driver = CreateFilesystem(t)]
    /\ UNCHANGED drivers

(* Half confidence is enough; the driver is looked up again, by the type.  *)
CreateFilesystemFromBootSector(b) ==
    /\ LET found == Detection("createFilesystemFromBootSector", b)
       IN detected' = [found EXCEPT !.driver =
                          IF found.confidence < 2 THEN "none" ELSE CreateFilesystem(found.type)]
    /\ UNCHANGED drivers

GetSupportedTypesOfAll == UNION {GetSupportedTypes(drivers[i]) : i \in DOMAIN drivers}

RegistryNext ==
    \/ \E d \in Drivers : RegisterDriver(d) \/ UnregisterDriver(d)
    \/ ClearDrivers
    \/ \E b \in BootSectors : DetectFilesystem(b) \/ CreateFilesystemFromBootSector(b)
    \/ \E t \in GetSupportedTypesOfAll \cup {"UNKNOWN"} : CreateFilesystemOfType(t)

-----------------------------------------------------------------------------
(* Whatever was registered, unregistered and registered again in between,  *)
(* detection names the most confident driver then registered, the earliest *)
(* of equals, and a filesystem made from a boot sector is made by that     *)
(* driver unless an earlier one also supports the type it claims           *)
(* (SimpleFilesystemRegistry.cpp:7-65, FilesystemManager.cpp:10-54).       *)
RightDriver(b, d) ==
    /\ d \in {drivers[i] : i \in DOMAIN drivers}
    /\ Probe(d, b) > 0
    /\ \A e \in {drivers[i] : i \in DOMAIN drivers} :
          \/ Probe(e, b) < Probe(d, b)
          \/ /\ Probe(e, b) = Probe(d, b)
             /\ \E i, j \in DOMAIN drivers : i <= j /\ drivers[i] = d /\ drivers[j] = e

ChoiceIsRight ==
    /\ detected'.op = "detectFilesystem" /\ detected' # detected =>
          IF detected'.driver = "none"
            THEN \A i \in DOMAIN drivers : Probe(drivers[i], detected'.boot) = 0
            ELSE RightDriver(detected'.boot, detected'.driver)
    /\ (/\ detected'.op = "createFilesystemFromBootSector" /\ detected' # detected
        /\ detected'.driver # "none") =>
          \/ RightDriver(detected'.boot, detected'.driver)
          \/ \E i, j \in DOMAIN drivers :
                /\ i < j
                /\ drivers[i] = detected'.driver
                /\ RightDriver(detected'.boot, drivers[j])
    /\ IsInjective(drivers)

DriverChoice == [][ChoiceIsRight]_registryVars
=============================================================================
