-------------------------- MODULE RecoveryServices --------------------------
(***************************************************************************)
(* GUIRecoveryService over RecoveryService, as the GUI's main thread       *)
(* (analysis) and its recovery workers (the three recoveries) call them.   *)
(* The engines are made at the first call that needs them, and nothing     *)
(* guards that: two calls may both find a pointer empty, and the second    *)
(* assignment deletes the engine the first caller is inside.  What then    *)
(* happens is undefined: the process dies, or the call ends somehow.  The  *)
(* map of cancellation tokens is changed by the workers unguarded, too.    *)
(*                                                                         *)
(* The operations of each service differ in the engine they run and in the *)
(* tokens they keep; the steps they share are defined once and every       *)
(* operation names those it takes.  GUIRecoveryService's handlers for      *)
(* exceptions are left out but for that of the analysis: RecoveryService   *)
(* turns every exception into a result, and the callers' callbacks throw   *)
(* none.                                                                   *)
(***************************************************************************)
EXTENDS Integers, Sequences

CONSTANTS
    Main, Workers,      \* the threads
    Total,              \* the sectors of the disk
    UInt64,             \* 2^64
    Ranges,             \* the ranges asked for: <<first sector, sectors>>
    MaxCalls,           \* calls in a behaviour
    MaxMillis           \* milliseconds in a behaviour

VARIABLES
    present,            \* recoveryService_ is not null
    engines,            \* the pointers to engines that are set
    pc, call,           \* where a thread is, and the call it makes
    dangling,           \* a thread's engine was deleted while it ran it
    answer,             \* what its call will answer
    tokens,             \* keys of operationCancellationTokens_
    raced,              \* two threads have been in that map at once
    millis, calls,      \* clock and calls so far
    crashed

serviceVars ==
    <<present, engines, pc, call, dangling, answer, tokens, raced, millis, calls, crashed>>

Threads == {Main} \cup Workers

(* The pointers, in the order initializeComponents looks at them, and the  *)
(* operation each serves.                                                  *)
Components == <<"analysis", "file_recovery", "metadata_recovery", "carving">>

(* What an analysis says of a volume, and what the GUI's service makes     *)
(* numbers of (GUIRecoveryService.cpp:116-119).                            *)
AnalysisKeys ==
    {"Filesystem Type", "Version", "Bytes Per Sector", "Sectors Per Cluster",
     "Reserved Sector Count", "Number of FATs", "Root Entry Count", "Total Sectors",
     "Total Sectors (16-bit)", "Total Sectors (32-bit)", "FAT Size", "FAT Size (16-bit)",
     "FAT Size (32-bit)", "Root Directory Sectors", "First Data Sector", "Cluster Count",
     "Total Size", "Free Space", "Used Space", "Volume Label", "Volume Serial Number"}

NumberKeys == {"total_size_bytes", "used_size_bytes", "free_size_bytes", "cluster_size_bytes"}

NoOp == [kind |-> "none", range |-> <<0, 0>>, id |-> <<"none", 0>>, token |-> FALSE, at |-> 0]

ServicesInit(readers) ==
    /\ present \in readers
    /\ engines = {}
    /\ pc = [t \in Threads |-> "idle"]
    /\ call = [t \in Threads |-> NoOp]
    /\ dangling = [t \in Threads |-> FALSE]
    /\ answer = [t \in Threads |-> "none"]
    /\ tokens = {}
    /\ raced = FALSE
    /\ millis = 0 /\ calls = 0
    /\ crashed = FALSE

IsSectorRangeValid(startSector, numSectors) ==
    /\ numSectors # 0
    /\ startSector <= UInt64 - 1 - numSectors
    /\ startSector < Total
    /\ startSector + numSectors <= Total

Goto(t, where) == pc' = [pc EXCEPT ![t] = where]

-----------------------------------------------------------------------------
(* The steps of a call.  The key of the token is made of the operation and *)
(* the millisecond; whether there is a token is up to the caller.          *)
Call(t, kind, range, token) ==
    /\ pc[t] = "idle" /\ calls < MaxCalls
    /\ kind = "analysis" <=> t = Main
    /\ calls' = calls + 1
    /\ IF ~present
       THEN UNCHANGED <<pc, call>>
       ELSE /\ call' = [call EXCEPT ![t] = [kind |-> kind, range |-> range, id |-> <<kind, millis>>,
                                            token |-> token, at |-> 1]]
            /\ Goto(t, IF t = Main THEN "range" ELSE "register")
    /\ UNCHANGED <<present, engines, dangling, answer, tokens, raced, millis, crashed>>

InMap(t) == pc[t] = "erase" \/ (pc[t] = "register" /\ call[t].token)

(* A change of the map.  When another thread is about its own, the two may *)
(* overlap: this one may be lost, or the process die.                      *)
ChangeMap(t, changed) ==
    \/ tokens' = changed /\ UNCHANGED <<raced, crashed>>
    \/ /\ \E u \in Threads \ {t} : InMap(u)
       /\ raced' = TRUE
       /\ UNCHANGED tokens
       /\ crashed' \in BOOLEAN

Register(t) ==
    /\ pc[t] = "register"
    /\ IF call[t].token
       THEN ChangeMap(t, tokens \cup {call[t].id})
       ELSE UNCHANGED <<tokens, raced, crashed>>
    /\ Goto(t, "range")
    /\ UNCHANGED <<present, engines, call, dangling, answer, millis, calls>>

(* Where a call goes when RecoveryService has its result.                  *)
Leave(t) == Goto(t, IF t = Main THEN "convert" ELSE "erase")

CheckRange(t) ==
    /\ pc[t] = "range"
    /\ IF IsSectorRangeValid(call[t].range[1], call[t].range[2])
       THEN Goto(t, "check") /\ UNCHANGED answer
       ELSE Leave(t) /\ answer' = [answer EXCEPT ![t] = "failed"]
    /\ UNCHANGED <<present, engines, call, dangling, tokens, raced, millis, calls, crashed>>

(* A call that has come to the i-th pointer.                               *)
AtPointer(c, i) ==
    [kind |-> c.kind, range |-> c.range, id |-> c.id, token |-> c.token, at |-> i]

(* initializeComponents as far as the next pointer found empty: none that  *)
(* is set is ever emptied, so passing those needs no steps of its own.     *)
(* Behind the last one the engine of the operation is entered.             *)
CheckPointers(t) ==
    LET empty == {i \in call[t].at..Len(Components) : Components[i] \notin engines}
    IN /\ pc[t] = "check"
       /\ IF empty # {}
          THEN /\ call' = [call EXCEPT ![t] = AtPointer(@, CHOOSE i \in empty : \A j \in empty : i <= j)]
               /\ Goto(t, "make")
          ELSE /\ call' = [call EXCEPT ![t] = AtPointer(@, Len(Components))]
               /\ Goto(t, "run")
       /\ UNCHANGED <<present, engines, dangling, answer, tokens, raced, millis, calls, crashed>>

(* The pointer is assigned; what it held meanwhile is deleted, with        *)
(* threads inside.                                                         *)
MakeComponent(t) ==
    LET made == Components[call[t].at]
    IN /\ pc[t] = "make"
       /\ engines' = engines \cup {made}
       /\ dangling' = [u \in Threads |->
                         dangling[u] \/ (made \in engines /\ pc[u] = "run" /\ call[u].kind = made)]
       /\ Goto(t, "check")
       /\ UNCHANGED <<present, call, answer, tokens, raced, millis, calls, crashed>>

(* The engine's call ends; whatever it throws becomes the result's error   *)
(* message.                                                                *)
RunEngine(t) ==
    /\ pc[t] = "run"
    /\ \E outcome \in {"success", "failed"} : answer' = [answer EXCEPT ![t] = outcome]
    /\ crashed' \in IF dangling[t] THEN BOOLEAN ELSE {FALSE}
    /\ dangling' = [dangling EXCEPT ![t] = FALSE]
    /\ Leave(t)
    /\ UNCHANGED <<present, engines, call, tokens, raced, millis, calls>>

(* Wrong variant: the token goes only when the recovery succeeded.            *)
EraseOnSuccess(t) ==
    /\ pc[t] = "erase"
    /\ ChangeMap(t, IF answer[t] = "success" THEN tokens \ {call[t].id} ELSE tokens)
    /\ Goto(t, "return")
    /\ UNCHANGED <<present, engines, call, dangling, answer, millis, calls>>

Erase(t) ==
    /\ pc[t] = "erase"
    /\ ChangeMap(t, tokens \ {call[t].id})
    /\ Goto(t, "return")
    /\ UNCHANGED <<present, engines, call, dangling, answer, millis, calls>>

(* The strings of a successful analysis become numbers; one that is not   *)
(* there throws, and the analysis has failed.                              *)
Convert(t) ==
    /\ pc[t] = "convert"
    /\ answer' = [answer EXCEPT ![t] =
                     IF @ = "success" /\ ~(NumberKeys \subseteq AnalysisKeys) THEN "failed" ELSE @]
    /\ Goto(t, "return")
    /\ UNCHANGED <<present, engines, call, dangling, tokens, raced, millis, calls, crashed>>

(* The result goes to the caller.                                          *)
Return(t) ==
    /\ pc[t] = "return"
    /\ answer' = [answer EXCEPT ![t] = "none"]
    /\ call' = [call EXCEPT ![t] = NoOp]
    /\ Goto(t, "idle")
    /\ UNCHANGED <<present, engines, dangling, tokens, raced, millis, calls, crashed>>

Tick ==
    /\ millis < MaxMillis
    /\ millis' = millis + 1
    /\ UNCHANGED <<present, engines, pc, call, dangling, answer, tokens, raced, calls, crashed>>

-----------------------------------------------------------------------------
(* The operations of RecoveryService, between the call and its result.     *)

Serve(t, kind) ==
    /\ call[t].kind = kind
    /\ CheckRange(t) \/ CheckPointers(t) \/ MakeComponent(t) \/ RunEngine(t)

ServiceAnalyzeFilesystem(t) == Serve(t, "analysis")
ServiceRecoverFiles(t) == Serve(t, "file_recovery")
ServiceRecoverMetadata(t) == Serve(t, "metadata_recovery")
ServiceCarveFiles(t) == Serve(t, "carving")

(* The operations of GUIRecoveryService around them.                       *)

WithToken(t, kind) ==
    \/ \E range \in Ranges, token \in BOOLEAN : Call(t, kind, range, token)
    \/ call[t].kind = kind /\ (Register(t) \/ Erase(t) \/ Return(t))

AnalyzeFilesystem(t) ==
    \/ \E range \in Ranges : Call(t, "analysis", range, FALSE)
    \/ call[t].kind = "analysis" /\ (Convert(t) \/ Return(t))

RecoverFiles(t) == WithToken(t, "file_recovery")
RecoverMetadata(t) == WithToken(t, "metadata_recovery")
CarveFiles(t) == WithToken(t, "carving")

ServicesNext ==
    /\ ~crashed
    /\ \/ Tick
       \/ \E t \in Threads :
             \/ AnalyzeFilesystem(t) \/ ServiceAnalyzeFilesystem(t)
             \/ RecoverFiles(t) \/ ServiceRecoverFiles(t)
             \/ RecoverMetadata(t) \/ ServiceRecoverMetadata(t)
             \/ CarveFiles(t) \/ ServiceCarveFiles(t)

-----------------------------------------------------------------------------
(* Every token in the map belongs to a call under way, whichever way calls *)
(* end and whichever of two calls with one key ends first, as long as no   *)
(* two threads changed the map at once (GUIRecoveryService.cpp:156-172).   *)
TokensAreOfLiveOps ==
    ~raced => \A id \in tokens : \E t \in Workers : pc[t] # "idle" /\ call[t].id = id

=============================================================================
