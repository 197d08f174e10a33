----------------------- MODULE RecoveryClientsProofs -----------------------
(***************************************************************************)
(* Theorems about RecoveryClients: the cancellation tokens of the GUI's    *)
(* service, the verdicts and records of the command line, what the engines *)
(* read, answer and export, and types, for any number of threads, commands *)
(* and sectors.                                                            *)
(***************************************************************************)
EXTENDS RecoveryClients, NumberLemmas

-----------------------------------------------------------------------------
(* Cancellation tokens.                                                    *)

Threads == Services!Threads

(* A step of a thread inside a call, whichever operation takes it.         *)
ThreadStep(t) ==
    \/ Services!Register(t) \/ Services!CheckRange(t) \/ Services!CheckPointers(t)
    \/ Services!MakeComponent(t) \/ Services!RunEngine(t) \/ Services!Convert(t)
    \/ Services!Erase(t) \/ Services!Return(t)

ThreadCall(t) ==
    \E kind \in {"analysis", "file_recovery", "metadata_recovery", "carving"},
       range \in Ranges, token \in BOOLEAN : Services!Call(t, kind, range, token)

(* Where the token of a call is held: from its registration to its erasure.*)
Holding == {"range", "check", "make", "run", "erase"}

(* The main thread registers no token.                                     *)
Shapes == DOMAIN pc = Threads /\ DOMAIN call = Threads /\ pc[Main] # "register"

(* While no two threads have raced in the map, each token in it is held by *)
(* a call of a worker that has yet to erase it.                            *)
TokensAreHeld ==
    ~raced => \A id \in tokens : \E t \in Workers : pc[t] \in Holding /\ call[t].id = id

Held == Shapes /\ TokensAreHeld

LEMMA WorkersAreThreads == Threads = {Main} \cup Workers /\ Main \notin Workers
  BY ClientsAssumption DEF Threads, Services!Threads

LEMMA ServicesSteps ==
    ASSUME Services!ServicesNext
    PROVE  Services!Tick \/ \E t \in Threads : ThreadStep(t) \/ ThreadCall(t)
<1>1. ASSUME NEW t \in Threads, NEW kind, Services!Serve(t, kind)
      PROVE  ThreadStep(t)
  BY <1>1, Zenon DEF Services!Serve, ThreadStep
<1>2. ASSUME NEW t \in Threads,
             NEW kind \in {"file_recovery", "metadata_recovery", "carving"},
             Services!WithToken(t, kind)
      PROVE  ThreadStep(t) \/ ThreadCall(t)
  BY <1>2, Zenon DEF Services!WithToken, ThreadStep, ThreadCall
<1>3. ASSUME NEW t \in Threads, Services!AnalyzeFilesystem(t)
      PROVE  ThreadStep(t) \/ ThreadCall(t)
  BY <1>3, Zenon DEF Services!AnalyzeFilesystem, ThreadStep, ThreadCall
<1>4. PICK t \in Threads :
        \/ Services!Tick
        \/ Services!AnalyzeFilesystem(t)
        \/ \E kind : Services!Serve(t, kind)
        \/ \E kind \in {"file_recovery", "metadata_recovery", "carving"} :
              Services!WithToken(t, kind)
  <2>1. CASE Services!Tick
    BY <2>1, WorkersAreThreads
  <2>2. CASE ~Services!Tick
    BY <2>2, Zenon DEF Services!ServicesNext, Threads, Services!ServiceAnalyzeFilesystem,
       Services!ServiceRecoverFiles, Services!ServiceRecoverMetadata, Services!ServiceCarveFiles,
       Services!RecoverFiles, Services!RecoverMetadata, Services!CarveFiles
  <2>3. QED
    BY <2>1, <2>2
<1>5. QED
  BY <1>1, <1>2, <1>3, <1>4, Zenon

LEMMA GotoMoves ==
    ASSUME Shapes, NEW t \in Threads, NEW where, Services!Goto(t, where)
    PROVE  /\ DOMAIN pc' = Threads
           /\ pc'[t] = where
           /\ \A u \in Threads \ {t} : pc'[u] = pc[u]
  BY DEF Shapes, Services!Goto

(* A step that leaves the tokens alone, and the id and the hold of every   *)
(* call, keeps them held.                                                  *)
LEMMA HeldKept ==
    ASSUME Held, UNCHANGED <<tokens, raced>>, Shapes',
           \A t \in Workers : pc[t] \in Holding =>
               pc'[t] \in Holding /\ call'[t].id = call[t].id
    PROVE  Held'
  BY DEF Held, TokensAreHeld

(* So does a thread that moves on inside its call.                         *)
LEMMA HeldMoving ==
    ASSUME Held, UNCHANGED <<tokens, raced>>, NEW t \in Threads, NEW where,
           Services!Goto(t, where), where # "register",
           t \in Workers => where \in Holding,
           DOMAIN call' = Threads, \A u \in Threads : call'[u].id = call[u].id
    PROVE  Held'
<1>1. /\ DOMAIN pc' = Threads /\ pc'[t] = where
      /\ \A u \in Threads \ {t} : pc'[u] = pc[u]
  BY GotoMoves DEF Held
<1>2. Shapes'
  BY <1>1, WorkersAreThreads DEF Held, Shapes
<1>3. QED
  BY <1>1, <1>2, WorkersAreThreads, HeldKept

(* A thread registers its token before its call goes on.                   *)
LEMMA HeldRegister ==
    ASSUME Held, NEW t \in Threads, Services!Register(t)
    PROVE  Held'
<1>1. Services!Goto(t, "range") /\ UNCHANGED call
  BY DEF Services!Register
<1>2. Shapes /\ t \in Workers
  BY WorkersAreThreads DEF Held, Shapes, Services!Register
<1>3. /\ DOMAIN pc' = Threads /\ pc'[t] = "range"
      /\ \A u \in Threads \ {t} : pc'[u] = pc[u]
  BY <1>1, <1>2, GotoMoves
<1>4. Shapes'
  BY <1>1, <1>2, <1>3, WorkersAreThreads DEF Shapes
<1>5. ASSUME ~raced', NEW id \in tokens'
      PROVE  \E u \in Workers : pc'[u] \in Holding /\ call'[u].id = id
  <2>1. ~raced /\ (tokens' = tokens \cup {call[t].id} \/ tokens' = tokens)
    BY <1>5 DEF Services!Register, Services!ChangeMap
  <2>2. CASE id = call[t].id
    BY <2>2, <1>1, <1>2, <1>3 DEF Holding
  <2>3. CASE id \in tokens
    <3>1. PICK u \in Workers : pc[u] \in Holding /\ call[u].id = id
      BY <2>1, <2>3 DEF Held, TokensAreHeld
    <3>2. pc'[u] \in Holding /\ call'[u].id = id
      BY <3>1, <1>1, <1>3, WorkersAreThreads DEF Holding
    <3>3. QED
      BY <3>2
  <2>4. QED
    BY <2>1, <2>2, <2>3
<1>6. QED
  BY <1>4, <1>5 DEF Held, TokensAreHeld

(* A call that goes erases its token first, and no other call's.           *)
LEMMA HeldErase ==
    ASSUME Held, NEW t \in Threads, Services!Erase(t)
    PROVE  Held'
<1>1. Services!Goto(t, "return") /\ UNCHANGED call
  BY DEF Services!Erase
<1>2. /\ DOMAIN pc' = Threads /\ pc'[t] = "return"
      /\ \A u \in Threads \ {t} : pc'[u] = pc[u]
  BY <1>1, GotoMoves DEF Held
<1>3. Shapes'
  BY <1>1, <1>2, WorkersAreThreads DEF Held, Shapes
<1>4. ASSUME ~raced', NEW id \in tokens'
      PROVE  \E u \in Workers : pc'[u] \in Holding /\ call'[u].id = id
  <2>1. ~raced /\ id \in tokens /\ id # call[t].id
    BY <1>4 DEF Services!Erase, Services!ChangeMap
  <2>2. PICK u \in Workers : pc[u] \in Holding /\ call[u].id = id
    BY <2>1 DEF Held, TokensAreHeld
  <2>3. u # t
    BY <2>1, <2>2
  <2>4. QED
    BY <1>1, <1>2, <2>2, <2>3, WorkersAreThreads
<1>5. QED
  BY <1>3, <1>4 DEF Held, TokensAreHeld

LEMMA AtPointerKeepsId ==
    ASSUME DOMAIN call = Threads, NEW t \in Threads, NEW i,
           call' = [call EXCEPT ![t] = Services!AtPointer(call[t], i)]
    PROVE  DOMAIN call' = Threads /\ \A u \in Threads : call'[u].id = call[u].id
<1>1. Services!AtPointer(call[t], i).id = call[t].id
  BY DEF Services!AtPointer
<1>2. DOMAIN call' = Threads /\ \A u \in Threads :
          call'[u] = IF u = t THEN Services!AtPointer(call[t], i) ELSE call[u]
  OBVIOUS
<1>3. QED
  BY <1>1, <1>2

LEMMA HeldStep ==
    ASSUME Held, NEW t \in Threads, ThreadStep(t)
    PROVE  Held'
<1>a. DOMAIN call = Threads
  BY DEF Held, Shapes
<1>1. CASE Services!Register(t)
  BY <1>1, HeldRegister
<1>2. CASE Services!CheckRange(t)
  <2>1. UNCHANGED <<tokens, raced, call>>
    BY <1>2 DEF Services!CheckRange
  <2>2. \/ Services!Goto(t, "check")
        \/ t = Main /\ Services!Goto(t, "convert")
        \/ Services!Goto(t, "erase")
    BY <1>2 DEF Services!CheckRange, Services!Leave
  <2>3. CASE Services!Goto(t, "check")
    BY <1>a, <2>1, <2>3, HeldMoving DEF Holding
  <2>4. CASE t = Main /\ Services!Goto(t, "convert")
    BY <1>a, <2>1, <2>4, HeldMoving, WorkersAreThreads
  <2>5. CASE Services!Goto(t, "erase")
    BY <1>a, <2>1, <2>5, HeldMoving DEF Holding
  <2>6. QED
    BY <2>2, <2>3, <2>4, <2>5
<1>3. CASE Services!CheckPointers(t)
  <2>1. UNCHANGED <<tokens, raced>>
    BY <1>3 DEF Services!CheckPointers
  <2>2. \E i : call' = [call EXCEPT ![t] = Services!AtPointer(call[t], i)]
    BY <1>3, Zenon DEF Services!CheckPointers
  <2>3. DOMAIN call' = Threads /\ \A u \in Threads : call'[u].id = call[u].id
    BY <1>a, <2>2, AtPointerKeepsId
  <2>4. Services!Goto(t, "make") \/ Services!Goto(t, "run")
    BY <1>3 DEF Services!CheckPointers
  <2>5. QED
    BY <2>1, <2>3, <2>4, HeldMoving DEF Holding
<1>4. CASE Services!MakeComponent(t)
  <2>1. UNCHANGED <<tokens, raced, call>> /\ Services!Goto(t, "check")
    BY <1>4 DEF Services!MakeComponent
  <2>2. QED
    BY <1>a, <2>1, HeldMoving DEF Holding
<1>5. CASE Services!RunEngine(t)
  <2>1. UNCHANGED <<tokens, raced, call>> /\ Services!Leave(t)
    BY <1>5 DEF Services!RunEngine
  <2>2. CASE t = Main
    BY <1>a, <2>1, <2>2, HeldMoving, WorkersAreThreads DEF Services!Leave
  <2>3. CASE t # Main
    BY <1>a, <2>1, <2>3, HeldMoving DEF Services!Leave, Holding
  <2>4. QED
    BY <2>2, <2>3
<1>6. CASE Services!Erase(t)
  BY <1>6, HeldErase
<1>9. CASE Services!Convert(t)
  <2>1. /\ UNCHANGED <<tokens, raced, call>> /\ Services!Goto(t, "return") /\ pc[t] = "convert"
    BY <1>9 DEF Services!Convert
  <2>2. /\ DOMAIN pc' = Threads /\ pc'[t] = "return"
        /\ \A u \in Threads \ {t} : pc'[u] = pc[u]
    BY <2>1, GotoMoves DEF Held
  <2>3. Shapes'
    BY <2>1, <2>2, WorkersAreThreads DEF Held, Shapes
  <2>4. QED
    BY <2>1, <2>2, <2>3, HeldKept, WorkersAreThreads DEF Holding
<1>7. CASE Services!Return(t)
  <2>1. /\ UNCHANGED <<tokens, raced>> /\ Services!Goto(t, "idle") /\ pc[t] = "return"
        /\ call' = [call EXCEPT ![t] = Services!NoOp]
    BY <1>7 DEF Services!Return
  <2>2. /\ DOMAIN pc' = Threads /\ pc'[t] = "idle"
        /\ \A u \in Threads \ {t} : pc'[u] = pc[u]
    BY <2>1, GotoMoves DEF Held
  <2>3. DOMAIN call' = Threads /\ \A u \in Threads \ {t} : call'[u] = call[u]
    BY <1>a, <2>1
  <2>4. Shapes'
    BY <2>2, <2>3, WorkersAreThreads DEF Held, Shapes
  <2>5. QED
    BY <2>1, <2>2, <2>3, <2>4, HeldKept, WorkersAreThreads DEF Holding
<1>8. QED
  BY <1>1, <1>2, <1>3, <1>4, <1>5, <1>6, <1>7, <1>9 DEF ThreadStep

LEMMA HeldCall ==
    ASSUME Held, NEW t \in Threads, NEW kind, NEW range, NEW token,
           Services!Call(t, kind, range, token)
    PROVE  Held'
<1>a. DOMAIN call = Threads /\ pc[t] = "idle" /\ UNCHANGED <<tokens, raced>>
  BY DEF Held, Shapes, Services!Call
<1>1. CASE UNCHANGED <<pc, call>>
  BY <1>1, <1>a DEF Held, Shapes, TokensAreHeld
<1>2. CASE ~UNCHANGED <<pc, call>>
  <2>1. /\ Services!Goto(t, IF t = Main THEN "range" ELSE "register")
        /\ \E c : call' = [call EXCEPT ![t] = c]
    BY <1>2, Zenon DEF Services!Call
  <2>2. /\ DOMAIN pc' = Threads
        /\ pc'[t] = IF t = Main THEN "range" ELSE "register"
        /\ \A u \in Threads \ {t} : pc'[u] = pc[u]
    BY <2>1, GotoMoves DEF Held
  <2>3. DOMAIN call' = Threads /\ \A u \in Threads \ {t} : call'[u] = call[u]
    BY <1>a, <2>1
  <2>4. Shapes'
    BY <2>2, <2>3, WorkersAreThreads DEF Held, Shapes
  <2>5. QED
    BY <1>a, <2>2, <2>3, <2>4, HeldKept, WorkersAreThreads DEF Holding
<1>3. QED
  BY <1>1, <1>2

LEMMA HeldAlways == Spec => []Held
<1>1. Init => Held
  BY WorkersAreThreads DEF Init, Services!ServicesInit, Held, Shapes, TokensAreHeld, Threads
<1>2. ASSUME Held, [Next]_vars
      PROVE  Held'
  <2>1. CASE UNCHANGED serviceVars
    BY <1>2, <2>1 DEF serviceVars, Held, Shapes, TokensAreHeld
  <2>2. CASE Services!ServicesNext
    <3>1. ASSUME NEW t \in Threads, ThreadStep(t)
          PROVE  Held'
      BY <1>2, <3>1, HeldStep
    <3>2. ASSUME NEW t \in Threads, NEW kind, NEW range, NEW token,
                 Services!Call(t, kind, range, token)
          PROVE  Held'
      BY <1>2, <3>2, HeldCall
    <3>3. CASE Services!Tick
      BY <1>2, <3>3 DEF Services!Tick, Held, Shapes, TokensAreHeld
    <3>4. QED
      BY <2>2, <3>1, <3>2, <3>3, ServicesSteps DEF ThreadCall
  <2>3. QED
    BY <1>2, <2>1, <2>2 DEF Next, vars
<1>3. QED
  BY <1>1, <1>2, PTL DEF Spec

(* Every token of the GUI's map belongs to a recovery under way, for any   *)
(* number of workers and calls, as long as no two threads changed the map  *)
(* at once: no call leaves its token behind, however it ends, and none     *)
(* takes the token of another (GUIRecoveryService.cpp:156-172).            *)
THEOREM TokensAlwaysOfLiveOps == Spec => []TokensAreOfLiveOps
<1>1. Held => TokensAreOfLiveOps
  BY DEF Held, TokensAreHeld, Holding, TokensAreOfLiveOps, Services!TokensAreOfLiveOps
<1>2. QED
  BY <1>1, HeldAlways, PTL

-----------------------------------------------------------------------------
(* Types of the threads.                                                   *)

Places == {"idle", "register", "range", "check", "make", "run", "convert", "erase", "return"}

(* A thread whose engine is gone is inside a call that runs it.            *)
ThreadsTyped ==
    /\ DOMAIN pc = Threads /\ DOMAIN call = Threads /\ DOMAIN dangling = Threads
    /\ \A t \in Threads : pc[t] \in Places /\ call[t].at \in 0..4
    /\ \A t \in Threads : dangling[t] => pc[t] = "run" /\ call[t].kind \in engines

(* A thread moves on, and may write its own call and mark only.            *)
LEMMA ThreadMoves ==
    ASSUME ThreadsTyped, NEW t \in Threads, NEW where \in Places, Services!Goto(t, where),
           pc[t] # "run" \/ ~dangling'[t], engines' = engines,
           NEW c, c.at \in 0..4, call' = call \/ call' = [call EXCEPT ![t] = c],
           dangling' = dangling \/ dangling' = [dangling EXCEPT ![t] = FALSE]
    PROVE  ThreadsTyped'
<1>1. /\ DOMAIN pc' = Threads /\ pc'[t] = where
      /\ \A u \in Threads \ {t} : pc'[u] = pc[u]
  BY DEF ThreadsTyped, Services!Goto
<1>2. /\ DOMAIN call' = Threads /\ call'[t].at \in 0..4
      /\ \A u \in Threads \ {t} : call'[u] = call[u]
  <2>1. CASE call' = call
    BY <2>1 DEF ThreadsTyped
  <2>2. CASE call' = [call EXCEPT ![t] = c]
    BY <2>2 DEF ThreadsTyped
  <2>3. QED
    BY <2>1, <2>2
<1>3. /\ DOMAIN dangling' = Threads
      /\ \A u \in Threads \ {t} : dangling'[u] = dangling[u]
  BY DEF ThreadsTyped
<1>4. ~dangling'[t]
  <2>1. CASE dangling' = dangling
    BY <2>1, Zenon DEF ThreadsTyped
  <2>2. CASE dangling' = [dangling EXCEPT ![t] = FALSE]
    BY <2>2 DEF ThreadsTyped
  <2>3. QED
    BY <2>1, <2>2
<1>5. ASSUME NEW u \in Threads \ {t}
      PROVE  /\ pc'[u] \in Places /\ call'[u].at \in 0..4
             /\ dangling'[u] => pc'[u] = "run" /\ call'[u].kind \in engines'
  <2>1. pc'[u] = pc[u] /\ call'[u] = call[u] /\ dangling'[u] = dangling[u] /\ u \in Threads
    BY <1>1, <1>2, <1>3
  <2>2. QED
    BY <2>1, Zenon DEF ThreadsTyped
<1>6. QED
  BY <1>1, <1>2, <1>3, <1>4, <1>5, Zenon DEF ThreadsTyped

(* A move that writes nothing but the place.                               *)
LEMMA ThreadGoes ==
    ASSUME ThreadsTyped, NEW t \in Threads, NEW where \in Places, Services!Goto(t, where),
           pc[t] # "run", UNCHANGED <<engines, call, dangling>>
    PROVE  ThreadsTyped'
<1>1. call[t].at \in 0..4
  BY DEF ThreadsTyped
<1>2. QED
  BY <1>1, ThreadMoves

LEMMA TypedStep ==
    ASSUME ThreadsTyped, NEW t \in Threads, ThreadStep(t)
    PROVE  ThreadsTyped'
<1>1. /\ DOMAIN call = Threads /\ DOMAIN dangling = Threads /\ call[t].at \in 0..4
      /\ dangling[t] => pc[t] = "run"
  BY DEF ThreadsTyped
<1>3. CASE Services!Register(t)
  <2>1. Services!Goto(t, "range") /\ UNCHANGED <<engines, call, dangling>> /\ pc[t] = "register"
    BY <1>3, Zenon DEF Services!Register
  <2>2. QED
    BY <2>1, ThreadGoes DEF Places
<1>4. CASE Services!CheckRange(t)
  <2>1. UNCHANGED <<engines, call, dangling>> /\ pc[t] = "range"
    BY <1>4, Zenon DEF Services!CheckRange
  <2>2. Services!Goto(t, "check") \/ Services!Goto(t, "convert") \/ Services!Goto(t, "erase")
    BY <1>4 DEF Services!CheckRange, Services!Leave
  <2>3. QED
    BY <2>1, <2>2, ThreadGoes DEF Places
<1>5. CASE Services!CheckPointers(t)
  <2> DEFINE empty == {i \in call[t].at..4 : Services!Components[i] \notin engines}
             first == CHOOSE i \in empty : \A j \in empty : i <= j
  <2>1. Len(Services!Components) = 4
    BY DEF Services!Components
  <2>2. empty # {} => first \in 0..4
    <3>1. empty \subseteq 0..4
      BY <1>1
    <3>2. empty # {} => \E i \in empty : \A j \in empty : i <= j
      <4>1. empty \in SUBSET Nat
        BY <3>1
      <4> HIDE DEF empty
      <4>2. QED
        BY <4>1, LeastElement
    <3> HIDE DEF empty
    <3>3. QED
      BY <3>1, <3>2
  <2>3. PICK i \in 0..4 : call' = [call EXCEPT ![t] = Services!AtPointer(call[t], i)]
    <3>1. \/ empty # {} /\ call' = [call EXCEPT ![t] = Services!AtPointer(call[t], first)]
          \/ call' = [call EXCEPT ![t] = Services!AtPointer(call[t], 4)]
      BY <1>5, <2>1 DEF Services!CheckPointers
    <3> HIDE DEF empty, first
    <3>2. QED
      BY <2>2, <3>1
  <2>4. (Services!Goto(t, "make") \/ Services!Goto(t, "run")) /\ pc[t] = "check"
        /\ UNCHANGED <<engines, dangling>>
    BY <1>5, Zenon DEF Services!CheckPointers
  <2>5. Services!AtPointer(call[t], i).at \in 0..4
    BY DEF Services!AtPointer
  <2>6. "make" \in Places /\ "run" \in Places
    BY DEF Places
  <2>7. QED
    BY <2>3, <2>4, <2>5, <2>6, ThreadMoves
<1>6. CASE Services!MakeComponent(t)
  <2> DEFINE made == Services!Components[call[t].at]
  <2>1. /\ engines' = engines \cup {made} /\ Services!Goto(t, "check") /\ pc[t] = "make"
        /\ UNCHANGED call
        /\ dangling' = [u \in Threads |->
               dangling[u] \/ (made \in engines /\ pc[u] = "run" /\ call[u].kind = made)]
    BY <1>6, Zenon DEF Services!MakeComponent, Threads
  <2> HIDE DEF made
  <2>2. /\ DOMAIN pc' = Threads /\ pc'[t] = "check"
        /\ \A u \in Threads \ {t} : pc'[u] = pc[u]
    BY <2>1 DEF ThreadsTyped, Services!Goto
  <2>3. \A u \in Threads :
            dangling'[u] <=> dangling[u] \/ (made \in engines /\ pc[u] = "run" /\ call[u].kind = made)
    BY <2>1
  <2>4. ~dangling'[t]
    BY <1>1, <2>1, <2>3
  <2>5. ASSUME NEW u \in Threads \ {t}, dangling'[u]
        PROVE  pc'[u] = "run" /\ call'[u].kind \in engines'
    <3>1. pc[u] = "run" /\ call[u].kind \in engines'
      BY <2>1, <2>3, <2>5 DEF ThreadsTyped
    <3>2. QED
      BY <2>1, <2>2, <3>1
  <2>6. DOMAIN dangling' = Threads
    BY <2>1
  <2>7. \A u \in Threads : pc'[u] \in Places /\ call'[u].at \in 0..4
    BY <2>1, <2>2 DEF ThreadsTyped, Places
  <2>8. QED
    BY <1>1, <2>1, <2>2, <2>4, <2>5, <2>6, <2>7, Zenon DEF ThreadsTyped
<1>7. CASE Services!RunEngine(t)
  <2>1. /\ UNCHANGED <<engines, call>> /\ dangling' = [dangling EXCEPT ![t] = FALSE]
        /\ Services!Leave(t)
    BY <1>7, Zenon DEF Services!RunEngine
  <2>2. Services!Goto(t, "convert") \/ Services!Goto(t, "erase")
    BY <2>1 DEF Services!Leave
  <2>3. ~dangling'[t]
    BY <1>1, <2>1
  <2>4. "convert" \in Places /\ "erase" \in Places
    BY DEF Places
  <2>5. QED
    BY <1>1, <2>1, <2>2, <2>3, <2>4, ThreadMoves
<1>8. CASE Services!Erase(t)
  <2>1. Services!Goto(t, "return") /\ UNCHANGED <<engines, call, dangling>> /\ pc[t] = "erase"
    BY <1>8, Zenon DEF Services!Erase
  <2>2. QED
    BY <2>1, ThreadGoes DEF Places
<1>11. CASE Services!Convert(t)
  <2>1. Services!Goto(t, "return") /\ UNCHANGED <<engines, call, dangling>> /\ pc[t] = "convert"
    BY <1>11, Zenon DEF Services!Convert
  <2>2. QED
    BY <2>1, ThreadGoes DEF Places
<1>9. CASE Services!Return(t)
  <2>1. /\ Services!Goto(t, "idle") /\ UNCHANGED <<engines, dangling>> /\ pc[t] = "return"
        /\ call' = [call EXCEPT ![t] = Services!NoOp]
    BY <1>9, Zenon DEF Services!Return
  <2>2. Services!NoOp.at \in 0..4
    BY DEF Services!NoOp
  <2>3. QED
    BY <2>1, <2>2, ThreadMoves DEF Places
<1>10. QED
  BY <1>3, <1>4, <1>5, <1>6, <1>7, <1>8, <1>9, <1>11, Zenon DEF ThreadStep

LEMMA TypedCall ==
    ASSUME ThreadsTyped, NEW t \in Threads, NEW kind, NEW range, NEW token,
           Services!Call(t, kind, range, token)
    PROVE  ThreadsTyped'
<1>1. /\ DOMAIN call = Threads /\ DOMAIN dangling = Threads
      /\ dangling[t] => pc[t] = "run"
  BY DEF ThreadsTyped
<1>2. pc[t] = "idle" /\ UNCHANGED <<engines, dangling>>
  BY Zenon DEF Services!Call
<1>3. CASE UNCHANGED <<pc, call>>
  BY <1>2, <1>3 DEF ThreadsTyped
<1>4. CASE ~UNCHANGED <<pc, call>>
  <2>1. /\ Services!Goto(t, IF t = Main THEN "range" ELSE "register")
        /\ call' = [call EXCEPT ![t] = [kind |-> kind, range |-> range, id |-> <<kind, millis>>,
                                        token |-> token, at |-> 1]]
    BY <1>4, Zenon DEF Services!Call
  <2>2. Services!Goto(t, "range") \/ Services!Goto(t, "register")
    BY <2>1
  <2>3. [kind |-> kind, range |-> range, id |-> <<kind, millis>>, token |-> token, at |-> 1].at \in 0..4
    OBVIOUS
  <2>4. "range" \in Places /\ "register" \in Places
    BY DEF Places
  <2>5. QED
    BY <1>2, <2>1, <2>2, <2>3, <2>4, ThreadMoves
<1>5. QED
  BY <1>3, <1>4

LEMMA ThreadsTypedNext ==
    ASSUME ThreadsTyped, [Next]_vars
    PROVE  ThreadsTyped'
<1>1. CASE UNCHANGED serviceVars
  BY <1>1 DEF serviceVars, ThreadsTyped
<1>2. CASE Services!ServicesNext
  <2>1. CASE Services!Tick
    BY <2>1 DEF Services!Tick, ThreadsTyped
  <2>2. QED
    BY <1>2, <2>1, ServicesSteps, TypedStep, TypedCall, Zenon DEF ThreadCall
<1>3. QED
  BY <1>1, <1>2 DEF Next, vars

-----------------------------------------------------------------------------
(* The command line.                                                       *)

(* A range inside the disk, without wrapping: what both tests come to.     *)
Inside(start, num) == start < Total /\ start + num <= Total /\ start + num < UInt64

Validated ==
    validated.cap = "NONE" \/
    /\ validated.start \in Sectors /\ validated.num \in Sectors
    /\ validated.passed <=> Inside(validated.start, validated.num)

Recovered ==
    recovered.cap = "NONE" \/
    /\ recovered.start \in Sectors /\ recovered.num \in Sectors
    /\ recovered.error # "Invalid sector range"
           <=> recovered.num # 0 /\ Inside(recovered.start, recovered.num)

Recorded == counter \in Nat /\ DOMAIN rows = 1..counter

LEMMA ParsedIsSector ==
    ASSUME NEW n \in Int
    PROVE  CLI!ParseUint64(n) \in Sectors
  BY ClientsAssumption DEF CLI!ParseUint64, Sectors

(* The 64-bit sum of start and number wraps below start, or not at all.    *)
LEMMA WrappedSum ==
    ASSUME NEW s \in Sectors, NEW n \in Sectors
    PROVE  (s + n) % UInt64 = IF s + n < UInt64 THEN s + n ELSE s + n - UInt64
<1>1. UInt64 \in Nat \ {0} /\ s \in Nat /\ n \in Nat /\ s < UInt64 /\ n < UInt64
  BY ClientsAssumption DEF Sectors
<1>2. CASE s + n < UInt64
  BY <1>1, <1>2
<1>3. CASE s + n >= UInt64
  <2>1. s + n - UInt64 \in 0..(UInt64 - 1)
    BY <1>1, <1>3
  <2>2. QED
    BY <1>1, <1>3, <2>1
<1>4. QED
  BY <1>1, <1>2, <1>3

LEMMA RangeTest ==
    ASSUME NEW s \in Sectors, NEW n \in Sectors
    PROVE  CLI!IsSectorRangeValid(s, n) <=> n # 0 /\ Inside(s, n)
  BY ClientsAssumption DEF CLI!IsSectorRangeValid, Inside, Sectors

LEMMA VerdictOf ==
    ASSUME NEW cap \in CLI!Recoveries, NEW failing
    PROVE  CLI!ValidationPassed(CLI!ValidateOperation(CLI!Recoveries, {cap}, failing))
               <=> failing = {}
  BY DEF CLI!ValidationPassed, CLI!ValidateOperation, CLI!IsCapabilitySupported,
         CLI!IsCapabilityRegistered

LEMMA ValidatedStep ==
    ASSUME NEW cap \in CLI!Recoveries, NEW start \in Int, NEW num \in Int,
           CLI!HandleValidate(cap, start, num)
    PROVE  Validated'
<1> DEFINE s == CLI!ParseUint64(start)
           n == CLI!ParseUint64(num)
           e == (s + n) % UInt64
           failing == (IF s < Total /\ e <= Total THEN {} ELSE {"INVALID_SOURCE_RANGES"})
                      \cup (IF e >= s THEN {} ELSE {"ARITHMETIC_OVERFLOW_RISK"})
<1>1. s \in Sectors /\ n \in Sectors
  BY ParsedIsSector
<1>2. validated' = [cap |-> cap, start |-> s, num |-> n,
          passed |-> CLI!ValidationPassed(CLI!ValidateOperation(CLI!Recoveries, {cap}, failing))]
  BY Zenon DEF CLI!HandleValidate
<1>3. validated'.start = s /\ validated'.num = n /\ (validated'.passed <=> failing = {})
  <2> HIDE DEF s, n, failing
  <2>1. QED
    BY <1>2, VerdictOf
<1>4. failing = {} <=> s < Total /\ e <= Total /\ e >= s
  OBVIOUS
<1>5. e = IF s + n < UInt64 THEN s + n ELSE s + n - UInt64
  BY <1>1, WrappedSum
<1>6. failing = {} <=> Inside(s, n)
  <2> HIDE DEF s, n, failing, e
  <2>1. QED
    BY <1>1, <1>4, <1>5, ClientsAssumption DEF Inside, Sectors
<1>7. QED
  <2> HIDE DEF s, n, failing
  <2>1. QED
    BY <1>1, <1>3, <1>6 DEF Validated

LEMMA ErrorOf ==
    ASSUME NEW s \in Sectors, NEW n \in Sectors
    PROVE  CLI!ServiceError(s, n) # "Invalid sector range" <=> n # 0 /\ Inside(s, n)
  BY RangeTest DEF CLI!ServiceError

LEMMA RecoveredStep ==
    ASSUME NEW cap, NEW start \in Int, NEW num \in Int,
           recovered' = [cap |-> cap,
                         start |-> CLI!ParseUint64(start), num |-> CLI!ParseUint64(num),
                         error |-> CLI!ServiceError(CLI!ParseUint64(start), CLI!ParseUint64(num))]
    PROVE  Recovered'
<1> DEFINE s == CLI!ParseUint64(start)
           n == CLI!ParseUint64(num)
           error == CLI!ServiceError(s, n)
<1>1. s \in Sectors /\ n \in Sectors
  BY ParsedIsSector
<1>2. error # "Invalid sector range" <=> n # 0 /\ Inside(s, n)
  BY <1>1, ErrorOf
<1>3. recovered' = [cap |-> cap, start |-> s, num |-> n, error |-> error]
  OBVIOUS
<1>4. QED
  <2> HIDE DEF s, n, error
  <2>1. recovered'.start = s /\ recovered'.num = n /\ recovered'.error = error
    BY ONLY <1>3, Zenon
  <2>2. recovered'.start \in Sectors /\ recovered'.num \in Sectors
    BY ONLY <1>1, <2>1
  <2>3. recovered'.error # "Invalid sector range"
            <=> recovered'.num # 0 /\ Inside(recovered'.start, recovered'.num)
    BY ONLY <1>2, <2>1, Zenon
  <2>4. QED
    BY <2>2, <2>3, Zenon DEF Recovered

(* A recovery that is carried out adds a record, under a fresh number.     *)
LEMMA RecoverRecords ==
    ASSUME Recorded, NEW cap, NEW start, NEW num, NEW confirmed,
           CLI!HandleRecover(cap, start, num, confirmed)
    PROVE  Recorded' /\ \A id \in DOMAIN rows : id \in DOMAIN rows' /\ rows'[id] = rows[id]
<1>1. CASE UNCHANGED <<rows, counter>>
  BY <1>1 DEF Recorded
<1>2. CASE ~UNCHANGED <<rows, counter>>
  <2>1. /\ counter' = counter + 1
        /\ \E new : rows' = [id \in DOMAIN rows \cup {counter + 1} |->
                                IF id = counter + 1 THEN new ELSE rows[id]]
    BY <1>2, Zenon DEF CLI!HandleRecover, CLI!GenerateOperationId
  <2>2. /\ DOMAIN rows' = DOMAIN rows \cup {counter + 1}
        /\ \A id \in DOMAIN rows : id # counter + 1 => rows'[id] = rows[id]
    BY <2>1
  <2>3. QED
    BY <2>1, <2>2 DEF Recorded
<1>3. QED
  BY <1>1, <1>2

(* A cancellation touches no record of an operation that ended.            *)
LEMMA CancelRecords ==
    ASSUME Recorded, NEW number, CLI!HandleCancel(number)
    PROVE  /\ Recorded'
           /\ \A id \in DOMAIN rows : rows[id].status \in CLI!Finished =>
                  id \in DOMAIN rows' /\ rows'[id] = rows[id]
<1>1. UNCHANGED counter
  BY DEF CLI!HandleCancel
<1>2. CASE UNCHANGED rows
  BY <1>1, <1>2 DEF Recorded
<1>3. CASE ~UNCHANGED rows
  <2>1. /\ rows[number].status \notin CLI!Finished
        /\ \E row : rows' = [rows EXCEPT ![number] = row]
    BY <1>3, Zenon DEF CLI!HandleCancel
  <2>2. DOMAIN rows' = DOMAIN rows /\ \A id \in DOMAIN rows \ {number} : rows'[id] = rows[id]
    BY <2>1
  <2>3. QED
    BY <1>1, <2>1, <2>2 DEF Recorded
<1>4. QED
  BY <1>2, <1>3

(* What the commands keep: the last verdicts, and the records.             *)
CLIKept ==
    /\ Recorded'
    /\ Validated'
    /\ Recovered'
    /\ \A id \in DOMAIN rows : rows[id].status \in CLI!Finished =>
           id \in DOMAIN rows' /\ rows'[id] = rows[id]

LEMMA CommandStep ==
    ASSUME Recorded, Validated, Recovered, CLI!CLINext
    PROVE  CLIKept
<1>a. ASSUME UNCHANGED <<rows, counter>>
      PROVE  /\ Recorded'
             /\ \A id \in DOMAIN rows : rows[id].status \in CLI!Finished =>
                    id \in DOMAIN rows' /\ rows'[id] = rows[id]
  BY <1>a DEF Recorded
<1>b. UNCHANGED validated => Validated'
  BY DEF Validated
<1>c. UNCHANGED recovered => Recovered'
  BY DEF Recovered
<1>1. ASSUME NEW start \in Int, NEW num \in Int, CLI!HandleAnalyze(start, num)
      PROVE  CLIKept
  <2>1. UNCHANGED <<rows, counter, validated>>
    BY <1>1 DEF CLI!HandleAnalyze
  <2>2. Recovered'
    BY <1>1, RecoveredStep DEF CLI!HandleAnalyze
  <2>3. QED
    BY <1>a, <1>b, <2>1, <2>2 DEF CLIKept
<1>2. ASSUME NEW cap \in CLI!Recoveries, NEW start \in Int, NEW num \in Int,
             CLI!HandleValidate(cap, start, num)
      PROVE  CLIKept
  <2>1. UNCHANGED <<rows, counter, recovered>>
    BY <1>2 DEF CLI!HandleValidate
  <2>2. Validated'
    BY <1>2, ValidatedStep
  <2>3. QED
    BY <1>a, <1>c, <2>1, <2>2 DEF CLIKept
<1>3. ASSUME NEW cap, NEW start \in Int, NEW num \in Int, NEW confirmed,
             CLI!HandleRecover(cap, start, num, confirmed)
      PROVE  CLIKept
  <2>1. UNCHANGED validated
    BY <1>3 DEF CLI!HandleRecover
  <2>2. Recovered'
    <3>1. CASE UNCHANGED recovered
      BY <3>1, <1>c
    <3>2. CASE ~UNCHANGED recovered
      <4>1. recovered' = [cap |-> cap,
                start |-> CLI!ParseUint64(start), num |-> CLI!ParseUint64(num),
                error |-> CLI!ServiceError(CLI!ParseUint64(start), CLI!ParseUint64(num))]
        BY <1>3, <3>2, Zenon DEF CLI!HandleRecover
      <4>2. QED
        BY <4>1, RecoveredStep
    <3>3. QED
      BY <3>1, <3>2
  <2>3. QED
    BY <1>3, <1>b, <2>1, <2>2, RecoverRecords DEF CLIKept
<1>4. ASSUME NEW id, CLI!HandleCancel(id)
      PROVE  CLIKept
  <2>1. UNCHANGED <<validated, recovered>>
    BY <1>4 DEF CLI!HandleCancel
  <2>2. QED
    BY <1>4, <1>b, <1>c, <2>1, CancelRecords DEF CLIKept
<1>5. CASE CLI!HandleStatus \/ CLI!HandleOther \/ CLI!Exit
  <2>1. UNCHANGED <<rows, counter, validated, recovered>>
    BY <1>5 DEF CLI!HandleStatus, CLI!HandleOther, CLI!Exit
  <2>2. QED
    BY <1>a, <1>b, <1>c, <2>1 DEF CLIKept
<1>6. ASSUME NEW typed \in Typed
      PROVE  typed[1] \in Int /\ typed[2] \in Int
  BY <1>6, ClientsAssumption
<1>7. QED
  BY <1>1, <1>2, <1>3, <1>4, <1>5, <1>6 DEF CLI!CLINext

LEMMA ClientsStep ==
    ASSUME Recorded, Validated, Recovered, [Next]_vars
    PROVE  CLIKept
<1>1. CASE UNCHANGED cliVars
  BY <1>1 DEF cliVars, CLIKept, Recorded, Validated, Recovered
<1>2. CASE CLI!CLINext
  BY <1>2, CommandStep
<1>3. QED
  BY <1>1, <1>2 DEF Next, vars

LEMMA VerdictsAlways == Spec => [](Recorded /\ Validated /\ Recovered)
<1>1. Init => Recorded /\ Validated /\ Recovered
  <2>1. ASSUME Init
        PROVE  /\ counter = 0 /\ rows = <<>>
               /\ validated.cap = "NONE" /\ recovered.cap = "NONE"
    BY <2>1 DEF Init, CLI!CLIInit
  <2>2. DOMAIN <<>> = 1..0
    OBVIOUS
  <2>3. Init => Recorded
    BY <2>1, <2>2 DEF Recorded
  <2>4. Init => Validated /\ Recovered
    BY <2>1, Zenon DEF Validated, Recovered
  <2>5. QED
    BY <2>3, <2>4
<1>2. (Recorded /\ Validated /\ Recovered) /\ [Next]_vars
          => (Recorded /\ Validated /\ Recovered)'
  BY ClientsStep DEF CLIKept
<1>3. QED
  BY <1>1, <1>2, PTL DEF Spec

(* validate passes exactly the ranges that recover does not refuse, for    *)
(* every disk size, every pair of numbers typed and however 64-bit sums    *)
(* wrap (CLIHandler.cpp:332-335, RecoveryService.cpp:274-306).             *)
THEOREM ValidateAlwaysAgrees == Spec => []ValidateAgrees
<1>1. Validated /\ Recovered => ValidateAgrees
  BY DEF Validated, Recovered, ValidateAgrees, CLI!ValidateAgrees
<1>2. QED
  BY <1>1, VerdictsAlways, PTL

(* The record of an operation that ended is never cancelled, replaced or   *)
(* dropped by a later command, in sessions of any length                   *)
(* (CLIHandler.cpp:609-616, 829-840).                                      *)
THEOREM FinishedRowsAlwaysStay == Spec => FinishedRowsStay
<1>1. Recorded /\ Validated /\ Recovered /\ [Next]_vars =>
          [\A id \in DOMAIN rows : rows[id].status \in CLI!Finished =>
              id \in DOMAIN rows' /\ rows'[id] = rows[id]]_cliVars
  BY ClientsStep DEF CLIKept
<1>2. QED
  BY <1>1, VerdictsAlways, PTL DEF Spec, FinishedRowsStay, CLI!FinishedRowsStay, cliVars, CLI!cliVars

-----------------------------------------------------------------------------
(* Sectors and bytes.                                                      *)

(* The bytes of a disk can be counted in 64 bits: past that the sector     *)
(* number times the sector size would wrap.                                *)
BytesFit == \A d \in Devices : d.total * d.sectorSize <= UInt64

LEMMA ExactSector ==
    ASSUME NEW u \in Nat \ {0}, NEW size \in Nat \ {0}, NEW total \in Nat, NEW s \in Nat,
           s < total, total * size <= u
    PROVE  ((s * size) % u) \div size = s
<1> DEFINE x == s * size
           y == total * size
<1>1. x \in Nat /\ y \in Nat /\ x + size <= y
  <2>1. s * size \in Nat /\ (s + 1) * size = s * size + 1 * size
        /\ (s + 1) * size <= total * size /\ total * size \in Nat
    BY Products
  <2>2. QED
    BY <2>1
<1>2. y <= u
  OBVIOUS
<1>3. x = s * size + 0
  BY <1>1
<1> HIDE DEF x, y
<1>4. x \in 0 .. u - 1
  BY <1>1, <1>2
<1>5. x % u = x
  BY <1>4, BelowDivisor
<1>6. (s * size + 0) \div size = s
  <2>1. 0 \in 0 .. size - 1
    OBVIOUS
  <2>2. QED
    BY <2>1, Quotient
<1>7. x \div size = s
  BY <1>3, <1>6
<1>8. QED
  BY <1>5, <1>7 DEF x

(* A length whose sectors are counted, in sums that may wrap: if any are   *)
(* counted none wrapped.                                                   *)
LEMMA CountedSectors ==
    ASSUME NEW u \in Nat \ {0}, NEW b \in Nat \ {0}, NEW c \in Nat, b = c + 1,
           NEW size \in 0 .. u - 1, ((size + c) % u) \div b # 0
    PROVE  /\ size > 0
           /\ ((size + c) % u) \div b = (size + b - 1) \div b
<1>1. CASE size + c < u
  <2> DEFINE x == size + c
  <2>1. x \in 0 .. u - 1
    BY <1>1
  <2>2. x = size + b - 1
    OBVIOUS
  <2>3. size = 0 => x \in 0 .. b - 1
    OBVIOUS
  <2> HIDE DEF x
  <2>4. x % u = x
    BY <2>1, BelowDivisor
  <2>5. x \div b # 0
    BY <2>4 DEF x
  <2>6. size # 0
    BY <2>3, <2>5, BelowDivisor
  <2>7. x \div b = (size + b - 1) \div b
    BY <2>2
  <2>8. QED
    BY <2>4, <2>6, <2>7 DEF x
<1>2. CASE ~(size + c < u)
  <2> DEFINE x == (size + c) % u
  <2>1. x \in 0 .. b - 1
    <3>1. size + c \in Nat
      OBVIOUS
    <3>2. x \in 0 .. u - 1
      BY <3>1, Division
    <3>3. CASE c < u
      <4> DEFINE r == size + c - u
      <4>1. r \in 0 .. u - 1 /\ r < c
        BY <1>2, <3>3
      <4>2. 1 * u + r = size + c
        OBVIOUS
      <4> HIDE DEF r
      <4>3. (1 * u + r) % u = r
        BY <4>1, Quotient
      <4>4. x = r
        BY <4>2, <4>3
      <4>5. QED
        BY <3>2, <4>1, <4>4
    <3>4. CASE ~(c < u)
      <4> HIDE DEF x
      <4>1. QED
        BY <3>2, <3>4
    <3>5. QED
      BY <3>3, <3>4
  <2> HIDE DEF x
  <2>2. x \div b = 0
    BY <2>1, BelowDivisor
  <2>3. QED
    BY <2>2 DEF x
<1>3. QED
  BY <1>1, <1>2

(* Larger units are fewer.                                                 *)
LEMMA FewerSectors ==
    ASSUME NEW x \in Nat, NEW b \in Nat \ {0}, NEW c \in Nat \ {0}, c <= b
    PROVE  (x + b - 1) \div b <= (x + c - 1) \div c
<1> DEFINE p == (x + b - 1) \div b
           q == (x + c - 1) \div c
<1>1. q \in Nat /\ x <= q * c
  BY Rounding
<1> HIDE DEF q
<1>2. q * c <= q * b
  BY <1>1
<1>3. q * b \in Nat /\ q * c \in Nat
  BY <1>1, Products
<1>4. x <= q * b
  BY <1>1, <1>2, <1>3
<1>5. p <= q
  BY <1>1, <1>4, Rounding
<1>6. QED
  BY <1>5 DEF q

(* An offset counted in units goes to its own unit.                        *)
LEMMA OffsetUnit ==
    ASSUME NEW s \in Nat, NEW o \in Nat, NEW b \in Nat \ {0}
    PROVE  /\ (s * b + o) \div b = s + o \div b
           /\ (s * b + o) % b = o % b
           /\ o % b = 0 => (s + o \div b) * b = s * b + o
<1> DEFINE k == o \div b
           r == o % b
<1>1. k \in Nat /\ r \in 0 .. b - 1 /\ o = k * b + r
  BY Division
<1> HIDE DEF k, r
<1>2. s * b + o = (s + k) * b + r /\ (r = 0 => (s + k) * b = s * b + o)
  <2>1. (s + k) * b = s * b + k * b /\ s * b \in Nat /\ k * b \in Nat
    BY <1>1, Products
  <2>2. QED
    BY <1>1, <2>1
<1>3. s + k \in Nat
  BY <1>1
<1>4. ((s + k) * b + r) \div b = s + k /\ ((s + k) * b + r) % b = r
  BY <1>1, <1>3, Quotient
<1>5. QED
  BY <1>2, <1>4 DEF k, r

-----------------------------------------------------------------------------
(* The engines: what a sector shows, and the one type four classes see.    *)

SectorOf(d, n, r) == Engines!Sector(d, n, r)
TypeOf(boot, size) == Engines!Detector!DetectFilesystemType(boot, size)
Results == {"true", "false", "throws", "trap"}
NoType == ""
Types == {"FAT", "FAT12", "FAT16", "FAT32", "NTFS", NoType}

LEMMA OneType ==
    ASSUME NEW boot, NEW size
    PROVE  /\ Engines!Analyzer!DetectFilesystemType(boot, size) = TypeOf(boot, size)
           /\ Engines!Metadata!DetectFilesystemType(boot, size) = TypeOf(boot, size)
           /\ Engines!Files!DetectFilesystemType(boot, size) = TypeOf(boot, size)
           /\ Engines!Files!Metadata!DetectFilesystemType(boot, size) = TypeOf(boot, size)
<1>1. Engines!Analyzer!DetectFilesystemType(boot, size) = TypeOf(boot, size)
  BY Zenon DEF TypeOf, Engines!Analyzer!DetectFilesystemType, Engines!Analyzer!FatSize,
     Engines!Detector!DetectFilesystemType, Engines!Detector!FatSize
<1>2. Engines!Metadata!DetectFilesystemType(boot, size) = TypeOf(boot, size)
  BY Zenon DEF TypeOf, Engines!Metadata!DetectFilesystemType, Engines!Metadata!FatSize,
     Engines!Detector!DetectFilesystemType, Engines!Detector!FatSize
<1>3. Engines!Files!DetectFilesystemType(boot, size) = TypeOf(boot, size)
  BY Zenon DEF TypeOf, Engines!Files!DetectFilesystemType, Engines!Files!FatSize,
     Engines!Detector!DetectFilesystemType, Engines!Detector!FatSize
<1>4. Engines!Files!Metadata!DetectFilesystemType(boot, size) = TypeOf(boot, size)
  BY Zenon DEF TypeOf, Engines!Files!Metadata!DetectFilesystemType,
     Engines!Files!Metadata!FatSize, Engines!Detector!DetectFilesystemType,
     Engines!Detector!FatSize
<1>5. QED
  BY <1>1, <1>2, <1>3, <1>4

LEMMA OneSector ==
    ASSUME NEW d, NEW n, NEW r
    PROVE  /\ Engines!Detector!Sector(d, n, r) = SectorOf(d, n, r)
           /\ Engines!Analyzer!Sector(d, n, r) = SectorOf(d, n, r)
           /\ Engines!Metadata!Sector(d, n, r) = SectorOf(d, n, r)
           /\ Engines!Files!Sector(d, n, r) = SectorOf(d, n, r)
           /\ Engines!Files!Metadata!Sector(d, n, r) = SectorOf(d, n, r)
<1>1. Engines!Detector!Sector(d, n, r) = SectorOf(d, n, r)
  BY Zenon DEF SectorOf, Engines!Sector, Engines!NoBoot, Engines!Detector!Sector,
     Engines!Detector!NoBoot
<1>2. Engines!Analyzer!Sector(d, n, r) = SectorOf(d, n, r)
  BY Zenon DEF SectorOf, Engines!Sector, Engines!NoBoot, Engines!Analyzer!Sector,
     Engines!Analyzer!NoBoot
<1>3. Engines!Metadata!Sector(d, n, r) = SectorOf(d, n, r)
  BY Zenon DEF SectorOf, Engines!Sector, Engines!NoBoot, Engines!Metadata!Sector,
     Engines!Metadata!NoBoot
<1>4. Engines!Files!Sector(d, n, r) = SectorOf(d, n, r)
  BY Zenon DEF SectorOf, Engines!Sector, Engines!NoBoot, Engines!Files!Sector,
     Engines!Files!NoBoot
<1>5. Engines!Files!Metadata!Sector(d, n, r) = SectorOf(d, n, r)
  BY Zenon DEF SectorOf, Engines!Sector, Engines!NoBoot, Engines!Files!Metadata!Sector,
     Engines!Files!Metadata!NoBoot
<1>6. QED
  BY <1>1, <1>2, <1>3, <1>4, <1>5

LEMMA NoTypeIsNone == NoType \notin {"FAT", "FAT12", "FAT16", "FAT32", "NTFS"}
  BY Zenon DEF NoType

LEMMA TypesOf ==
    ASSUME NEW boot \in BootSectors, NEW size \in Nat
    PROVE  /\ TypeOf(boot, size) \in Types
           /\ TypeOf(boot, size) # NoType => size >= 512
           /\ TypeOf(boot, size) \in {"FAT12", "FAT16", "FAT32"} =>
                  /\ boot.signature /\ size >= 512
                  /\ boot.bytesPerSector = 512
                  /\ boot.rootEntryCount = 0 => Engines!FatSize(boot) # 0
           /\ TypeOf(boot, size) = "FAT32" <=>
                  TypeOf(boot, size) \in {"FAT12", "FAT16", "FAT32"} /\ boot.rootEntryCount = 0
           /\ TypeOf(boot, size) = "FAT12" =>
                  boot.rootEntryCount # 0 /\ boot.total < 4085
           /\ TypeOf(boot, size) = "FAT16" =>
                  boot.rootEntryCount # 0 /\ ~(boot.total < 4085)
           /\ TypeOf(boot, size) = "NTFS" => size >= 1024 /\ boot.oemNTFS
<1>1. boot.bytesPerSector \in Nat /\ boot.rootEntryCount \in Nat /\ boot.total \in Nat
      /\ boot.signature \in BOOLEAN /\ boot.oemNTFS \in BOOLEAN
  BY DEF BootSectors
<1>2. TypeOf(boot, size) =
        IF size >= 512 /\ boot.signature
        THEN IF boot.bytesPerSector # 512
                  \/ (boot.rootEntryCount = 0 /\ Engines!FatSize(boot) = 0) THEN "FAT"
             ELSE IF boot.rootEntryCount = 0 THEN "FAT32"
             ELSE IF boot.total < 4085 THEN "FAT12" ELSE "FAT16"
        ELSE IF size >= 1024 /\ boot.oemNTFS THEN "NTFS" ELSE NoType
  BY Zenon DEF TypeOf, Engines!Detector!DetectFilesystemType, Engines!Detector!FatSize,
     Engines!FatSize, NoType
<1> DEFINE f == Engines!FatSize(boot)
           s == boot.signature
           o == boot.oemNTFS
           b == boot.bytesPerSector
           n == boot.rootEntryCount
           m == boot.total
           t == TypeOf(boot, size)
<1>3. t = IF size >= 512 /\ s
          THEN IF b # 512 \/ (n = 0 /\ f = 0) THEN "FAT"
               ELSE IF n = 0 THEN "FAT32" ELSE IF m < 4085 THEN "FAT12" ELSE "FAT16"
          ELSE IF size >= 1024 /\ o THEN "NTFS" ELSE NoType
  BY <1>2
<1> HIDE DEF f, s, o, b, n, m, t
<1>4. CASE size >= 512 /\ s /\ (b # 512 \/ (n = 0 /\ f = 0))
  <2>1. t = "FAT"
    BY <1>3, <1>4
  <2>2. t \in Types /\ t \notin {"FAT12", "FAT16", "FAT32", "NTFS"}
    BY <2>1 DEF Types
  <2>3. QED
    BY <1>4, <2>2 DEF t
<1>5. CASE size >= 512 /\ s /\ b = 512 /\ n = 0 /\ f # 0
  <2>1. t = "FAT32"
    BY <1>3, <1>5
  <2>2. QED
    BY <1>5, <2>1 DEF Types, t, f, s, b, n
<1>6. CASE size >= 512 /\ s /\ b = 512 /\ n # 0
  <2>1. t = IF m < 4085 THEN "FAT12" ELSE "FAT16"
    BY <1>3, <1>6
  <2>2. QED
    BY <1>6, <2>1 DEF Types, t, s, b, n, m
<1>7. CASE ~(size >= 512 /\ s)
  <2>1. t = IF size >= 1024 /\ o THEN "NTFS" ELSE NoType
    BY <1>3, <1>7
  <2>2. t \in Types /\ t \notin {"FAT12", "FAT16", "FAT32"}
    BY <2>1, NoTypeIsNone DEF Types
  <2>3. t # NoType => size >= 1024
    BY <2>1
  <2>4. t = "NTFS" => size >= 1024 /\ o
    BY <2>1, NoTypeIsNone
  <2>5. QED
    BY <2>2, <2>3, <2>4 DEF t, o
<1>8. QED
  BY <1>4, <1>5, <1>6, <1>7

LEMMA SectorTyped ==
    ASSUME NEW d \in Devices, NEW n, NEW r
    PROVE  SectorOf(d, n, r) \in BootSectors
<1> DEFINE boot == IF n \in DOMAIN d.boots THEN d.boots[n] ELSE Engines!NoBoot
<1>1. Engines!NoBoot \in BootSectors
  BY DEF Engines!NoBoot, BootSectors
<1>2. boot \in BootSectors
  BY <1>1, EnginesAssumption
<1>3. SectorOf(d, n, r) = [boot EXCEPT !.signature = boot.signature /\ (r = "ok" \/ d.sectorSize \div 2 >= 512)]
  BY Zenon DEF SectorOf, Engines!Sector
<1> HIDE DEF boot
<1>4. (boot.signature /\ (r = "ok" \/ d.sectorSize \div 2 >= 512)) \in BOOLEAN
  OBVIOUS
<1>5. QED
  BY <1>2, <1>3, <1>4 DEF BootSectors

LEMMA HalfKilobyte ==
    ASSUME NEW size \in Nat
    PROVE  size \div 2 >= 512 <=> size >= 1024
<1> DEFINE half == size \div 2
           rest == size % 2
<1>1. half \in Nat /\ rest \in 0 .. 2 - 1 /\ size = half * 2 + rest
  BY Division
<1> HIDE DEF half, rest
<1>2. half >= 512 <=> size >= 1024
  BY <1>1
<1>3. QED
  BY <1>2 DEF half

(* Whatever a read that delivers too little still shows is there.          *)
LEMMA ShortReadShowsTruth ==
    ASSUME NEW d \in Devices, NEW n, NEW r \in {"ok", "short"},
           TypeOf(SectorOf(d, n, r), d.sectorSize) # NoType
    PROVE  /\ TypeOf(SectorOf(d, n, r), d.sectorSize) = TypeOf(SectorOf(d, n, "ok"), d.sectorSize)
           /\ d.sectorSize >= 512
<1> DEFINE boot == IF n \in DOMAIN d.boots THEN d.boots[n] ELSE Engines!NoBoot
           shown == boot.signature /\ (r = "ok" \/ d.sectorSize \div 2 >= 512)
<1>1. d.sectorSize \in Nat
  BY EnginesAssumption
<1>2. boot \in BootSectors
  <2>1. Engines!NoBoot \in BootSectors
    BY DEF Engines!NoBoot, BootSectors
  <2>2. QED
    BY <2>1, EnginesAssumption
<1>3. SectorOf(d, n, r) = [boot EXCEPT !.signature = shown]
  BY Zenon DEF SectorOf, Engines!Sector
<1>4. SectorOf(d, n, r) \in BootSectors
  BY SectorTyped
<1>5. d.sectorSize >= 512
  <2>1. PICK size \in Nat : size = d.sectorSize
    BY <1>1
  <2>2. PICK b \in BootSectors : b = SectorOf(d, n, r)
    BY <1>4
  <2>3. TypeOf(b, size) # NoType
    BY <2>1, <2>2
  <2>4. size >= 512
    BY <2>3, TypesOf
  <2>5. QED
    BY <2>1, <2>4
<1>6. CASE r = "ok"
  BY <1>5, <1>6
<1>7. CASE d.sectorSize \div 2 >= 512
  <2>1. SectorOf(d, n, r) = SectorOf(d, n, "ok")
    <3>1. SectorOf(d, n, "ok") = [boot EXCEPT !.signature =
              boot.signature /\ ("ok" = "ok" \/ d.sectorSize \div 2 >= 512)]
      BY Zenon DEF SectorOf, Engines!Sector
    <3>2. (boot.signature /\ ("ok" = "ok" \/ d.sectorSize \div 2 >= 512)) = shown
      BY <1>7
    <3> HIDE DEF shown, boot
    <3>3. QED
      BY <1>3, <3>1, <3>2
  <2>2. QED
    BY <1>5, <2>1
<1>8. CASE r = "short" /\ ~(d.sectorSize \div 2 >= 512)
  <2>1. ~(d.sectorSize >= 1024) /\ r # "ok"
    BY <1>1, <1>8, HalfKilobyte
  <2>2. ~shown
    BY <1>8, <2>1
  <2> HIDE DEF boot, shown
  <2>3. ~(SectorOf(d, n, r).signature)
    BY <1>2, <1>3, <2>2 DEF BootSectors
  <2>4. TypeOf(SectorOf(d, n, r), d.sectorSize) = NoType
    BY <2>1, <2>3, Zenon DEF TypeOf, Engines!Detector!DetectFilesystemType, NoType
  <2>5. QED
    BY <2>4
<1>9. QED
  BY <1>6, <1>7, <1>8

-----------------------------------------------------------------------------
(* The engines: what each call answers.                                    *)

NoReply == [result |-> "false", reads |-> {}, type |-> NoType, pieces |-> {}, bytes |-> 0]

LEMMA OneReply ==
    /\ Engines!Detector!NoAnswer = NoReply
    /\ Engines!Analyzer!NoAnswer = NoReply
    /\ Engines!Metadata!NoAnswer = NoReply
    /\ Engines!Files!NoAnswer = NoReply
    /\ Engines!Files!Metadata!NoAnswer = NoReply
  BY Zenon DEF NoReply, NoType, Engines!Detector!NoAnswer, Engines!Analyzer!NoAnswer,
     Engines!Metadata!NoAnswer, Engines!Files!NoAnswer, Engines!Files!Metadata!NoAnswer

(* The gate is open when every assurance is given and the capability there.*)
Gate(reg, cap, failing) == failing = {} /\ cap \in reg

LEMMA OneGate ==
    ASSUME NEW reg, NEW cap, NEW failing
    PROVE  /\ Engines!Detector!ValidationPassed(Engines!Detector!ValidateOperation(reg, {cap}, failing))
                <=> Gate(reg, cap, failing)
           /\ Engines!Analyzer!ValidationPassed(Engines!Analyzer!ValidateOperation(reg, {cap}, failing))
                <=> Gate(reg, cap, failing)
           /\ Engines!Metadata!ValidationPassed(Engines!Metadata!ValidateOperation(reg, {cap}, failing))
                <=> Gate(reg, cap, failing)
           /\ Engines!Files!ValidationPassed(Engines!Files!ValidateOperation(reg, {cap}, failing))
                <=> Gate(reg, cap, failing)
           /\ Engines!Files!Metadata!ValidationPassed(Engines!Files!Metadata!ValidateOperation(reg, {cap}, failing))
                <=> Gate(reg, cap, failing)
<1>1. (failing \cup IF reg \cap {cap} # {} THEN {} ELSE {"UNSUPPORTED_CAPABILITY"}) = {}
        <=> Gate(reg, cap, failing)
  BY DEF Gate
<1>2. QED
  BY <1>1, Zenon DEF Engines!Detector!ValidationPassed, Engines!Detector!ValidateOperation,
     Engines!Detector!IsCapabilitySupported, Engines!Detector!IsCapabilityRegistered,
     Engines!Analyzer!ValidationPassed, Engines!Analyzer!ValidateOperation,
     Engines!Analyzer!IsCapabilitySupported, Engines!Analyzer!IsCapabilityRegistered,
     Engines!Metadata!ValidationPassed, Engines!Metadata!ValidateOperation,
     Engines!Metadata!IsCapabilitySupported, Engines!Metadata!IsCapabilityRegistered,
     Engines!Files!ValidationPassed, Engines!Files!ValidateOperation,
     Engines!Files!IsCapabilitySupported, Engines!Files!IsCapabilityRegistered,
     Engines!Files!Metadata!ValidationPassed, Engines!Files!Metadata!ValidateOperation,
     Engines!Files!Metadata!IsCapabilitySupported, Engines!Files!Metadata!IsCapabilityRegistered

Failed(read) == IF read = "throws" THEN "throws" ELSE "false"

LEMMA OneRead ==
    ASSUME NEW read
    PROVE  /\ Engines!Detector!Delivers(read) <=> read \in {"ok", "short"}
           /\ Engines!Analyzer!Delivers(read) <=> read \in {"ok", "short"}
           /\ Engines!Metadata!Delivers(read) <=> read \in {"ok", "short"}
           /\ Engines!Files!Delivers(read) <=> read \in {"ok", "short"}
           /\ Engines!Files!Metadata!Delivers(read) <=> read \in {"ok", "short"}
           /\ Engines!Detector!Failure(read) = Failed(read)
           /\ Engines!Analyzer!Failure(read) = Failed(read)
           /\ Engines!Metadata!Failure(read) = Failed(read)
           /\ Engines!Files!Failure(read) = Failed(read)
           /\ Engines!Files!Metadata!Failure(read) = Failed(read)
  BY Zenon DEF Failed, Engines!Detector!Delivers, Engines!Analyzer!Delivers, Engines!Metadata!Delivers,
     Engines!Files!Delivers, Engines!Files!Metadata!Delivers, Engines!Detector!Failure,
     Engines!Analyzer!Failure, Engines!Metadata!Failure, Engines!Files!Failure,
     Engines!Files!Metadata!Failure

(* What detection is right to say of a sector.                             *)
IsTypeOf(type, d, n) ==
    /\ d.present /\ d.sectorSize >= 512
    /\ type = TypeOf(SectorOf(d, n, "ok"), d.sectorSize)
    /\ type # NoType

LEMMA DetectAnswer ==
    ASSUME NEW d \in Devices, NEW reg, NEW failing, NEW start, NEW num, NEW read,
           NEW a, a = Engines!Detector!DetectFilesystems(d, reg, failing, start, num, read)
    PROVE  a.result \in Results /\ (a.result = "true" => IsTypeOf(a.type, d, start))
<1> DEFINE type == TypeOf(SectorOf(d, start, read), d.sectorSize)
           tried == [NoReply EXCEPT !.reads = {[from |-> start, count |-> 1]}]
<1>1. \/ a = NoReply
      \/ /\ d.present
         /\ read \notin {"ok", "short"}
         /\ a = [tried EXCEPT !.result = Failed(read)]
      \/ /\ d.present
         /\ read \in {"ok", "short"}
         /\ a = [tried EXCEPT !.result = IF type = NoType THEN "false" ELSE "true", !.type = type]
  <2>1. a = IF \/ ~Engines!Detector!ValidationPassed(Engines!Detector!ValidateOperation(reg, {"FILESYSTEM_DETECTION"}, failing))
               \/ ~d.present
               \/ ~Engines!Detector!IsSectorRangeValid(start, num)
               \/ d.sectorSize = 0
            THEN Engines!Detector!NoAnswer
            ELSE IF ~Engines!Detector!Delivers(read)
            THEN [[Engines!Detector!NoAnswer EXCEPT !.reads = {[from |-> start, count |-> 1]}]
                  EXCEPT !.result = Engines!Detector!Failure(read)]
            ELSE [[Engines!Detector!NoAnswer EXCEPT !.reads = {[from |-> start, count |-> 1]}]
                  EXCEPT !.result = IF TypeOf(Engines!Detector!Sector(d, start, read), d.sectorSize) = NoType
                                    THEN "false" ELSE "true",
                         !.type = TypeOf(Engines!Detector!Sector(d, start, read), d.sectorSize)]
    BY Zenon DEF NoType, TypeOf, Engines!Detector!DetectFilesystems
  <2>2. Engines!Detector!NoAnswer = NoReply
    BY OneReply
  <2>3. Engines!Detector!Sector(d, start, read) = SectorOf(d, start, read)
    BY OneSector
  <2>4. Engines!Detector!Delivers(read) <=> read \in {"ok", "short"}
    BY OneRead
  <2>5. Engines!Detector!Failure(read) = Failed(read)
    BY OneRead
  <2>6. QED
    BY <2>1, <2>2, <2>3, <2>4, <2>5, Zenon
<1>2. NoReply.result = "false"
  BY DEF NoReply
<1>3. CASE a = NoReply
  BY <1>2, <1>3 DEF Results
<1>4. ASSUME a = [tried EXCEPT !.result = Failed(read)]
      PROVE  a.result \in {"false", "throws"}
  BY <1>4 DEF NoReply, Failed
<1>5. ASSUME d.present, read \in {"ok", "short"},
             a = [tried EXCEPT !.result = IF type = NoType THEN "false" ELSE "true", !.type = type]
      PROVE  a.result \in Results /\ (a.result = "true" => IsTypeOf(a.type, d, start))
  <2> HIDE DEF type
  <2>1. a.type = type /\ a.result = IF type = NoType THEN "false" ELSE "true"
    BY <1>5 DEF NoReply
  <2>2. type # NoType =>
           type = TypeOf(SectorOf(d, start, "ok"), d.sectorSize) /\ d.sectorSize >= 512
    BY <1>5, ShortReadShowsTruth DEF type
  <2>3. QED
    BY <1>5, <2>1, <2>2 DEF IsTypeOf, Results
<1>6. QED
  BY <1>1, <1>3, <1>4, <1>5 DEF Results

RangeOK(d, s, n) ==
    d.present /\ n # 0 /\ s <= UInt64 - 1 - n /\ s < d.total /\ s + n <= d.total

LEMMA OneRange ==
    ASSUME NEW d, NEW s, NEW n
    PROVE  /\ Engines!Analyzer!IsSectorRangeValid(d, s, n) <=> RangeOK(d, s, n)
           /\ Engines!Metadata!IsSectorRangeValid(d, s, n) <=> RangeOK(d, s, n)
           /\ Engines!Files!IsSectorRangeValid(d, s, n) <=> RangeOK(d, s, n)
           /\ Engines!Files!Metadata!IsSectorRangeValid(d, s, n) <=> RangeOK(d, s, n)
  BY Zenon DEF RangeOK, Engines!Analyzer!IsSectorRangeValid, Engines!Metadata!IsSectorRangeValid,
     Engines!Files!IsSectorRangeValid, Engines!Files!Metadata!IsSectorRangeValid

LEMMA AnalysisAnswer ==
    ASSUME NEW d \in Devices, NEW reg, NEW failing, NEW start, NEW num, NEW read, NEW again,
           NEW typeOf, NEW a,
           a = Engines!Analyzer!Analysis(d, reg, failing, start, num, read, again, typeOf)
    PROVE  \/ a = NoReply /\ ~(Gate(reg, "FILESYSTEM_ANALYSIS", failing)
                               /\ RangeOK(d, start, num) /\ d.sectorSize # 0)
           \/ /\ RangeOK(d, start, num) /\ d.sectorSize # 0
              /\ a.reads \subseteq {[from |-> start, count |-> 1],
                     [from |-> Engines!Analyzer!AdapterSector(d, start), count |-> 1]}
              /\ read \in {"ok", "short"} =>
                    a.type = IF typeOf = "detected"
                             THEN TypeOf(SectorOf(d, start, read), d.sectorSize) ELSE typeOf
              /\ a.result =
                    IF read \notin {"ok", "short"} THEN Failed(read)
                    ELSE IF a.type \notin {"FAT12", "FAT16", "FAT32", "NTFS"} THEN "false"
                    ELSE IF a.type = "NTFS"
                    THEN Engines!Analyzer!AnalyzeNtfsFilesystem(d, start, SectorOf(d, start, read), again)
                    ELSE Engines!Analyzer!AnalyzeFatFilesystem(d, start, SectorOf(d, start, read), again)
<1> DEFINE boot == SectorOf(d, start, read)
           type == IF typeOf = "detected" THEN TypeOf(boot, d.sectorSize) ELSE typeOf
           delivers == read \in {"ok", "short"}
           twice == delivers /\ type \in {"FAT12", "FAT16", "FAT32", "NTFS"}
           first == [from |-> start, count |-> 1]
           second == [from |-> Engines!Analyzer!AdapterSector(d, start), count |-> 1]
           ntfs == Engines!Analyzer!AnalyzeNtfsFilesystem(d, start, boot, again)
           fat == Engines!Analyzer!AnalyzeFatFilesystem(d, start, boot, again)
           reads == {first} \cup IF twice THEN {second} ELSE {}
           shown == IF delivers THEN type ELSE NoType
           result == IF ~delivers THEN Failed(read) ELSE IF ~twice THEN "false"
                     ELSE IF type = "NTFS" THEN ntfs ELSE fat
           open == Gate(reg, "FILESYSTEM_ANALYSIS", failing)
           inside == RangeOK(d, start, num)
<1>1. a = IF ~open \/ ~inside \/ d.sectorSize = 0 THEN NoReply
          ELSE [NoReply EXCEPT !.reads = reads, !.type = shown, !.result = result]
  <2>1. Engines!Analyzer!NoAnswer = NoReply
    BY OneReply
  <2>2. Engines!Analyzer!Sector(d, start, read) = boot
    BY OneSector
  <2>3. Engines!Analyzer!Delivers(read) <=> delivers
    BY OneRead
  <2>4. Engines!Analyzer!Failure(read) = Failed(read)
    BY OneRead
  <2>5. Engines!Analyzer!DetectFilesystemType(boot, d.sectorSize) = TypeOf(boot, d.sectorSize)
    BY OneType
  <2>6. Engines!Analyzer!ValidationPassed(Engines!Analyzer!ValidateOperation(reg, {"FILESYSTEM_ANALYSIS"}, failing)) <=> open
    BY OneGate
  <2>7. Engines!Analyzer!IsSectorRangeValid(d, start, num) <=> inside
    BY OneRange
  <2> HIDE DEF boot, open, inside, ntfs, fat
  <2>8. a = IF \/ ~Engines!Analyzer!ValidationPassed(Engines!Analyzer!ValidateOperation(reg, {"FILESYSTEM_ANALYSIS"}, failing))
               \/ ~Engines!Analyzer!IsSectorRangeValid(d, start, num)
               \/ d.sectorSize = 0
            THEN Engines!Analyzer!NoAnswer
            ELSE [Engines!Analyzer!NoAnswer EXCEPT !.reads = reads, !.type = shown, !.result = result]
    BY <2>2, <2>3, <2>4, <2>5, Zenon DEF NoType, Engines!Analyzer!Analysis, ntfs, fat
  <2>9. QED
    BY <2>1, <2>6, <2>7, <2>8, Zenon
<1> HIDE DEF boot, first, second, ntfs, fat, open, inside, type
<1>2. CASE ~open \/ ~inside \/ d.sectorSize = 0
  BY <1>1, <1>2 DEF open, inside
<1>3. CASE ~(~open \/ ~inside \/ d.sectorSize = 0)
  <2>1. a = [NoReply EXCEPT !.reads = reads, !.type = shown, !.result = result]
    BY <1>1, <1>3
  <2> HIDE DEF reads, shown, result
  <2>2. a.reads = reads /\ a.type = shown /\ a.result = result
    BY <2>1 DEF NoReply
  <2>3. reads \subseteq {first, second}
    BY DEF reads
  <2>4. delivers => a.type = type
    BY <2>2 DEF shown
  <2>5. a.result = IF ~delivers THEN Failed(read)
                   ELSE IF a.type \notin {"FAT12", "FAT16", "FAT32", "NTFS"} THEN "false"
                   ELSE IF a.type = "NTFS" THEN ntfs ELSE fat
    BY <2>2, <2>4 DEF result
  <2>6. QED
    BY <1>3, <2>2, <2>3, <2>4, <2>5 DEF boot, first, second, ntfs, fat, inside, type
<1>4. QED
  BY <1>2, <1>3

AskedReads(d, start, num, reads) ==
    \A r \in reads : /\ r.from >= start /\ r.from + r.count <= start + num
                     /\ r.from + r.count <= d.total

LEMMA FirstSectorAsked ==
    ASSUME NEW d \in Devices, NEW start \in Sectors, NEW num \in Sectors, RangeOK(d, start, num),
           NEW reads, reads \subseteq {[from |-> start, count |-> 1]}
    PROVE  AskedReads(d, start, num, reads)
<1>1. start + 1 <= start + num /\ start + 1 <= d.total
  BY EnginesAssumption, ClientsAssumption DEF RangeOK, Sectors
<1>2. ASSUME NEW r \in reads
      PROVE  r.from = start /\ r.count = 1
  BY <1>2
<1>3. QED
  BY <1>1, <1>2 DEF AskedReads, Sectors

(* The adapter of the analyzer reads the sector the analyzer was given.    *)
LEMMA AdapterIsStart ==
    ASSUME BytesFit, NEW d \in Devices, NEW start \in Sectors, NEW num,
           RangeOK(d, start, num), d.sectorSize # 0
    PROVE  Engines!Analyzer!AdapterSector(d, start) = start
<1>1. /\ UInt64 \in Nat \ {0} /\ d.sectorSize \in Nat \ {0} /\ d.total \in Nat /\ start \in Nat
      /\ start < d.total /\ d.total * d.sectorSize <= UInt64
  BY EnginesAssumption, ClientsAssumption DEF BytesFit, RangeOK, Sectors
<1>2. ((start * d.sectorSize) % UInt64) \div d.sectorSize = start
  BY <1>1, ExactSector
<1>3. QED
  BY <1>2 DEF Engines!Analyzer!AdapterSector

LEMMA AnalysisRight ==
    ASSUME NEW d \in Devices, NEW reg, NEW failing, NEW start \in Sectors, NEW num \in Sectors,
           NEW read, NEW again, NEW typeOf, NEW a,
           a = Engines!Analyzer!Analysis(d, reg, failing, start, num, read, again, typeOf)
    PROVE  a.result \in Results /\ (BytesFit => AskedReads(d, start, num, a.reads))
<1>1. CASE a = NoReply
  BY <1>1 DEF NoReply, Results, AskedReads
<1>2. CASE a # NoReply
  <2>1. /\ RangeOK(d, start, num) /\ d.sectorSize # 0
        /\ a.reads \subseteq {[from |-> start, count |-> 1],
               [from |-> Engines!Analyzer!AdapterSector(d, start), count |-> 1]}
    BY <1>2, AnalysisAnswer
  <2>2. \/ a.result \in {Failed(read), "false"}
        \/ a.result = Engines!Analyzer!AnalyzeNtfsFilesystem(d, start, SectorOf(d, start, read), again)
        \/ a.result = Engines!Analyzer!AnalyzeFatFilesystem(d, start, SectorOf(d, start, read), again)
    <3>1. a.result =
              IF read \notin {"ok", "short"} THEN Failed(read)
              ELSE IF a.type \notin {"FAT12", "FAT16", "FAT32", "NTFS"} THEN "false"
              ELSE IF a.type = "NTFS"
              THEN Engines!Analyzer!AnalyzeNtfsFilesystem(d, start, SectorOf(d, start, read), again)
              ELSE Engines!Analyzer!AnalyzeFatFilesystem(d, start, SectorOf(d, start, read), again)
      BY <1>2, AnalysisAnswer
    <3>2. QED
      BY <3>1, Zenon
  <2>3. /\ Failed(read) \in Results
        /\ Engines!Analyzer!AnalyzeNtfsFilesystem(d, start, SectorOf(d, start, read), again) \in Results
        /\ Engines!Analyzer!AnalyzeFatFilesystem(d, start, SectorOf(d, start, read), again) \in Results
    BY Zenon DEF Failed, Results, Engines!Analyzer!AnalyzeNtfsFilesystem,
       Engines!Analyzer!AnalyzeFatFilesystem, Engines!Analyzer!AnalyzeNtfsFromBootSector,
       Engines!Analyzer!AnalyzeFatFromBootSector
  <2>4. BytesFit => a.reads \subseteq {[from |-> start, count |-> 1]}
    BY <2>1, AdapterIsStart
  <2>5. BytesFit => AskedReads(d, start, num, a.reads)
    BY <2>1, <2>4, FirstSectorAsked
  <2>6. a.result \in Results
    BY <2>2, <2>3 DEF Results
  <2>7. QED
    BY <2>5, <2>6
<1>3. QED
  BY <1>1, <1>2

LEMMA AnalysisAgrees ==
    ASSUME BytesFit, NEW d \in Devices, NEW reg, NEW failing, NEW start \in Sectors,
           NEW num \in Sectors, NEW type, NEW a,
           a = Engines!Analyzer!Analysis(d, reg, failing, start, num, "ok", "ok", "detected"),
           Gate(reg, "FILESYSTEM_ANALYSIS", failing), RangeOK(d, start, num), IsTypeOf(type, d, start),
           a.result # "trap"
    PROVE  a.type = type /\ (a.result = "true" <=> type \in Engines!Recoverable)
<1> DEFINE boot == SectorOf(d, start, "ok")
<1>1. d.sectorSize \in Nat /\ d.sectorSize >= 512 /\ boot \in BootSectors
  BY EnginesAssumption, SectorTyped DEF IsTypeOf
<1>2. /\ a.type = TypeOf(boot, d.sectorSize)
      /\ a.result = IF a.type \notin {"FAT12", "FAT16", "FAT32", "NTFS"} THEN "false"
                    ELSE IF a.type = "NTFS"
                    THEN Engines!Analyzer!AnalyzeNtfsFilesystem(d, start, boot, "ok")
                    ELSE Engines!Analyzer!AnalyzeFatFilesystem(d, start, boot, "ok")
  <2>1. d.sectorSize # 0
    BY <1>1
  <2>2. "ok" \in {"ok", "short"}
    OBVIOUS
  <2>3. /\ "ok" \in {"ok", "short"} =>
               a.type = IF "detected" = "detected" THEN TypeOf(boot, d.sectorSize) ELSE "detected"
        /\ a.result = IF "ok" \notin {"ok", "short"} THEN Failed("ok")
                      ELSE IF a.type \notin {"FAT12", "FAT16", "FAT32", "NTFS"} THEN "false"
                      ELSE IF a.type = "NTFS"
                      THEN Engines!Analyzer!AnalyzeNtfsFilesystem(d, start, boot, "ok")
                      ELSE Engines!Analyzer!AnalyzeFatFilesystem(d, start, boot, "ok")
    BY <2>1, AnalysisAnswer
  <2>4. QED
    BY <2>2, <2>3, Zenon
<1>3. a.type = type
  BY <1>2 DEF IsTypeOf
<1>4. Engines!Analyzer!AnalyzeNtfsFilesystem(d, start, boot, "ok") = "true"
  BY Zenon DEF Engines!Analyzer!AnalyzeNtfsFilesystem
<1>5. type \in {"FAT12", "FAT16", "FAT32"} =>
          Engines!Analyzer!AnalyzeFatFilesystem(d, start, boot, "ok") \in {"true", "trap"}
  <2>1. SUFFICES ASSUME type \in {"FAT12", "FAT16", "FAT32"}
                 PROVE  Engines!Analyzer!AnalyzeFatFilesystem(d, start, boot, "ok") \in {"true", "trap"}
    OBVIOUS
  <2>2. boot.signature
    <3>1. PICK size \in Nat : size = d.sectorSize
      BY <1>1
    <3>2. PICK b \in BootSectors : b = boot
      BY <1>1
    <3>3. TypeOf(b, size) \in {"FAT12", "FAT16", "FAT32"}
      BY <2>1, <3>1, <3>2 DEF IsTypeOf
    <3>4. b.signature
      BY <3>3, TypesOf
    <3>5. QED
      BY <3>2, <3>4
  <2>3. Engines!Analyzer!Sector(d, Engines!Analyzer!AdapterSector(d, start), "ok") = boot
    BY <1>1, AdapterIsStart, OneSector
  <2>4. Engines!Analyzer!Delivers("ok") /\ ~(d.sectorSize < 512)
    BY <1>1, OneRead
  <2>5. QED
    BY <2>2, <2>3, <2>4, Zenon DEF Engines!Analyzer!AnalyzeFatFilesystem
<1>6. QED
  BY <1>2, <1>3, <1>4, <1>5 DEF Engines!Recoverable

(* What recoverMetadata answers, by itself and inside the file engine.     *)
MetadataReply(d, reg, failing, start, num, read) ==
    LET boot == SectorOf(d, start, read)
        type == TypeOf(boot, d.sectorSize)
        tried == [NoReply EXCEPT !.reads = {[from |-> start, count |-> 1]}]
    IN  IF \/ ~Gate(reg, "METADATA_RECOVERY", failing) \/ ~RangeOK(d, start, num)
           \/ d.sectorSize = 0
        THEN NoReply
        ELSE IF ~(read \in {"ok", "short"}) THEN [tried EXCEPT !.result = Failed(read)]
        ELSE IF type \in {"FAT12", "FAT16", "FAT32"}
        THEN [tried EXCEPT !.type = type, !.pieces = Engines!Metadata!RecoverFatTables(d, boot),
                           !.result = IF boot.bytesPerSector = 0 THEN "false" ELSE "true"]
        ELSE IF type = "NTFS"
        THEN [tried EXCEPT !.type = type, !.pieces = Engines!Metadata!RecoverNtfsMft(d),
                           !.result = "true"]
        ELSE [tried EXCEPT !.type = type]

LEMMA OneMetadata ==
    ASSUME NEW d, NEW reg, NEW failing, NEW start, NEW num, NEW read
    PROVE  /\ Engines!Metadata!RecoverMetadata(d, reg, failing, start, num, read)
                  = MetadataReply(d, reg, failing, start, num, read)
           /\ Engines!Files!Metadata!RecoverMetadata(d, reg, failing, start, num, read)
                  = MetadataReply(d, reg, failing, start, num, read)
<1> DEFINE boot == SectorOf(d, start, read)
           type == TypeOf(boot, d.sectorSize)
           delivers == read \in {"ok", "short"}
           first == [from |-> start, count |-> 1]
           tried == [NoReply EXCEPT !.reads = {first}]
           fat == Engines!Metadata!RecoverFatTables(d, boot)
           mft == Engines!Metadata!RecoverNtfsMft(d)
           open == Gate(reg, "METADATA_RECOVERY", failing)
           inside == RangeOK(d, start, num)
<1>1. Engines!Metadata!RecoverMetadata(d, reg, failing, start, num, read)
          = MetadataReply(d, reg, failing, start, num, read)
  <2>1. Engines!Metadata!NoAnswer = NoReply
    BY OneReply
  <2>2. Engines!Metadata!Sector(d, start, read) = boot
    BY OneSector
  <2>3. Engines!Metadata!Delivers(read) <=> delivers
    BY OneRead
  <2>4. Engines!Metadata!Failure(read) = Failed(read)
    BY OneRead
  <2>5. Engines!Metadata!DetectFilesystemType(boot, d.sectorSize) = type
    BY OneType
  <2>6. Engines!Metadata!ValidationPassed(Engines!Metadata!ValidateOperation(reg, {"METADATA_RECOVERY"}, failing)) <=> open
    BY OneGate
  <2>7. Engines!Metadata!IsSectorRangeValid(d, start, num) <=> inside
    BY OneRange
  <2> HIDE DEF boot, open, inside, type, first
  <2>8. Engines!Metadata!RecoverMetadata(d, reg, failing, start, num, read) =
            IF \/ ~Engines!Metadata!ValidationPassed(Engines!Metadata!ValidateOperation(reg, {"METADATA_RECOVERY"}, failing))
               \/ ~Engines!Metadata!IsSectorRangeValid(d, start, num)
               \/ d.sectorSize = 0
            THEN Engines!Metadata!NoAnswer
            ELSE IF ~delivers THEN [tried EXCEPT !.result = Failed(read)]
            ELSE IF type \in {"FAT12", "FAT16", "FAT32"}
            THEN [tried EXCEPT !.type = type, !.pieces = fat,
                               !.result = IF boot.bytesPerSector = 0 THEN "false" ELSE "true"]
            ELSE IF type = "NTFS" THEN [tried EXCEPT !.type = type, !.pieces = mft, !.result = "true"]
            ELSE [tried EXCEPT !.type = type]
    BY <2>1, <2>2, <2>3, <2>4, <2>5, Zenon DEF Engines!Metadata!RecoverMetadata, first
  <2>9. QED
    BY <2>1, <2>6, <2>7, <2>8, Zenon DEF MetadataReply, boot, open, inside, type, first
<1>2. Engines!Files!Metadata!RecoverMetadata(d, reg, failing, start, num, read)
          = MetadataReply(d, reg, failing, start, num, read)
  <2>1. Engines!Files!Metadata!NoAnswer = NoReply
    BY OneReply
  <2>2. Engines!Files!Metadata!Sector(d, start, read) = boot
    BY OneSector
  <2>3. Engines!Files!Metadata!Delivers(read) <=> delivers
    BY OneRead
  <2>4. Engines!Files!Metadata!Failure(read) = Failed(read)
    BY OneRead
  <2>5. Engines!Files!Metadata!DetectFilesystemType(boot, d.sectorSize) = type
    BY OneType
  <2>6. Engines!Files!Metadata!ValidationPassed(Engines!Files!Metadata!ValidateOperation(reg, {"METADATA_RECOVERY"}, failing)) <=> open
    BY OneGate
  <2>7. Engines!Files!Metadata!IsSectorRangeValid(d, start, num) <=> inside
    BY OneRange
  <2>10. Engines!Files!Metadata!RecoverFatTables(d, boot) = fat /\ Engines!Files!Metadata!RecoverNtfsMft(d) = mft
    BY Zenon DEF Engines!Files!Metadata!RecoverFatTables, Engines!Metadata!RecoverFatTables,
       Engines!Files!Metadata!FatSize, Engines!Metadata!FatSize, Engines!Files!Metadata!RecoverNtfsMft, Engines!Metadata!RecoverNtfsMft
  <2> HIDE DEF boot, open, inside, type, first, fat, mft
  <2>8. Engines!Files!Metadata!RecoverMetadata(d, reg, failing, start, num, read) =
            IF \/ ~Engines!Files!Metadata!ValidationPassed(Engines!Files!Metadata!ValidateOperation(reg, {"METADATA_RECOVERY"}, failing))
               \/ ~Engines!Files!Metadata!IsSectorRangeValid(d, start, num)
               \/ d.sectorSize = 0
            THEN Engines!Files!Metadata!NoAnswer
            ELSE IF ~delivers THEN [tried EXCEPT !.result = Failed(read)]
            ELSE IF type \in {"FAT12", "FAT16", "FAT32"}
            THEN [tried EXCEPT !.type = type, !.pieces = fat,
                               !.result = IF boot.bytesPerSector = 0 THEN "false" ELSE "true"]
            ELSE IF type = "NTFS" THEN [tried EXCEPT !.type = type, !.pieces = mft, !.result = "true"]
            ELSE [tried EXCEPT !.type = type]
    BY <2>1, <2>2, <2>3, <2>4, <2>5, <2>10, Zenon DEF Engines!Files!Metadata!RecoverMetadata, first
  <2>9. QED
    BY <2>1, <2>6, <2>7, <2>8, Zenon DEF MetadataReply, boot, open, inside, type, first, fat, mft
<1>3. QED
  BY <1>1, <1>2

LEMMA MetadataAnswer ==
    ASSUME NEW d \in Devices, NEW reg, NEW failing, NEW start, NEW num, NEW read, NEW a,
           a = MetadataReply(d, reg, failing, start, num, read)
    PROVE  LET boot == SectorOf(d, start, read)
               type == TypeOf(boot, d.sectorSize)
           IN  \/ a = NoReply /\ ~(Gate(reg, "METADATA_RECOVERY", failing)
                                   /\ RangeOK(d, start, num) /\ d.sectorSize # 0)
               \/ /\ RangeOK(d, start, num) /\ d.sectorSize # 0
                  /\ a.reads = {[from |-> start, count |-> 1]}
                  /\ \/ read \notin {"ok", "short"} /\ a.result = Failed(read)
                     \/ /\ type \in {"FAT12", "FAT16", "FAT32"} /\ a.type = type
                        /\ a.pieces = Engines!Metadata!RecoverFatTables(d, boot)
                        /\ a.result = IF boot.bytesPerSector = 0 THEN "false" ELSE "true"
                     \/ /\ type = "NTFS" /\ a.type = type
                        /\ a.pieces = Engines!Metadata!RecoverNtfsMft(d)
                        /\ a.result = "true"
                     \/ /\ type \notin {"FAT12", "FAT16", "FAT32", "NTFS"} /\ a.type = type
                        /\ a.pieces = {}
                        /\ a.result = "false"
<1> DEFINE boot == SectorOf(d, start, read)
           type == TypeOf(boot, d.sectorSize)
           delivers == read \in {"ok", "short"}
           first == [from |-> start, count |-> 1]
           tried == [NoReply EXCEPT !.reads = {first}]
           fat == Engines!Metadata!RecoverFatTables(d, boot)
           mft == Engines!Metadata!RecoverNtfsMft(d)
           open == Gate(reg, "METADATA_RECOVERY", failing)
           inside == RangeOK(d, start, num)
<1>1. a = IF ~open \/ ~inside \/ d.sectorSize = 0 THEN NoReply
          ELSE IF ~delivers THEN [tried EXCEPT !.result = Failed(read)]
          ELSE IF type \in {"FAT12", "FAT16", "FAT32"}
          THEN [tried EXCEPT !.type = type, !.pieces = fat,
                             !.result = IF boot.bytesPerSector = 0 THEN "false" ELSE "true"]
          ELSE IF type = "NTFS" THEN [tried EXCEPT !.type = type, !.pieces = mft, !.result = "true"]
          ELSE [tried EXCEPT !.type = type]
  BY Zenon DEF MetadataReply
<1> HIDE DEF boot, first, fat, mft, open, inside, type
<1>2. CASE ~open \/ ~inside \/ d.sectorSize = 0
  BY <1>1, <1>2 DEF open, inside
<1>3. CASE ~(~open \/ ~inside \/ d.sectorSize = 0)
  <2>1. NoReply.pieces = {} /\ NoReply.result = "false"
    BY DEF NoReply
  <2>2. CASE ~delivers
    <3>1. a = [tried EXCEPT !.result = Failed(read)]
      BY <1>1, <1>3, <2>2
    <3>2. a.reads = {first} /\ a.result = Failed(read)
      BY <3>1 DEF NoReply
    <3>3. QED
      BY <1>3, <2>2, <3>2 DEF inside, first
  <2>3. CASE delivers /\ type \in {"FAT12", "FAT16", "FAT32"}
    <3>1. a = [tried EXCEPT !.type = type, !.pieces = fat,
                            !.result = IF boot.bytesPerSector = 0 THEN "false" ELSE "true"]
      BY <1>1, <1>3, <2>3
    <3>2. /\ a.reads = {first} /\ a.type = type /\ a.pieces = fat
          /\ a.result = IF boot.bytesPerSector = 0 THEN "false" ELSE "true"
      BY <3>1 DEF NoReply
    <3>3. QED
      BY <1>3, <2>3, <3>2 DEF inside, first, type, fat, boot
  <2>4. CASE delivers /\ type = "NTFS"
    <3>1. a = [tried EXCEPT !.type = type, !.pieces = mft, !.result = "true"]
      BY <1>1, <1>3, <2>4
    <3>2. a.reads = {first} /\ a.type = type /\ a.pieces = mft /\ a.result = "true"
      BY <3>1 DEF NoReply
    <3>3. QED
      BY <1>3, <2>4, <3>2 DEF inside, first, type, mft, boot
  <2>5. CASE delivers /\ type \notin {"FAT12", "FAT16", "FAT32", "NTFS"}
    <3>1. a = [tried EXCEPT !.type = type]
      BY <1>1, <1>3, <2>5
    <3>2. a.reads = {first} /\ a.type = type /\ a.pieces = {} /\ a.result = "false"
      BY <3>1 DEF NoReply
    <3>3. QED
      BY <1>3, <2>5, <3>2 DEF inside, first, type, boot
  <2>6. QED
    BY <2>2, <2>3, <2>4, <2>5
<1>4. QED
  BY <1>2, <1>3

LEMMA MetadataRight ==
    ASSUME NEW d \in Devices, NEW reg, NEW failing, NEW start \in Sectors, NEW num \in Sectors,
           NEW read, NEW a, a = MetadataReply(d, reg, failing, start, num, read)
    PROVE  a.result \in Results /\ AskedReads(d, start, num, a.reads)
<1>1. CASE a = NoReply
  BY <1>1 DEF NoReply, Results, AskedReads
<1>2. CASE a # NoReply
  <2>1. RangeOK(d, start, num) /\ a.reads = {[from |-> start, count |-> 1]}
    BY <1>2, MetadataAnswer
  <2>2. a.result \in {Failed(read), "true", "false"}
    BY <1>2, MetadataAnswer
  <2>3. QED
    BY <2>1, <2>2, FirstSectorAsked DEF Failed, Results
<1>3. QED
  BY <1>1, <1>2

UnknownFAT == "FAT (Unknown)"

(* The pieces named as FATs carry the type of the volume.                  *)
LEMMA FatTables ==
    ASSUME NEW d \in Devices, NEW boot \in BootSectors, NEW type,
           NEW size \in Nat, size = d.sectorSize,
           type = TypeOf(boot, size), type \in {"FAT12", "FAT16", "FAT32"},
           NEW p \in Engines!Metadata!RecoverFatTables(d, boot), p[1] \in Engines!Recoverable
    PROVE  p[1] = type
<1> DEFINE f == Engines!Metadata!FatSize(boot)
           n == boot.rootEntryCount
           m == boot.total
           fatType == IF n = 0 THEN IF f > 0 THEN "FAT32" ELSE "FAT (Unknown)"
                      ELSE IF m < 4085 THEN "FAT12" ELSE "FAT16"
<1>1. f = Engines!FatSize(boot)
  BY Zenon DEF Engines!FatSize, Engines!Metadata!FatSize
<1>2. f \in Nat /\ n \in Nat /\ m \in Nat
  BY <1>1 DEF BootSectors, Engines!FatSize
<1>3. /\ n = 0 => f # 0
      /\ type = "FAT32" <=> n = 0
      /\ type = "FAT12" => m < 4085
      /\ type = "FAT16" => ~(m < 4085)
  BY <1>1, TypesOf
<1>4. p \in {<<fatType, fatNum>> : fatNum \in 0..(boot.fatCount - 1)} \cup {<<"RootDirectory", 0>>}
  <2> HIDE DEF fatType
  <2>1. p \in IF d.sectorSize < 512 \/ boot.bytesPerSector = 0 THEN {}
              ELSE {<<fatType, fatNum>> : fatNum \in 0..(boot.fatCount - 1)}
                   \cup IF n > 0 THEN {<<"RootDirectory", 0>>} ELSE {}
    BY Zenon DEF Engines!Metadata!RecoverFatTables, fatType
  <2>2. QED
    BY <2>1
<1> HIDE DEF f, n, m
<1>5. fatType = type
  <2>1. n = 0 => f > 0
    BY <1>2, <1>3
  <2>2. fatType = IF n = 0 THEN IF f > 0 THEN "FAT32" ELSE UnknownFAT
                  ELSE IF m < 4085 THEN "FAT12" ELSE "FAT16"
    BY Zenon DEF UnknownFAT
  <2> HIDE DEF fatType
  <2>3. QED
    BY <1>3, <2>1, <2>2
<1> HIDE DEF fatType
<1>6. p[1] = fatType \/ p[1] = "RootDirectory"
  BY <1>4
<1>7. QED
  BY <1>5, <1>6 DEF Engines!Recoverable

LEMMA MetadataAgrees ==
    ASSUME NEW d \in Devices, NEW reg, NEW failing, NEW start, NEW num, NEW type, NEW a,
           a = MetadataReply(d, reg, failing, start, num, "ok"),
           Gate(reg, "METADATA_RECOVERY", failing), RangeOK(d, start, num), IsTypeOf(type, d, start)
    PROVE  /\ a.type = type
           /\ a.result = "true" <=> type \in Engines!Recoverable
           /\ \A p \in a.pieces : p[1] \in Engines!Recoverable => p[1] = type
<1> DEFINE boot == SectorOf(d, start, "ok")
<1>1. PICK size \in Nat : size = d.sectorSize
  BY EnginesAssumption
<1>2. size >= 512 /\ type = TypeOf(boot, size) /\ boot \in BootSectors
  BY <1>1, SectorTyped DEF IsTypeOf
<1>3. \/ /\ type \in {"FAT12", "FAT16", "FAT32"} /\ a.type = type
         /\ a.pieces = Engines!Metadata!RecoverFatTables(d, boot)
         /\ a.result = IF boot.bytesPerSector = 0 THEN "false" ELSE "true"
      \/ /\ type = "NTFS" /\ a.type = type
         /\ a.pieces = Engines!Metadata!RecoverNtfsMft(d)
         /\ a.result = "true"
      \/ /\ type \notin {"FAT12", "FAT16", "FAT32", "NTFS"} /\ a.type = type
         /\ a.pieces = {}
         /\ a.result = "false"
  <2>1. "ok" \in {"ok", "short"} /\ d.sectorSize # 0
    BY <1>1, <1>2
  <2>2. QED
    BY <1>1, <1>2, <2>1, MetadataAnswer
<1> HIDE DEF boot
<1>4. CASE type \in {"FAT12", "FAT16", "FAT32"}
  <2>1. boot.bytesPerSector = 512
    BY <1>2, <1>4, TypesOf
  <2>2. a.type = type /\ a.result = "true" /\ a.pieces = Engines!Metadata!RecoverFatTables(d, boot)
    BY <1>3, <1>4, <2>1
  <2>3. \A p \in a.pieces : p[1] \in Engines!Recoverable => p[1] = type
    BY <1>1, <1>2, <1>4, <2>2, FatTables
  <2>4. QED
    BY <1>4, <2>2, <2>3 DEF Engines!Recoverable
<1>5. CASE type = "NTFS"
  <2>1. a.type = type /\ a.result = "true" /\ a.pieces = Engines!Metadata!RecoverNtfsMft(d)
    BY <1>3, <1>5
  <2>2. ASSUME NEW p \in a.pieces
        PROVE  p[1] \in {"NTFS_MFT_Placeholder", "NTFS_BootSector"}
    BY <2>1 DEF Engines!Metadata!RecoverNtfsMft
  <2>3. QED
    BY <1>5, <2>1, <2>2 DEF Engines!Recoverable
<1>6. CASE type \notin {"FAT12", "FAT16", "FAT32", "NTFS"}
  BY <1>3, <1>6 DEF Engines!Recoverable
<1>7. QED
  BY <1>4, <1>5, <1>6

LEMMA FilesAnswer ==
    ASSUME NEW d \in Devices, NEW reg, NEW failing, NEW start, NEW num, NEW read, NEW again, NEW a,
           a = Engines!Files!RecoverFiles(d, reg, failing, start, num, read, again)
    PROVE  LET type == TypeOf(SectorOf(d, start, read), d.sectorSize)
               metadata == MetadataReply(d, reg, failing, start, num, again)
           IN  \/ a = NoReply /\ ~(Gate(reg, "FILE_RECOVERY", failing)
                                   /\ RangeOK(d, start, num) /\ d.sectorSize # 0)
               \/ /\ RangeOK(d, start, num) /\ d.sectorSize # 0
                  /\ a.reads \subseteq {[from |-> start, count |-> 1]} \cup metadata.reads
                  /\ \/ read \notin {"ok", "short"} /\ a.result = Failed(read)
                     \/ /\ a.type = type
                        /\ a.result = IF type \notin {"FAT12", "FAT16", "FAT32", "NTFS"}
                                      THEN "false" ELSE metadata.result
<1> DEFINE boot == SectorOf(d, start, read)
           type == TypeOf(boot, d.sectorSize)
           delivers == read \in {"ok", "short"}
           first == [from |-> start, count |-> 1]
           tried == [NoReply EXCEPT !.reads = {first}]
           metadata == MetadataReply(d, reg, failing, start, num, again)
           pieces == IF type = "NTFS" THEN Engines!Files!RecoverNtfsFiles(d)
                     ELSE Engines!Files!RecoverFatFiles(d)
           open == Gate(reg, "FILE_RECOVERY", failing)
           inside == RangeOK(d, start, num)
<1>1. a = IF ~open \/ ~inside \/ d.sectorSize = 0 THEN NoReply
          ELSE IF ~delivers THEN [tried EXCEPT !.result = Failed(read)]
          ELSE IF type \notin {"FAT12", "FAT16", "FAT32", "NTFS"} THEN [tried EXCEPT !.type = type]
          ELSE IF metadata.result # "true"
          THEN [tried EXCEPT !.type = type, !.reads = tried.reads \cup metadata.reads,
                             !.result = metadata.result]
          ELSE [tried EXCEPT !.type = type, !.reads = tried.reads \cup metadata.reads,
                             !.result = "true", !.pieces = pieces]
  <2>1. Engines!Files!NoAnswer = NoReply
    BY OneReply
  <2>2. Engines!Files!Sector(d, start, read) = boot
    BY OneSector
  <2>3. Engines!Files!Delivers(read) <=> delivers
    BY OneRead
  <2>4. Engines!Files!Failure(read) = Failed(read)
    BY OneRead
  <2>5. Engines!Files!DetectFilesystemType(boot, d.sectorSize) = type
    BY OneType
  <2>6. Engines!Files!ValidationPassed(Engines!Files!ValidateOperation(reg, {"FILE_RECOVERY"}, failing)) <=> open
    BY OneGate
  <2>7. Engines!Files!IsSectorRangeValid(d, start, num) <=> inside
    BY OneRange
  <2>8. Engines!Files!Metadata!RecoverMetadata(d, reg, failing, start, num, again) = metadata
    BY OneMetadata
  <2> HIDE DEF boot, open, inside, type, first, metadata, pieces
  <2>9. a = IF \/ ~Engines!Files!ValidationPassed(Engines!Files!ValidateOperation(reg, {"FILE_RECOVERY"}, failing))
               \/ ~Engines!Files!IsSectorRangeValid(d, start, num)
               \/ d.sectorSize = 0
            THEN Engines!Files!NoAnswer
            ELSE IF ~delivers THEN [tried EXCEPT !.result = Failed(read)]
            ELSE IF type \notin {"FAT12", "FAT16", "FAT32", "NTFS"} THEN [tried EXCEPT !.type = type]
            ELSE IF metadata.result # "true"
            THEN [tried EXCEPT !.type = type, !.reads = tried.reads \cup metadata.reads,
                               !.result = metadata.result]
            ELSE [tried EXCEPT !.type = type, !.reads = tried.reads \cup metadata.reads,
                               !.result = "true", !.pieces = pieces]
    BY <2>1, <2>2, <2>3, <2>4, <2>5, <2>8, Zenon DEF Engines!Files!RecoverFiles, first, pieces
  <2>10. QED
    BY <2>1, <2>6, <2>7, <2>9, Zenon
<1>2. tried.reads = {first} /\ NoReply.result = "false"
  BY DEF NoReply
<1> HIDE DEF boot, first, pieces, open, inside, type, metadata
<1>3. CASE ~open \/ ~inside \/ d.sectorSize = 0
  BY <1>1, <1>3 DEF open, inside
<1>4. CASE open /\ inside /\ d.sectorSize # 0 /\ ~delivers
  <2>1. a = [tried EXCEPT !.result = Failed(read)]
    BY <1>1, <1>4
  <2>2. a.reads = {first} /\ a.result = Failed(read)
    BY <2>1 DEF NoReply
  <2>3. QED
    BY <1>4, <2>2 DEF inside, first
<1>5. CASE open /\ inside /\ d.sectorSize # 0 /\ delivers /\ type \notin {"FAT12", "FAT16", "FAT32", "NTFS"}
  <2>1. a = [tried EXCEPT !.type = type]
    BY <1>1, <1>5
  <2>2. a.reads = {first} /\ a.type = type /\ a.result = "false"
    BY <2>1 DEF NoReply
  <2>3. QED
    BY <1>5, <2>2 DEF inside, first, type, boot
<1>6. CASE open /\ inside /\ d.sectorSize # 0 /\ delivers /\ type \in {"FAT12", "FAT16", "FAT32", "NTFS"}
  <2> DEFINE both == {first} \cup metadata.reads
  <2>1. \/ a = [tried EXCEPT !.type = type, !.reads = both, !.result = metadata.result]
        \/ /\ metadata.result = "true"
           /\ a = [tried EXCEPT !.type = type, !.reads = both, !.result = "true", !.pieces = pieces]
    BY <1>1, <1>2, <1>6
  <2> HIDE DEF both
  <2>2. a.reads = both /\ a.type = type /\ a.result = metadata.result
    BY <2>1 DEF NoReply
  <2>3. QED
    BY <1>6, <2>2 DEF inside, first, type, boot, metadata, both
<1>7. QED
  BY <1>3, <1>4, <1>5, <1>6

LEMMA FilesRight ==
    ASSUME NEW d \in Devices, NEW reg, NEW failing, NEW start \in Sectors, NEW num \in Sectors,
           NEW read, NEW again, NEW a,
           a = Engines!Files!RecoverFiles(d, reg, failing, start, num, read, again)
    PROVE  a.result \in Results /\ AskedReads(d, start, num, a.reads)
<1> DEFINE metadata == MetadataReply(d, reg, failing, start, num, again)
<1>1. CASE a = NoReply
  BY <1>1 DEF NoReply, Results, AskedReads
<1>2. CASE a # NoReply
  <2>1. metadata.result \in Results /\ AskedReads(d, start, num, metadata.reads)
    BY MetadataRight
  <2>2. /\ RangeOK(d, start, num)
        /\ a.reads \subseteq {[from |-> start, count |-> 1]} \cup metadata.reads
        /\ a.result \in {Failed(read), "false", metadata.result}
    BY <1>2, FilesAnswer
  <2> HIDE DEF metadata
  <2>3. AskedReads(d, start, num, {[from |-> start, count |-> 1]})
    BY <2>2, FirstSectorAsked
  <2>4. QED
    BY <2>1, <2>2, <2>3 DEF AskedReads, Results, Failed
<1>3. QED
  BY <1>1, <1>2

LEMMA FilesAgree ==
    ASSUME NEW d \in Devices, NEW reg, NEW failing, NEW start, NEW num, NEW type, NEW a,
           a = Engines!Files!RecoverFiles(d, reg, failing, start, num, "ok", "ok"),
           Gate(reg, "FILE_RECOVERY", failing), Gate(reg, "METADATA_RECOVERY", failing),
           RangeOK(d, start, num), IsTypeOf(type, d, start)
    PROVE  a.type = type /\ (a.result = "true" <=> type \in Engines!Recoverable)
<1> DEFINE metadata == MetadataReply(d, reg, failing, start, num, "ok")
<1>1. d.sectorSize # 0
  BY EnginesAssumption DEF IsTypeOf
<1>2. metadata.result = "true" <=> type \in Engines!Recoverable
  BY MetadataAgrees
<1>3. /\ a.type = type
      /\ a.result = IF type \notin {"FAT12", "FAT16", "FAT32", "NTFS"} THEN "false" ELSE metadata.result
  <2>1. "ok" \in {"ok", "short"} /\ type = TypeOf(SectorOf(d, start, "ok"), d.sectorSize)
    BY DEF IsTypeOf
  <2>2. QED
    BY <1>1, <2>1, FilesAnswer
<1> HIDE DEF metadata
<1>4. QED
  BY <1>2, <1>3 DEF Engines!Recoverable

LEMMA BytesAnswer ==
    ASSUME NEW d, NEW reg, NEW failing, NEW start, NEW offset, NEW size, NEW read, NEW a,
           a = Engines!Metadata!RecoverMetadataType(d, reg, failing, start, offset, size, read)
    PROVE  LET sector == (start + offset \div 512) % UInt64
               count == ((size + 511) % UInt64) \div 512
               bytes == count * d.sectorSize
           IN  \/ a = NoReply
               \/ /\ RangeOK(d, sector, count) /\ d.sectorSize # 0
                  /\ a.reads = {[from |-> sector, count |-> count]}
                  /\ \/ read \notin {"ok", "short"} /\ a.result = Failed(read)
                     \/ a.result = "true" /\ a.bytes = IF size < bytes THEN size ELSE bytes
<1> DEFINE sector == (start + offset \div 512) % UInt64
           count == ((size + 511) % UInt64) \div 512
           bytes == count * d.sectorSize
           tried == [NoReply EXCEPT !.reads = {[from |-> sector, count |-> count]}]
<1>1. \/ a = NoReply
      \/ /\ RangeOK(d, sector, count) /\ d.sectorSize # 0
         /\ \/ read \notin {"ok", "short"} /\ a = [tried EXCEPT !.result = Failed(read)]
            \/ a = [tried EXCEPT !.result = "true", !.bytes = IF size < bytes THEN size ELSE bytes]
  <2>1. Engines!Metadata!NoAnswer = NoReply
    BY OneReply
  <2>2. Engines!Metadata!Delivers(read) <=> read \in {"ok", "short"}
    BY OneRead
  <2>3. Engines!Metadata!Failure(read) = Failed(read)
    BY OneRead
  <2> HIDE DEF sector, count, bytes
  <2>4. Engines!Metadata!IsSectorRangeValid(d, sector, count) <=> RangeOK(d, sector, count)
    BY OneRange
  <2>5. a = IF \/ ~Engines!Metadata!ValidationPassed(Engines!Metadata!ValidateOperation(reg, {"METADATA_RECOVERY"}, failing))
               \/ ~Engines!Metadata!IsSectorRangeValid(d, sector, count)
               \/ d.sectorSize = 0
            THEN NoReply
            ELSE IF ~(read \in {"ok", "short"}) THEN [tried EXCEPT !.result = Failed(read)]
            ELSE [tried EXCEPT !.result = "true", !.bytes = IF size < bytes THEN size ELSE bytes]
    <3>1. a = IF \/ ~Engines!Metadata!ValidationPassed(Engines!Metadata!ValidateOperation(reg, {"METADATA_RECOVERY"}, failing))
                 \/ ~Engines!Metadata!IsSectorRangeValid(d, sector, count)
                 \/ d.sectorSize = 0
              THEN Engines!Metadata!NoAnswer
              ELSE IF ~Engines!Metadata!Delivers(read)
              THEN [[Engines!Metadata!NoAnswer EXCEPT !.reads = {[from |-> sector, count |-> count]}]
                    EXCEPT !.result = Engines!Metadata!Failure(read)]
              ELSE [[Engines!Metadata!NoAnswer EXCEPT !.reads = {[from |-> sector, count |-> count]}]
                    EXCEPT !.result = "true", !.bytes = IF size < bytes THEN size ELSE bytes]
      BY Zenon DEF Engines!Metadata!RecoverMetadataType, sector, count, bytes
    <3>2. QED
      BY <2>1, <2>2, <2>3, <3>1, Zenon
  <2>6. QED
    BY <2>4, <2>5, Zenon
<1> HIDE DEF sector, count, bytes
<1>2. ASSUME a = [tried EXCEPT !.result = Failed(read)]
      PROVE  a.reads = {[from |-> sector, count |-> count]} /\ a.result = Failed(read)
  BY <1>2 DEF NoReply
<1>3. ASSUME a = [tried EXCEPT !.result = "true", !.bytes = IF size < bytes THEN size ELSE bytes]
      PROVE  /\ a.reads = {[from |-> sector, count |-> count]} /\ a.result = "true"
             /\ a.bytes = IF size < bytes THEN size ELSE bytes
  BY <1>3 DEF NoReply
<1>4. \/ a = NoReply
      \/ /\ RangeOK(d, sector, count) /\ d.sectorSize # 0
         /\ a.reads = {[from |-> sector, count |-> count]}
         /\ \/ read \notin {"ok", "short"} /\ a.result = Failed(read)
            \/ a.result = "true" /\ a.bytes = IF size < bytes THEN size ELSE bytes
  <2> HIDE DEF tried
  <2>1. QED
    BY <1>1, <1>2, <1>3
<1>5. QED
  BY <1>4, Zenon DEF sector, count, bytes

LEMMA FileAnswer ==
    ASSUME NEW d, NEW reg, NEW failing, NEW start, NEW size, NEW read, NEW a,
           NEW survives, a = Engines!Files!RecoverFile(d, reg, failing, start, size, read, survives)
    PROVE  LET count == (size + d.sectorSize - 1) \div d.sectorSize
           IN  \/ a = NoReply
               \/ /\ RangeOK(d, start, ((size + 511) % UInt64) \div 512) /\ d.sectorSize # 0
                  /\ a.reads = {[from |-> start, count |-> count]}
                  /\ \/ read \notin {"ok", "short"} /\ a.result = Failed(read)
                     \/ read = "short" /\ a.result = "trap"
                     \/ a.result = "true" /\ a.bytes = size
<1> DEFINE count == (size + d.sectorSize - 1) \div d.sectorSize
           checked == ((size + 511) % UInt64) \div 512
           tried == [NoReply EXCEPT !.reads = {[from |-> start, count |-> count]}]
<1>1. \/ a = NoReply
      \/ /\ RangeOK(d, start, checked) /\ d.sectorSize # 0
         /\ \/ read \notin {"ok", "short"} /\ a = [tried EXCEPT !.result = Failed(read)]
            \/ read = "short" /\ a = [tried EXCEPT !.result = "trap"]
            \/ a = [tried EXCEPT !.result = "true", !.bytes = size]
  <2>1. Engines!Files!NoAnswer = NoReply
    BY OneReply
  <2>2. Engines!Files!Delivers(read) <=> read \in {"ok", "short"}
    BY OneRead
  <2>3. Engines!Files!Failure(read) = Failed(read)
    BY OneRead
  <2> HIDE DEF count, checked
  <2>4. Engines!Files!IsSectorRangeValid(d, start, checked) <=> RangeOK(d, start, checked)
    BY OneRange
  <2>5. a = IF \/ ~Engines!Files!ValidationPassed(Engines!Files!ValidateOperation(reg, {"FILE_RECOVERY"}, failing))
               \/ ~Engines!Files!IsSectorRangeValid(d, start, checked)
               \/ d.sectorSize = 0
            THEN NoReply
            ELSE IF read \notin {"ok", "short"} THEN [tried EXCEPT !.result = Failed(read)]
            ELSE IF read = "short" /\ ~survives THEN [tried EXCEPT !.result = "trap"]
            ELSE [tried EXCEPT !.result = "true", !.bytes = size]
    BY <2>1, <2>2, <2>3, Zenon DEF Engines!Files!RecoverFile, count, checked
  <2>6. QED
    BY <2>4, <2>5, Zenon
<1> HIDE DEF count, checked
<1>2. PICK S : S = {[from |-> start, count |-> count]}
  OBVIOUS
<1>3. PICK t : t = tried
  OBVIOUS
<1>4. t = [result |-> "false", reads |-> S, type |-> NoType, pieces |-> {}, bytes |-> 0]
  BY <1>2, <1>3 DEF NoReply
<1> HIDE DEF tried
<1>5. ASSUME a = [tried EXCEPT !.result = Failed(read)]
      PROVE  a.reads = S /\ a.result = Failed(read)
  <2>1. PICK f : f = Failed(read)
    OBVIOUS
  <2>2. a = [t EXCEPT !.result = f]
    BY <1>3, <1>5, <2>1, Zenon
  <2>3. QED
    BY <1>4, <2>1, <2>2
<1>8. ASSUME a = [tried EXCEPT !.result = "trap"]
      PROVE  a.reads = S /\ a.result = "trap"
  <2>1. a = [t EXCEPT !.result = "trap"]
    BY <1>3, <1>8, Zenon
  <2>2. QED
    BY <1>4, <2>1
<1>6. ASSUME a = [tried EXCEPT !.result = "true", !.bytes = size]
      PROVE  a.reads = S /\ a.result = "true" /\ a.bytes = size
  <2>1. a = [t EXCEPT !.result = "true", !.bytes = size]
    BY <1>3, <1>6, Zenon
  <2>2. QED
    BY <1>4, <2>1
<1>7. \/ a = NoReply
      \/ /\ RangeOK(d, start, checked) /\ d.sectorSize # 0
         /\ a.reads = S
         /\ \/ read \notin {"ok", "short"} /\ a.result = Failed(read)
            \/ read = "short" /\ a.result = "trap"
            \/ a.result = "true" /\ a.bytes = size
  <2>1. CASE a = NoReply
    BY <2>1
  <2>2. CASE /\ RangeOK(d, start, checked) /\ d.sectorSize # 0
             /\ read \notin {"ok", "short"} /\ a = [tried EXCEPT !.result = Failed(read)]
    BY <2>2, <1>5, Zenon
  <2>5. CASE /\ RangeOK(d, start, checked) /\ d.sectorSize # 0
             /\ read = "short" /\ a = [tried EXCEPT !.result = "trap"]
    BY <2>5, <1>8, Zenon
  <2>3. CASE /\ RangeOK(d, start, checked) /\ d.sectorSize # 0
             /\ a = [tried EXCEPT !.result = "true", !.bytes = size]
    BY <2>3, <1>6, Zenon
  <2>4. QED
    BY <1>1, <2>1, <2>2, <2>3, <2>5, Zenon
<1>9. QED
  BY <1>2, <1>7, Zenon DEF count, checked

(* The bytes handed out lie on the disk, all of them read, from the byte   *)
(* asked for on.                                                           *)
AskedBytes(d, at, size, a) ==
    /\ a.bytes = size /\ size > 0
    /\ \A r \in a.reads :
          /\ r.from + r.count <= d.total
          /\ r.from * d.sectorSize = at
          /\ r.count * d.sectorSize >= size

LEMMA BytesRight ==
    ASSUME NEW d \in Devices, NEW reg, NEW failing, NEW start \in Sectors, NEW offset \in Sectors,
           NEW size \in Sectors, NEW read, NEW a,
           a = Engines!Metadata!RecoverMetadataType(d, reg, failing, start, offset, size, read)
    PROVE  /\ a.result \in Results
           /\ (/\ a.result = "true" /\ d.sectorSize = 512 /\ (start * 512 + offset) % 512 = 0
               /\ (start * 512 + offset) \div 512 < UInt64)
              => AskedBytes(d, start * 512 + offset, size, a)
<1> DEFINE unit == 512
           sector == (start + offset \div unit) % UInt64
           count == ((size + 511) % UInt64) \div unit
           bytes == count * d.sectorSize
           at == start * unit + offset
<1>1. NoReply.result = "false"
  BY DEF NoReply
<1>2. \/ a = NoReply
      \/ /\ RangeOK(d, sector, count)
         /\ a.reads = {[from |-> sector, count |-> count]}
         /\ \/ a.result = Failed(read)
            \/ a.result = "true" /\ a.bytes = IF size < bytes THEN size ELSE bytes
  BY BytesAnswer
<1>3. unit \in Nat \ {0} /\ unit = 511 + 1 /\ UInt64 \in Nat \ {0}
      /\ start \in Nat /\ offset \in Nat /\ size \in 0 .. UInt64 - 1
  BY ClientsAssumption DEF Sectors
<1>4. (unit = d.sectorSize <=> d.sectorSize = 512) /\ at = start * 512 + offset
      /\ (at % unit = 0 <=> (start * 512 + offset) % 512 = 0)
      /\ (at \div unit < UInt64 <=> (start * 512 + offset) \div 512 < UInt64)
  OBVIOUS
<1> HIDE DEF unit
<1>5. a.result \in Results
  <2> HIDE DEF sector, count, bytes
  <2>1. QED
    BY <1>1, <1>2 DEF Failed, Results
<1>6. ASSUME a.result = "true", d.sectorSize = unit, at % unit = 0, at \div unit < UInt64
      PROVE  AskedBytes(d, at, size, a)
  <2>1. RangeOK(d, sector, count) /\ a.reads = {[from |-> sector, count |-> count]}
        /\ a.bytes = IF size < bytes THEN size ELSE bytes
    <3> HIDE DEF sector, count, bytes
    <3>1. Failed(read) # "true"
      BY DEF Failed
    <3>2. QED
      BY <1>1, <1>2, <1>6, <3>1
  <2>2. at \div unit = start + offset \div unit /\ at % unit = offset % unit
        /\ (offset % unit = 0 => (start + offset \div unit) * unit = at)
    BY <1>3, OffsetUnit
  <2>3. sector = start + offset \div unit /\ sector * unit = at
    <3> DEFINE whole == start + offset \div unit
    <3>1. whole < UInt64 /\ whole * unit = at
      BY <1>6, <2>2
    <3>2. whole \in Nat
      BY <1>3, Division
    <3> HIDE DEF whole
    <3>3. whole % UInt64 = whole
      BY <1>3, <3>1, <3>2, BelowDivisor
    <3>4. QED
      BY <3>1, <3>3 DEF whole
  <2>4. count # 0
    BY <2>1 DEF RangeOK
  <2>5. size > 0 /\ count = (size + unit - 1) \div unit
    BY <1>3, <2>4, CountedSectors
  <2>6. size <= count * unit
    BY <1>3, <2>5, Rounding
  <2> HIDE DEF sector, count, at
  <2>7. bytes = count * unit
    BY <1>6
  <2>8. a.bytes = size
    <3>1. bytes \in Nat /\ size <= bytes
      <4>1. count \in Nat
        BY <1>3, <2>5, Rounding
      <4>2. QED
        BY <1>3, <2>6, <2>7, <4>1, Products
    <3> HIDE DEF bytes
    <3>2. QED
      BY <1>3, <2>1, <3>1
  <2>9. sector + count <= d.total
    BY <2>1 DEF RangeOK
  <2>10. count * d.sectorSize >= size /\ sector * d.sectorSize = at
    BY <1>6, <2>3, <2>6
  <2> HIDE DEF bytes
  <2>11. QED
    BY <2>1, <2>5, <2>8, <2>9, <2>10 DEF AskedBytes
<1> HIDE DEF at
<1>7. QED
  BY <1>4, <1>5, <1>6

LEMMA FileRight ==
    ASSUME NEW d \in Devices, NEW reg, NEW failing, NEW start \in Sectors, NEW size \in Sectors,
           NEW read, NEW survives, NEW a,
           a = Engines!Files!RecoverFile(d, reg, failing, start, size, read, survives)
    PROVE  /\ a.result \in Results
           /\ (a.result = "true" /\ d.sectorSize >= 512)
              => AskedBytes(d, start * d.sectorSize, size, a)
<1> DEFINE unit == 512
           count == (size + d.sectorSize - 1) \div d.sectorSize
           checked == ((size + 511) % UInt64) \div unit
<1>1. NoReply.result = "false"
  BY DEF NoReply
<1>2. \/ a = NoReply
      \/ /\ RangeOK(d, start, checked)
         /\ a.reads = {[from |-> start, count |-> count]}
         /\ \/ a.result = Failed(read)
            \/ a.result = "trap"
            \/ a.result = "true" /\ a.bytes = size
  BY FileAnswer
<1>3. unit \in Nat \ {0} /\ unit = 511 + 1 /\ UInt64 \in Nat \ {0}
      /\ size \in 0 .. UInt64 - 1 /\ start \in Nat /\ d.sectorSize \in Nat /\ d.total \in Nat
      /\ (d.sectorSize >= 512 => unit <= d.sectorSize)
  BY EnginesAssumption, ClientsAssumption DEF Sectors
<1> HIDE DEF unit
<1>4. a.result \in Results
  <2> HIDE DEF count, checked
  <2>1. QED
    BY <1>1, <1>2 DEF Failed, Results
<1>5. ASSUME a.result = "true", unit <= d.sectorSize
      PROVE  AskedBytes(d, start * d.sectorSize, size, a)
  <2>1. RangeOK(d, start, checked) /\ a.reads = {[from |-> start, count |-> count]} /\ a.bytes = size
    <3> HIDE DEF count, checked
    <3>1. Failed(read) # "true"
      BY DEF Failed
    <3>2. QED
      BY <1>1, <1>2, <1>5, <3>1
  <2>2. checked # 0
    BY <2>1 DEF RangeOK
  <2>3. size > 0 /\ checked = (size + unit - 1) \div unit
    BY <1>3, <2>2, CountedSectors
  <2>4. PICK ss \in Nat \ {0} : ss = d.sectorSize
    BY <1>3, <1>5
  <2>5. count \in Nat /\ size <= count * ss /\ count <= checked
    <3>1. size \in Nat /\ unit \in Nat \ {0} /\ unit <= ss
      BY <1>3, <1>5, <2>4
    <3>2. (size + ss - 1) \div ss <= (size + unit - 1) \div unit
      BY <3>1, FewerSectors
    <3>3. (size + ss - 1) \div ss \in Nat /\ size <= ((size + ss - 1) \div ss) * ss
      BY <3>1, Rounding
    <3>4. count = (size + ss - 1) \div ss
      BY <2>4
    <3> HIDE DEF count, checked
    <3>5. QED
      BY <2>3, <3>2, <3>3, <3>4
  <2>6. start + checked <= d.total /\ checked \in Nat
    BY <1>3, <2>1, <2>3, Rounding DEF RangeOK
  <2> HIDE DEF count, checked
  <2>7. start + count <= d.total
    BY <1>3, <2>5, <2>6
  <2>8. count * d.sectorSize >= size
    BY <1>3, <2>4, <2>5, Products
  <2>9. QED
    BY <2>1, <2>3, <2>7, <2>8 DEF AskedBytes
<1>6. QED
  BY <1>3, <1>4, <1>5

-----------------------------------------------------------------------------
(* The engines: every call reads what it was asked for and agrees with     *)
(* what detection said.                                                    *)

DetectedRight(d, det) == det.type # NoType => IsTypeOf(det.type, d, det.sector)

ReadsOK(d, c) ==
    /\ c.op \in {"analyze", "info", "metadata", "files"} =>
          AskedReads(d, c.start, c.num, c.answer.reads)
    /\ (/\ c.op \in {"file", "bytes"} /\ c.answer.result = "true"
        /\ c.op = "file" => d.sectorSize >= 512
        /\ c.op = "bytes" => /\ d.sectorSize = 512 /\ c.start % 512 = 0
                             /\ c.start \div 512 < UInt64) =>
          AskedBytes(d, c.start, c.num, c.answer)

AgreesOK(d, det, c) ==
    /\ c.op \in {"analyze", "metadata", "files"}
    /\ c.open /\ c.whole
    /\ det.type # NoType /\ c.start = det.sector
    /\ c.num > 0 /\ c.start + c.num <= d.total
    /\ c.answer.result # "trap"
    => /\ c.answer.result = "true" <=> det.type \in Engines!Recoverable
       /\ c.answer.type = det.type
       /\ c.op = "metadata" =>
             \A p \in c.answer.pieces : p[1] \in Engines!Recoverable => p[1] = det.type

CallOK(d, det, c) ==
    /\ c.answer.result \in Results
    /\ BytesFit => ReadsOK(d, c) /\ AgreesOK(d, det, c)

LEMMA CallParts ==
    ASSUME NEW op, NEW start, NEW num, NEW open \in BOOLEAN, NEW whole \in BOOLEAN, NEW a, NEW c,
           c = Engines!Call(op, start, num, open, whole, a)
    PROVE  /\ c.op = op /\ c.start = start /\ c.num = num /\ c.answer = a
           /\ c.open = open /\ c.whole = whole
  BY DEF Engines!Call

LEMMA RangeCall ==
    ASSUME NEW d \in Devices, NEW det, DetectedRight(d, det),
           NEW op \in {"analyze", "info", "metadata", "files"}, NEW start \in Sectors,
           NEW num \in Sectors, NEW open \in BOOLEAN, NEW whole \in BOOLEAN, NEW a, NEW c,
           c = Engines!Call(op, start, num, open, whole, a),
           a.result \in Results, BytesFit => AskedReads(d, start, num, a.reads),
           (/\ BytesFit /\ op # "info" /\ open /\ whole /\ RangeOK(d, start, num)
            /\ IsTypeOf(det.type, d, start) /\ a.result # "trap") =>
                  /\ a.type = det.type
                  /\ a.result = "true" <=> det.type \in Engines!Recoverable
                  /\ op = "metadata" =>
                        \A p \in a.pieces : p[1] \in Engines!Recoverable => p[1] = det.type
    PROVE  CallOK(d, det, c)
<1>1. c.op = op /\ c.start = start /\ c.num = num /\ c.answer = a /\ c.open = open /\ c.whole = whole
  BY CallParts
<1>2. BytesFit => ReadsOK(d, c)
  <2>1. op \notin {"file", "bytes"}
    OBVIOUS
  <2>2. QED
    BY <1>1, <2>1, Zenon DEF ReadsOK
<1>3. ASSUME BytesFit, op \in {"analyze", "metadata", "files"}, open, whole, det.type # NoType,
             start = det.sector, num > 0, start + num <= d.total, a.result # "trap"
      PROVE  /\ a.result = "true" <=> det.type \in Engines!Recoverable
             /\ a.type = det.type
             /\ op = "metadata" =>
                   \A p \in a.pieces : p[1] \in Engines!Recoverable => p[1] = det.type
  <2>1. IsTypeOf(det.type, d, start) /\ d.present
    BY <1>3 DEF DetectedRight, IsTypeOf
  <2>2. RangeOK(d, start, num)
    BY <1>3, <2>1, EnginesAssumption, ClientsAssumption DEF RangeOK, Sectors
  <2>3. op # "info"
    BY <1>3
  <2>4. QED
    BY <1>3, <2>1, <2>2, <2>3
<1>4. BytesFit => AgreesOK(d, det, c)
  BY <1>1, <1>3, Zenon DEF AgreesOK
<1>5. QED
  BY <1>1, <1>2, <1>4 DEF CallOK

LEMMA BytesCall ==
    ASSUME NEW d \in Devices, NEW det, NEW op \in {"file", "bytes"}, NEW start, NEW num,
           NEW open \in BOOLEAN, NEW whole \in BOOLEAN, NEW a, NEW c,
           c = Engines!Call(op, start, num, open, whole, a), a.result \in Results,
           (/\ a.result = "true"
            /\ op = "file" => d.sectorSize >= 512
            /\ op = "bytes" => /\ d.sectorSize = 512 /\ start % 512 = 0
                               /\ start \div 512 < UInt64) =>
                 AskedBytes(d, start, num, a)
    PROVE  CallOK(d, det, c)
<1>1. c.op = op /\ c.start = start /\ c.num = num /\ c.answer = a
  BY CallParts
<1>2. op \notin {"analyze", "info", "metadata", "files"}
  OBVIOUS
<1>3. ReadsOK(d, c)
  <2>1. SUFFICES ASSUME c.answer.result = "true",
                        c.op = "file" => d.sectorSize >= 512,
                        c.op = "bytes" => /\ d.sectorSize = 512 /\ c.start % 512 = 0
                                          /\ c.start \div 512 < UInt64
                 PROVE  AskedBytes(d, c.start, c.num, c.answer)
    BY <1>1, <1>2, Zenon DEF ReadsOK
  <2>2. /\ a.result = "true"
        /\ op = "file" => d.sectorSize >= 512
        /\ op = "bytes" => d.sectorSize = 512 /\ start % 512 = 0 /\ start \div 512 < UInt64
    <3>1. a.result = "true"
      BY <1>1, <2>1
    <3>2. op = "file" => d.sectorSize >= 512
      BY <1>1, <2>1
    <3>3. ASSUME op = "bytes"
          PROVE  d.sectorSize = 512 /\ start % 512 = 0 /\ start \div 512 < UInt64
      <4>1. d.sectorSize = 512 /\ c.start % 512 = 0 /\ c.start \div 512 < UInt64
        BY <1>1, <2>1, <3>3
      <4>2. QED
        BY <1>1, <4>1, Zenon
    <3>4. QED
      BY <3>1, <3>2, <3>3
  <2>3. AskedBytes(d, start, num, a)
    BY <2>2, Zenon
  <2>4. QED
    BY <1>1, <2>3, Zenon
<1>4. AgreesOK(d, det, c)
  BY <1>1, <1>2, Zenon DEF AgreesOK
<1>5. QED
  BY <1>1, <1>3, <1>4 DEF CallOK

LEMMA PlainCall ==
    ASSUME NEW d, NEW det, NEW op \in {"detect", "export", "item"}, NEW start, NEW num,
           NEW open \in BOOLEAN, NEW whole \in BOOLEAN, NEW a, NEW c,
           c = Engines!Call(op, start, num, open, whole, a), a.result \in Results
    PROVE  CallOK(d, det, c)
<1>1. c.op = op /\ c.answer = a
  BY CallParts
<1>2. op \notin {"analyze", "info", "metadata", "files", "file", "bytes"}
  OBVIOUS
<1>3. ReadsOK(d, c)
  BY <1>1, <1>2, Zenon DEF ReadsOK
<1>4. AgreesOK(d, det, c)
  BY <1>1, <1>2, Zenon DEF AgreesOK
<1>5. QED
  BY <1>1, <1>3, <1>4 DEF CallOK

LEMMA ExportAnswer ==
    ASSUME NEW d, NEW reg, NEW failing, NEW start, NEW num, NEW sizes
    PROVE  /\ Engines!Exporter!ExportData(d, reg, failing, start, num, sizes).result \in Results
           /\ Engines!Exporter!ExportDataItem(d, reg, failing, start, num).result \in Results
<1>1. Engines!Exporter!ExportData(d, reg, failing, start, num, sizes).result \in {"true", "false"}
  BY DEF Engines!Exporter!ExportData
<1>2. Engines!Exporter!ExportDataItem(d, reg, failing, start, num).result \in {"true", "false"}
  BY DEF Engines!Exporter!ExportDataItem
<1>3. QED
  BY <1>1, <1>2 DEF Results

(* What the engines keep: their types, a true note of the last detection,  *)
(* and an answer as it should be.                                          *)
EnginesTyped ==
    /\ device \in Devices
    /\ registry \subseteq Engines!Capabilities
    /\ startSector \in Starts \cup {0} /\ detected.sector \in Starts \cup {0}
    /\ detected.type \in Types

Answered == last = Engines!NoCall \/ CallOK(device, detected, last)

EnginesInv == EnginesTyped /\ DetectedRight(device, detected) /\ Answered

LEMMA FoundTyped ==
    ASSUME NEW d \in Devices, NEW n, NEW type, IsTypeOf(type, d, n)
    PROVE  type \in Types
<1>1. PICK size \in Nat : size = d.sectorSize
  BY EnginesAssumption
<1>2. PICK boot \in BootSectors : boot = SectorOf(d, n, "ok")
  BY SectorTyped
<1>3. TypeOf(boot, size) \in Types
  BY TypesOf
<1>4. QED
  BY <1>1, <1>2, <1>3 DEF IsTypeOf

(* A call that changes nothing else is judged by its answer.               *)
LEMMA CallMade ==
    ASSUME EnginesInv, UNCHANGED <<device, registry, detected>>,
           startSector' \in Starts \cup {0}, NEW d, d = device, NEW det, det = detected,
           NEW c, last' = c, CallOK(d, det, c)
    PROVE  EnginesInv'
<1>1. EnginesTyped'
  BY DEF EnginesInv, EnginesTyped
<1>2. DetectedRight(device, detected)'
  BY DEF EnginesInv, DetectedRight, IsTypeOf, TypeOf, SectorOf
<1>3. Answered'
  BY DEF Answered
<1>4. QED
  BY <1>1, <1>2, <1>3 DEF EnginesInv

LEMMA DetectStep ==
    ASSUME EnginesInv, NEW start \in Starts, NEW num \in Counts, NEW failing, NEW read,
           Engines!Detect(start, num, failing, read)
    PROVE  EnginesInv'
<1> DEFINE a == Engines!Detector!DetectFilesystems(device, registry, failing, start, num, read)
           open == Engines!Open(failing, {"FILESYSTEM_DETECTION"})
<1>1. PICK d \in Devices : d = device
  BY DEF EnginesInv, EnginesTyped
<1>2. PICK b : b = a
  OBVIOUS
<1>3. b.result \in Results /\ (b.result = "true" => IsTypeOf(b.type, d, start))
  BY <1>1, <1>2, DetectAnswer
<1>4. /\ device' = device /\ registry' = registry /\ startSector' = startSector
      /\ detected' = IF b.result = "true" THEN [sector |-> start, type |-> b.type] ELSE detected
      /\ last' = Engines!Call("detect", start, num, open, read = "ok", b)
  BY <1>2, Zenon DEF Engines!Detect
<1> HIDE DEF a
<1>5. PICK det : det = detected'
  OBVIOUS
<1>6. PICK c : c = last'
  OBVIOUS
<1>7. CallOK(d, det, c)
  <2>1. open \in BOOLEAN /\ (read = "ok") \in BOOLEAN
    BY DEF Engines!Open
  <2> HIDE DEF open
  <2>2. c = Engines!Call("detect", start, num, open, read = "ok", b)
    BY <1>4, <1>6
  <2>3. QED
    BY <1>3, <2>1, <2>2, PlainCall
<1>8. /\ det.sector \in Starts \cup {0} /\ det.type \in Types
      /\ DetectedRight(d, det)
  <2>1. CASE b.result = "true"
    <3>1. IsTypeOf(b.type, d, start) /\ b.type \in Types
      BY <1>3, <2>1, FoundTyped
    <3>2. det.sector = start /\ det.type = b.type
      BY <1>4, <1>5, <2>1
    <3>3. QED
      BY <3>1, <3>2 DEF DetectedRight
  <2>2. CASE b.result # "true"
    BY <1>1, <1>4, <1>5, <2>2 DEF EnginesInv, EnginesTyped
  <2>3. QED
    BY <2>1, <2>2
<1>9. EnginesTyped'
  BY <1>4, <1>5, <1>8 DEF EnginesInv, EnginesTyped
<1>10. DetectedRight(device, detected)'
  BY <1>1, <1>4, <1>5, <1>8 DEF DetectedRight, IsTypeOf, TypeOf, SectorOf
<1>11. Answered'
  BY <1>1, <1>4, <1>5, <1>6, <1>7 DEF Answered
<1>12. QED
  BY <1>9, <1>10, <1>11 DEF EnginesInv

LEMMA AnalyzeStep ==
    ASSUME EnginesInv, NEW start \in Starts, NEW num \in Counts, NEW failing, NEW read, NEW again,
           Engines!Analyze(start, num, failing, read, again)
    PROVE  EnginesInv'
<1> DEFINE open == Engines!Open(failing, {"FILESYSTEM_ANALYSIS"})
           whole == read = "ok" /\ again = "ok"
<1>1. PICK d \in Devices : d = device
  BY DEF EnginesInv, EnginesTyped
<1>2. PICK a : a = Engines!Analyzer!Analysis(device, registry, failing, start, num, read, again, "detected")
  OBVIOUS
<1>3. PICK det : det = detected
  OBVIOUS
<1>4. PICK c : c = Engines!Call("analyze", start, num, open, whole, a)
  OBVIOUS
<1>5. UNCHANGED <<device, registry, detected>> /\ startSector' = start /\ last' = c
  BY <1>2, <1>4, Zenon DEF Engines!Analyze, Engines!Analyzer!AnalyzeFilesystem
<1>6. start \in Sectors /\ num \in Sectors
  BY EnginesAssumption
<1>7. a.result \in Results /\ (BytesFit => AskedReads(d, start, num, a.reads))
  BY <1>1, <1>2, <1>6, AnalysisRight
<1>8. open \in BOOLEAN /\ whole \in BOOLEAN
      /\ (open => Gate(registry, "FILESYSTEM_ANALYSIS", failing))
      /\ (whole => read = "ok" /\ again = "ok")
  BY DEF Engines!Open, Gate
<1> HIDE DEF open, whole
<1>9. ASSUME BytesFit, open, whole, RangeOK(d, start, num), IsTypeOf(det.type, d, start),
             a.result # "trap"
      PROVE  a.type = det.type /\ (a.result = "true" <=> det.type \in Engines!Recoverable)
  BY <1>1, <1>2, <1>6, <1>8, <1>9, AnalysisAgrees
<1>10. DetectedRight(d, det)
  BY <1>1, <1>3 DEF EnginesInv
<1>11. CallOK(d, det, c)
  BY <1>4, <1>6, <1>7, <1>8, <1>9, <1>10, RangeCall
<1>12. QED
  BY <1>1, <1>3, <1>5, <1>11, CallMade

LEMMA InfoStep ==
    ASSUME EnginesInv, NEW start \in Starts, NEW num \in Counts, NEW failing, NEW read, NEW again,
           NEW type, Engines!GetInfo(start, num, failing, read, again, type)
    PROVE  EnginesInv'
<1> DEFINE open == Engines!Open(failing, {"FILESYSTEM_ANALYSIS"})
           whole == read = "ok" /\ again = "ok"
<1>1. PICK d \in Devices : d = device
  BY DEF EnginesInv, EnginesTyped
<1>2. PICK a : a = Engines!Analyzer!Analysis(device, registry, failing, start, num, read, again, type)
  OBVIOUS
<1>3. PICK det : det = detected
  OBVIOUS
<1>4. PICK c : c = Engines!Call("info", start, num, open, whole, a)
  OBVIOUS
<1>5. UNCHANGED <<device, registry, detected>> /\ startSector' = start /\ last' = c
  BY <1>2, <1>4, Zenon DEF Engines!GetInfo, Engines!Analyzer!GetFilesystemInfo
<1>6. start \in Sectors /\ num \in Sectors
  BY EnginesAssumption
<1>7. a.result \in Results /\ (BytesFit => AskedReads(d, start, num, a.reads))
  BY <1>1, <1>2, <1>6, AnalysisRight
<1>8. open \in BOOLEAN /\ whole \in BOOLEAN
  BY DEF Engines!Open
<1> HIDE DEF open, whole
<1>9. DetectedRight(d, det)
  BY <1>1, <1>3 DEF EnginesInv
<1>10. CallOK(d, det, c)
  BY <1>4, <1>6, <1>7, <1>8, <1>9, RangeCall
<1>11. QED
  BY <1>1, <1>3, <1>5, <1>10, CallMade

LEMMA MetadataStep ==
    ASSUME EnginesInv, NEW start \in Starts, NEW num \in Counts, NEW failing, NEW read,
           Engines!RecoverMetadata(start, num, failing, read)
    PROVE  EnginesInv'
<1> DEFINE open == Engines!Open(failing, {"METADATA_RECOVERY"})
           whole == read = "ok"
<1>1. PICK d \in Devices : d = device
  BY DEF EnginesInv, EnginesTyped
<1>2. PICK a : a = MetadataReply(device, registry, failing, start, num, read)
  OBVIOUS
<1>3. PICK det : det = detected
  OBVIOUS
<1>4. PICK c : c = Engines!Call("metadata", start, num, open, whole, a)
  OBVIOUS
<1>5. /\ UNCHANGED <<device, registry, detected>> /\ last' = c
      /\ startSector' \in Starts \cup {0}
  <2>1. Engines!Metadata!RecoverMetadata(device, registry, failing, start, num, read) = a
    BY <1>2, OneMetadata
  <2>2. UNCHANGED <<device, registry, startSector, detected>> /\ last' = c
    BY <1>4, <2>1, Zenon DEF Engines!RecoverMetadata
  <2>3. QED
    BY <2>2 DEF EnginesInv, EnginesTyped
<1>6. start \in Sectors /\ num \in Sectors
  BY EnginesAssumption
<1>7. a.result \in Results /\ AskedReads(d, start, num, a.reads)
  BY <1>1, <1>2, <1>6, MetadataRight
<1>8. open \in BOOLEAN /\ whole \in BOOLEAN
      /\ (open => Gate(registry, "METADATA_RECOVERY", failing)) /\ (whole => read = "ok")
  BY DEF Engines!Open, Gate
<1> HIDE DEF open, whole
<1>9. ASSUME open, whole, RangeOK(d, start, num), IsTypeOf(det.type, d, start)
      PROVE  /\ a.type = det.type
             /\ a.result = "true" <=> det.type \in Engines!Recoverable
             /\ \A p \in a.pieces : p[1] \in Engines!Recoverable => p[1] = det.type
  BY <1>1, <1>2, <1>8, <1>9, MetadataAgrees
<1>10. DetectedRight(d, det)
  BY <1>1, <1>3 DEF EnginesInv
<1>11. CallOK(d, det, c)
  BY <1>4, <1>6, <1>7, <1>8, <1>9, <1>10, RangeCall
<1>12. QED
  BY <1>1, <1>3, <1>5, <1>11, CallMade

LEMMA FilesStep ==
    ASSUME EnginesInv, NEW start \in Starts, NEW num \in Counts, NEW failing, NEW read, NEW again,
           Engines!RecoverFiles(start, num, failing, read, again)
    PROVE  EnginesInv'
<1> DEFINE open == Engines!Open(failing, {"FILE_RECOVERY", "METADATA_RECOVERY"})
           whole == read = "ok" /\ again = "ok"
<1>1. PICK d \in Devices : d = device
  BY DEF EnginesInv, EnginesTyped
<1>2. PICK a : a = Engines!Files!RecoverFiles(device, registry, failing, start, num, read, again)
  OBVIOUS
<1>3. PICK det : det = detected
  OBVIOUS
<1>4. PICK c : c = Engines!Call("files", start, num, open, whole, a)
  OBVIOUS
<1>5. /\ UNCHANGED <<device, registry, detected>> /\ last' = c
      /\ startSector' \in Starts \cup {0}
  <2>1. UNCHANGED <<device, registry, startSector, detected>> /\ last' = c
    BY <1>2, <1>4, Zenon DEF Engines!RecoverFiles
  <2>2. QED
    BY <2>1 DEF EnginesInv, EnginesTyped
<1>6. start \in Sectors /\ num \in Sectors
  BY EnginesAssumption
<1>7. a.result \in Results /\ AskedReads(d, start, num, a.reads)
  BY <1>1, <1>2, <1>6, FilesRight
<1>8. open \in BOOLEAN /\ whole \in BOOLEAN
      /\ (open => /\ Gate(registry, "FILE_RECOVERY", failing)
                  /\ Gate(registry, "METADATA_RECOVERY", failing))
      /\ (whole => read = "ok" /\ again = "ok")
  BY DEF Engines!Open, Gate
<1> HIDE DEF open, whole
<1>9. ASSUME open, whole, RangeOK(d, start, num), IsTypeOf(det.type, d, start)
      PROVE  a.type = det.type /\ (a.result = "true" <=> det.type \in Engines!Recoverable)
  BY <1>1, <1>2, <1>8, <1>9, FilesAgree
<1>10. DetectedRight(d, det)
  BY <1>1, <1>3 DEF EnginesInv
<1>11. CallOK(d, det, c)
  BY <1>4, <1>6, <1>7, <1>8, <1>9, <1>10, RangeCall
<1>12. QED
  BY <1>1, <1>3, <1>5, <1>11, CallMade

LEMMA MetadataTypeStep ==
    ASSUME EnginesInv, NEW start \in Starts, NEW offset \in Offsets, NEW size \in Sizes,
           NEW failing, NEW read, Engines!RecoverMetadataType(start, offset, size, failing, read)
    PROVE  EnginesInv'
<1> DEFINE open == Engines!Open(failing, {"METADATA_RECOVERY"})
           whole == read = "ok"
           at == start * 512 + offset
<1>1. PICK d \in Devices : d = device
  BY DEF EnginesInv, EnginesTyped
<1>2. PICK a : a = Engines!Metadata!RecoverMetadataType(device, registry, failing, start, offset, size, read)
  OBVIOUS
<1>3. PICK det : det = detected
  OBVIOUS
<1>4. PICK c : c = Engines!Call("bytes", at, size, open, whole, a)
  OBVIOUS
<1>5. /\ UNCHANGED <<device, registry, detected>> /\ last' = c
      /\ startSector' \in Starts \cup {0}
  <2>1. UNCHANGED <<device, registry, startSector, detected>> /\ last' = c
    BY <1>2, <1>4, Zenon DEF Engines!RecoverMetadataType
  <2>2. QED
    BY <2>1 DEF EnginesInv, EnginesTyped
<1>6. start \in Sectors /\ offset \in Sectors /\ size \in Sectors
  BY EnginesAssumption
<1>7. /\ a.result \in Results
      /\ (a.result = "true" /\ d.sectorSize = 512 /\ at % 512 = 0 /\ at \div 512 < UInt64)
         => AskedBytes(d, at, size, a)
  BY <1>1, <1>2, <1>6, BytesRight
<1>8. open \in BOOLEAN /\ whole \in BOOLEAN
  BY DEF Engines!Open
<1> HIDE DEF open, whole, at
<1>9. ASSUME a.result = "true",
             "bytes" = "bytes" => d.sectorSize = 512 /\ at % 512 = 0 /\ at \div 512 < UInt64
      PROVE  AskedBytes(d, at, size, a)
  BY <1>7, <1>9, Zenon
<1>10. "bytes" \in {"file", "bytes"}
  OBVIOUS
<1>11. CallOK(d, det, c)
  BY <1>4, <1>7, <1>8, <1>9, <1>10, BytesCall, Zenon
<1>12. QED
  BY <1>1, <1>3, <1>5, <1>11, CallMade

LEMMA FileStep ==
    ASSUME EnginesInv, NEW start \in Starts, NEW size \in Sizes, NEW failing, NEW read,
           NEW survives, Engines!RecoverFile(start, size, failing, read, survives)
    PROVE  EnginesInv'
<1> DEFINE open == Engines!Open(failing, {"FILE_RECOVERY"})
           whole == read = "ok"
<1>1. PICK d \in Devices : d = device
  BY DEF EnginesInv, EnginesTyped
<1>2. PICK a : a = Engines!Files!RecoverFile(device, registry, failing, start, size, read, survives)
  OBVIOUS
<1>3. PICK det : det = detected
  OBVIOUS
<1>4. PICK at : at = start * device.sectorSize
  OBVIOUS
<1>5. PICK c : c = Engines!Call("file", at, size, open, whole, a)
  OBVIOUS
<1>6. /\ UNCHANGED <<device, registry, detected>> /\ last' = c
      /\ startSector' \in Starts \cup {0}
  <2>1. UNCHANGED <<device, registry, startSector, detected>> /\ last' = c
    BY <1>2, <1>4, <1>5, Zenon DEF Engines!RecoverFile
  <2>2. QED
    BY <2>1 DEF EnginesInv, EnginesTyped
<1>7. start \in Sectors /\ size \in Sectors
  BY EnginesAssumption
<1>8. a.result \in Results /\ ((a.result = "true" /\ d.sectorSize >= 512) => AskedBytes(d, at, size, a))
  <2>1. /\ a.result \in Results
        /\ (a.result = "true" /\ d.sectorSize >= 512) => AskedBytes(d, start * d.sectorSize, size, a)
    BY <1>1, <1>2, <1>7, FileRight
  <2>2. QED
    BY <1>1, <1>4, <2>1
<1>9. open \in BOOLEAN /\ whole \in BOOLEAN
  BY DEF Engines!Open
<1> HIDE DEF open, whole
<1>10. CallOK(d, det, c)
  BY <1>5, <1>8, <1>9, BytesCall
<1>11. QED
  BY <1>1, <1>3, <1>6, <1>10, CallMade

LEMMA ExportStep ==
    ASSUME EnginesInv, NEW start, NEW failing, NEW num, NEW sizes,
           Engines!ExportData(start, num, failing, sizes) \/ Engines!ExportDataItem(start, num, failing)
    PROVE  EnginesInv'
<1> DEFINE open == Engines!Open(failing, {"OUTPUT_EXPORT"})
<1>1. PICK d \in Devices : d = device
  BY DEF EnginesInv, EnginesTyped
<1>2. PICK det : det = detected
  OBVIOUS
<1>3. PICK c : c = last'
  OBVIOUS
<1>4. UNCHANGED <<device, registry, startSector, detected>>
  BY DEF Engines!ExportData, Engines!ExportDataItem
<1>5. open \in BOOLEAN /\ TRUE \in BOOLEAN
  BY DEF Engines!Open
<1>6. CASE Engines!ExportData(start, num, failing, sizes)
  <2>1. PICK a : a = Engines!Exporter!ExportData(device, registry, failing, start, num, sizes)
    OBVIOUS
  <2>2. a.result \in Results
    BY <2>1, ExportAnswer
  <2>3. c = Engines!Call("export", start, num, open, TRUE, a)
    BY <1>3, <1>6, <2>1, Zenon DEF Engines!ExportData
  <2> HIDE DEF open
  <2>4. CallOK(d, det, c)
    BY <1>5, <2>2, <2>3, PlainCall
  <2>5. startSector' \in Starts \cup {0}
    BY <1>4 DEF EnginesInv, EnginesTyped
  <2>6. QED
    BY <1>1, <1>2, <1>3, <1>4, <2>4, <2>5, CallMade
<1>7. CASE Engines!ExportDataItem(start, num, failing)
  <2>1. PICK a : a = Engines!Exporter!ExportDataItem(device, registry, failing, start, num)
    OBVIOUS
  <2>2. a.result \in Results
    BY <2>1, ExportAnswer
  <2>3. c = Engines!Call("item", start, 0, open, TRUE, a)
    BY <1>3, <1>7, <2>1, Zenon DEF Engines!ExportDataItem
  <2> HIDE DEF open
  <2>4. CallOK(d, det, c)
    BY <1>5, <2>2, <2>3, PlainCall
  <2>5. startSector' \in Starts \cup {0}
    BY <1>4 DEF EnginesInv, EnginesTyped
  <2>6. QED
    BY <1>1, <1>2, <1>3, <1>4, <2>4, <2>5, CallMade
<1>8. QED
  BY <1>6, <1>7

LEMMA CapabilitiesStep ==
    ASSUME EnginesInv, last = Engines!NoCall, NEW mask \in Masks,
           Engines!Register(mask) \/ Engines!Unregister(mask) \/ Engines!Clear
    PROVE  EnginesInv'
<1>1. UNCHANGED <<device, startSector, detected, last>>
  BY DEF Engines!Register, Engines!Unregister, Engines!Clear
<1>2. registry' \in {registry \cup mask, registry \ mask, {}}
  BY DEF Engines!Register, Engines!Unregister, Engines!Clear, Engines!RegisterCapability,
     Engines!UnregisterCapability, Engines!ClearCapabilities
<1>3. registry' \subseteq Engines!Capabilities
  BY <1>2, EnginesAssumption DEF EnginesInv, EnginesTyped
<1>4. EnginesTyped'
  BY <1>1, <1>3 DEF EnginesInv, EnginesTyped
<1>5. DetectedRight(device, detected)'
  BY <1>1 DEF EnginesInv, DetectedRight, IsTypeOf, TypeOf, SectorOf
<1>6. Answered'
  BY <1>1 DEF Answered, Engines!NoCall
<1>7. QED
  BY <1>4, <1>5, <1>6 DEF EnginesInv

LEMMA TakeAnswerStep ==
    ASSUME EnginesInv, Engines!TakeAnswer
    PROVE  EnginesInv'
<1>1. UNCHANGED <<device, registry, startSector, detected>> /\ last' = Engines!NoCall
  BY DEF Engines!TakeAnswer
<1>2. EnginesTyped'
  BY <1>1 DEF EnginesInv, EnginesTyped
<1>3. DetectedRight(device, detected)'
  BY <1>1 DEF EnginesInv, DetectedRight, IsTypeOf, TypeOf, SectorOf
<1>4. Answered'
  BY <1>1 DEF Answered, Engines!NoCall
<1>5. QED
  BY <1>2, <1>3, <1>4 DEF EnginesInv

LEMMA EnginesIdle ==
    ASSUME EnginesInv, UNCHANGED engineVars
    PROVE  EnginesInv'
<1>1. UNCHANGED <<device, registry, startSector, detected, last>>
  BY DEF engineVars
<1>2. EnginesTyped'
  BY <1>1 DEF EnginesInv, EnginesTyped
<1>3. DetectedRight(device, detected)'
  BY <1>1 DEF EnginesInv, DetectedRight, IsTypeOf, TypeOf, SectorOf
<1>4. PICK d : d = device
  OBVIOUS
<1>5. PICK det : det = detected
  OBVIOUS
<1>6. PICK c : c = last
  OBVIOUS
<1>7. c = Engines!NoCall \/ CallOK(d, det, c)
  BY <1>4, <1>5, <1>6 DEF EnginesInv, Answered
<1>8. Answered'
  BY <1>1, <1>4, <1>5, <1>6, <1>7 DEF Answered, Engines!NoCall
<1>9. QED
  BY <1>2, <1>3, <1>8 DEF EnginesInv

LEMMA EnginesStep ==
    ASSUME EnginesInv, Engines!EnginesNext
    PROVE  EnginesInv'
<1>1. CASE Engines!TakeAnswer
  BY <1>1, TakeAnswerStep
<1>2. CASE ~Engines!TakeAnswer
  <2>1. last = Engines!NoCall
    BY <1>2 DEF Engines!EnginesNext
  <2>2. CASE (\E mask \in Masks : Engines!Register(mask) \/ Engines!Unregister(mask)) \/ Engines!Clear
    <3>1. CASE \E mask \in Masks : Engines!Register(mask) \/ Engines!Unregister(mask)
      BY <2>1, <3>1, CapabilitiesStep
    <3>2. CASE Engines!Clear
      <4>1. UNCHANGED <<device, startSector, detected, last>> /\ registry' = {}
        BY <3>2 DEF Engines!Clear, Engines!ClearCapabilities
      <4>2. EnginesTyped'
        BY <4>1 DEF EnginesInv, EnginesTyped
      <4>3. DetectedRight(device, detected)'
        BY <4>1 DEF EnginesInv, DetectedRight, IsTypeOf, TypeOf, SectorOf
      <4>4. Answered'
        BY <2>1, <4>1 DEF Answered, Engines!NoCall
      <4>5. QED
        BY <4>2, <4>3, <4>4 DEF EnginesInv
    <3>3. QED
      BY <2>2, <3>1, <3>2
  <2>3. CASE \E start \in Starts, failing \in FailingSets, read \in Engines!Reads, num \in Counts :
                \/ Engines!Detect(start, num, failing, read)
                \/ Engines!RecoverMetadata(start, num, failing, read)
    BY <2>3, DetectStep, MetadataStep
  <2>4. CASE \E start \in Starts, failing \in FailingSets, read \in Engines!Reads, num \in Counts,
                again \in Engines!Reads :
                \/ Engines!Analyze(start, num, failing, read, again)
                \/ \E type \in {"FAT16", "NTFS", "other"} :
                      Engines!GetInfo(start, num, failing, read, again, type)
                \/ Engines!RecoverFiles(start, num, failing, read, again)
    BY <2>4, AnalyzeStep, InfoStep, FilesStep
  <2>5. CASE \E start \in Starts, failing \in FailingSets, read \in Engines!Reads, size \in Sizes :
                \/ \E offset \in Offsets : Engines!RecoverMetadataType(start, offset, size, failing, read)
                \/ \E survives \in BOOLEAN : Engines!RecoverFile(start, size, failing, read, survives)
    BY <2>5, MetadataTypeStep, FileStep
  <2>6. CASE \E start \in Starts, failing \in FailingSets :
                \/ \E num \in Counts, sizes \in Exports : Engines!ExportData(start, num, failing, sizes)
                \/ \E size \in Sizes : Engines!ExportDataItem(start, size, failing)
    BY <2>6, ExportStep
  <2>7. QED
    BY <1>2, <2>2, <2>3, <2>4, <2>5, <2>6, Zenon DEF Engines!EnginesNext
<1>3. QED
  BY <1>1, <1>2

LEMMA EnginesInvNext ==
    ASSUME EnginesInv, [Next]_vars
    PROVE  EnginesInv'
<1>1. CASE UNCHANGED engineVars
  BY <1>1, EnginesIdle
<1>2. CASE Engines!EnginesNext
  BY <1>2, EnginesStep
<1>3. QED
  BY <1>1, <1>2 DEF Next, vars

LEMMA EnginesInvInit == Init => EnginesInv
<1> SUFFICES ASSUME Init PROVE EnginesInv
  OBVIOUS
<1>1. device \in Devices
  <2>1. (CHOOSE d \in Devices : TRUE) \in Devices
    BY EnginesAssumption
  <2>2. QED
    BY <2>1 DEF Init
<1>2. detected = [sector |-> 0, type |-> NoType]
  BY Zenon DEF Init, Engines!EnginesInit, NoType
<1>3. registry = {} /\ startSector = 0 /\ last = Engines!NoCall
  BY DEF Init, Engines!EnginesInit
<1>4. detected.sector = 0 /\ detected.type = NoType
  BY <1>2
<1>5. QED
  BY <1>1, <1>3, <1>4 DEF EnginesInv, EnginesTyped, DetectedRight, Answered, Types

LEMMA EnginesAlways == Spec => []EnginesInv
<1>1. EnginesInv /\ [Next]_vars => EnginesInv'
  BY EnginesInvNext
<1>2. QED
  BY <1>1, EnginesInvInit, PTL DEF Spec

(* On disks whose bytes 64 bits can count, no engine reads outside the     *)
(* range it was asked for nor outside the disk, and the bytes it hands out *)
(* as a file or an extent are all on the disk and all read: for disks of   *)
(* any size and contents, ranges of any length and calls in any order      *)
(* (FilesystemAnalyzer.cpp:318-351, FileRecovery.cpp:167-195,              *)
(* MetadataRecovery.cpp:136-189).                                          *)
THEOREM EnginesAlwaysReadWhatIsAsked ==
    ASSUME BytesFit
    PROVE  Spec => []EnginesReadWhatIsAsked
<1>1. EnginesInv => EnginesReadWhatIsAsked
  <2>1. SUFFICES ASSUME EnginesInv PROVE Engines!EnginesReadWhatIsAsked
    BY DEF EnginesReadWhatIsAsked
  <2>2. last.op \notin {"analyze", "info", "metadata", "files", "file", "bytes"}
        \/ ReadsOK(device, last)
    <3>1. Engines!NoCall.op = "none"
      BY DEF Engines!NoCall
    <3>2. QED
      BY <2>1, <3>1 DEF EnginesInv, Answered, CallOK
  <2>3. ASSUME last.op \in {"analyze", "info", "metadata", "files"}, NEW r \in last.answer.reads
        PROVE  /\ r.from >= last.start /\ r.from + r.count <= last.start + last.num
               /\ r.from + r.count <= device.total
    BY <2>2, <2>3 DEF ReadsOK, AskedReads
  <2>4. ASSUME last.op \in {"file", "bytes"}, last.answer.result = "true",
               last.op = "file" => device.sectorSize >= 512,
               last.op = "bytes" => device.sectorSize = 512 /\ last.start % 512 = 0
                                    /\ last.start \div 512 < UInt64
        PROVE  AskedBytes(device, last.start, last.num, last.answer)
    BY <2>2, <2>4 DEF ReadsOK
  <2>5. QED
    BY <2>3, <2>4, Zenon DEF Engines!EnginesReadWhatIsAsked, AskedBytes
<1>2. QED
  BY <1>1, EnginesAlways, PTL

(* The four copies of the detection test never disagree: with the gate     *)
(* open and the reads whole, analysis, metadata and file recovery of a     *)
(* sector succeed exactly for the types they handle of the type detection  *)
(* noted, however long ago and whatever was called in between, and name    *)
(* that type (FilesystemDetector.cpp:110, FilesystemAnalyzer.cpp:398,      *)
(* MetadataRecovery.cpp:279, FileRecovery.cpp:296).                        *)
THEOREM DetectionAlwaysAgrees ==
    ASSUME BytesFit
    PROVE  Spec => []DetectionAgrees
<1>1. EnginesInv => DetectionAgrees
  <2>1. SUFFICES ASSUME EnginesInv PROVE Engines!DetectionAgrees
    BY DEF DetectionAgrees
  <2>2. PICK d : d = device
    OBVIOUS
  <2>3. PICK det : det = detected
    OBVIOUS
  <2>4. PICK c : c = last
    OBVIOUS
  <2>5. c.op \notin {"analyze", "metadata", "files"} \/ AgreesOK(d, det, c)
    <3>1. Engines!NoCall.op = "none"
      BY DEF Engines!NoCall
    <3>2. QED
      BY <2>1, <2>2, <2>3, <2>4, <3>1 DEF EnginesInv, Answered, CallOK
  <2>6. QED
    BY <2>2, <2>3, <2>4, <2>5, Zenon DEF Engines!DetectionAgrees, AgreesOK, NoType
<1>2. QED
  BY <1>1, EnginesAlways, PTL

-----------------------------------------------------------------------------
(* Types.                                                                  *)

ServiceTyped == commands \in Nat /\ service \in 0..commands

LEMMA ServiceTypedStep ==
    ASSUME ServiceTyped, CLI!CLINext
    PROVE  ServiceTyped'
<1>1. ASSUME CLI!NextCommand, service' \in {service, commands'}
      PROVE  ServiceTyped'
  BY <1>1 DEF ServiceTyped, CLI!NextCommand
<1>2. ASSUME NEW start, NEW num, CLI!HandleAnalyze(start, num)
      PROVE  ServiceTyped'
  BY <1>1, <1>2 DEF CLI!HandleAnalyze, CLI!OpenDiskFor
<1>3. ASSUME NEW cap, NEW start, NEW num, CLI!HandleValidate(cap, start, num)
      PROVE  ServiceTyped'
  BY <1>1, <1>3 DEF CLI!HandleValidate
<1>4. ASSUME NEW cap, NEW start, NEW num, NEW confirmed,
             CLI!HandleRecover(cap, start, num, confirmed)
      PROVE  ServiceTyped'
  <2>1. CLI!NextCommand /\ (CLI!OpenDiskFor(commands') \/ UNCHANGED service)
    BY <1>4, Zenon DEF CLI!HandleRecover
  <2>2. QED
    BY <1>1, <2>1 DEF CLI!OpenDiskFor
<1>5. ASSUME NEW id, CLI!HandleCancel(id) \/ CLI!HandleStatus \/ CLI!HandleOther
      PROVE  ServiceTyped'
  BY <1>1, <1>5 DEF CLI!HandleCancel, CLI!HandleStatus, CLI!HandleOther
<1>6. CASE CLI!Exit
  BY <1>6 DEF CLI!Exit, ServiceTyped
<1>7. QED
  BY <1>2, <1>3, <1>4, <1>5, <1>6 DEF CLI!CLINext

LEMMA ServiceTypedNext ==
    ASSUME ServiceTyped, [Next]_vars
    PROVE  ServiceTyped'
<1>1. CASE UNCHANGED cliVars
  BY <1>1 DEF cliVars, ServiceTyped
<1>2. CASE CLI!CLINext
  BY <1>2, ServiceTypedStep
<1>3. QED
  BY <1>1, <1>2 DEF Next, vars

LEMMA TypedInit == Init => ThreadsTyped /\ ServiceTyped
<1> SUFFICES ASSUME Init PROVE ThreadsTyped /\ ServiceTyped
  OBVIOUS
<1>1. ServiceTyped
  <2>1. commands = 0 /\ service = 0
    BY Zenon DEF Init, CLI!CLIInit
  <2>2. QED
    BY <2>1 DEF ServiceTyped
<1>2. /\ pc = [t \in Threads |-> "idle"]
      /\ call = [t \in Threads |-> Services!NoOp]
      /\ dangling = [t \in Threads |-> FALSE]
  BY DEF Init, Services!ServicesInit, Threads
<1>3. Services!NoOp.at \in 0..4
  BY DEF Services!NoOp
<1>4. QED
  BY <1>1, <1>2, <1>3 DEF ThreadsTyped, Places

(* Every variable keeps the shape its class declares, for any number of    *)
(* threads, commands, disks and calls: no engine ends a call in any way    *)
(* but four, a thread that a cancellation left with a dangling token is    *)
(* inside an engine that exists, and the service a command leaves behind   *)
(* is one of an earlier command (RecoveryService.cpp, CLIHandler.cpp).     *)
THEOREM TypeCorrect == Spec => []TypeOK
<1>1. ThreadsTyped /\ [Next]_vars => ThreadsTyped'
  BY ThreadsTypedNext
<1>2. ServiceTyped /\ [Next]_vars => ServiceTyped'
  BY ServiceTypedNext
<1>3. EnginesInv /\ ThreadsTyped /\ ServiceTyped /\ Recorded => TypeOK
  <2>1. SUFFICES ASSUME EnginesInv, ThreadsTyped, ServiceTyped, Recorded PROVE TypeOK
    OBVIOUS
  <2>2. Types = Engines!Recoverable \cup {"FAT", NoType}
    BY DEF Types, Engines!Recoverable
  <2>3. detected.type \in Engines!Recoverable \cup {"FAT", ""}
    <3>1. detected.type \in Engines!Recoverable \cup {"FAT", NoType}
      BY <2>1, <2>2 DEF EnginesInv, EnginesTyped
    <3>2. QED
      BY <3>1, Zenon DEF NoType
  <2>4. /\ device \in Devices
        /\ registry \subseteq Engines!Capabilities
        /\ startSector \in Starts \cup {0} /\ detected.sector \in Starts \cup {0}
        /\ last # Engines!NoCall => last.answer.result \in {"true", "false", "throws", "trap"}
    BY <2>1 DEF EnginesInv, EnginesTyped, Answered, CallOK, Results
  <2>5. \A t \in Services!Threads :
          /\ pc[t] \in {"idle", "register", "range", "check", "make", "run", "convert", "erase", "return"}
          /\ call[t].at \in 0..4
          /\ dangling[t] => pc[t] = "run" /\ call[t].kind \in engines
    BY <2>1 DEF ThreadsTyped, Threads, Places
  <2>6. DOMAIN rows = 1..counter /\ service \in 0..commands
    BY <2>1 DEF Recorded, ServiceTyped
  <2>7. QED
    BY <2>3, <2>4, <2>5, <2>6, Zenon DEF TypeOK
<1>4. Init => ThreadsTyped /\ ServiceTyped
  BY TypedInit
<1>5. QED
  BY <1>1, <1>2, <1>3, <1>4, EnginesAlways, VerdictsAlways, PTL DEF Spec

-----------------------------------------------------------------------------
(* Exports.                                                                *)

(* The lengths to export add up without wrapping: the pieces are in memory *)
(* together.                                                               *)
LengthsFit ==
    \A sizes \in Exports : Engines!Exporter!BytesOf(sizes)[Len(sizes)] < UInt64

LEMMA SumExists ==
    ASSUME NEW s \in Seq(Nat), NEW m \in Nat, m = Len(s)
    PROVE  \E f : f = [i \in 0..m |-> IF i = 0 THEN 0 ELSE f[i - 1] + s[i]]
<1> DEFINE Begun(n) == \E f : f = [i \in 0..n |-> IF i = 0 THEN 0 ELSE f[i - 1] + s[i]]
           T == {n \in Nat : Begun(n)}
<1>1. Begun(0)
  <2>1. PICK f : f = [i \in 0..0 |-> 0]
    OBVIOUS
  <2>2. \A i \in 0..0 : i = 0
    OBVIOUS
  <2>3. f = [i \in 0..0 |-> IF i = 0 THEN 0 ELSE f[i - 1] + s[i]]
    BY <2>1, <2>2
  <2>4. QED
    BY <2>3
<1>2. ASSUME NEW n \in Nat, Begun(n)
      PROVE  Begun(n + 1)
  <2>1. PICK f : f = [i \in 0..n |-> IF i = 0 THEN 0 ELSE f[i - 1] + s[i]]
    BY <1>2
  <2> DEFINE h == [i \in 0..n + 1 |-> IF i <= n THEN f[i] ELSE f[i - 1] + s[i]]
  <2>2. \A i \in 0..n + 1 : i # 0 => i - 1 \in 0..n + 1 /\ i - 1 <= n
    OBVIOUS
  <2>3. \A i \in 0..n + 1 : i # 0 => h[i - 1] = f[i - 1]
    BY <2>2
  <2>4. \A i \in 0..n : f[i] = IF i = 0 THEN 0 ELSE f[i - 1] + s[i]
    BY <2>1, Zenon
  <2>5. \A i \in 0..n + 1 : h[i] = IF i = 0 THEN 0 ELSE h[i - 1] + s[i]
    <3> TAKE i \in 0..n + 1
    <3>1. CASE i <= n
      <4>1. i \in 0..n
        BY <3>1
      <4>2. h[i] = f[i]
        BY <3>1
      <4>3. QED
        BY <2>3, <2>4, <4>1, <4>2, Zenon
    <3>2. CASE ~(i <= n)
      <4>1. i # 0
        BY <3>2
      <4>2. h[i] = f[i - 1] + s[i]
        BY <3>2, Zenon
      <4>3. QED
        BY <2>3, <4>1, <4>2, Zenon
    <3>3. QED
      BY <3>1, <3>2
  <2>6. h = [i \in 0..n + 1 |-> h[i]]
    BY Zenon
  <2> HIDE DEF h
  <2>7. h = [i \in 0..n + 1 |-> IF i = 0 THEN 0 ELSE h[i - 1] + s[i]]
    BY <2>5, <2>6, Zenon
  <2>8. QED
    BY <2>7
<1> HIDE DEF Begun
<1>3. 0 \in T /\ \A n \in Nat : n \in T => n + 1 \in T
  BY <1>1, <1>2
<1>4. m \in T
  <2> HIDE DEF T
  <2>1. QED
    BY <1>3, Induction
<1>5. QED
  BY <1>4 DEF Begun

(* The lengths before a piece and its own are among those of all pieces.   *)
LEMMA LengthsAddUp ==
    ASSUME NEW s \in Seq(Nat), NEW B, B = Engines!Exporter!BytesOf(s)
    PROVE  /\ \A i \in 0..Len(s) : B[i] \in Nat /\ B[i] <= B[Len(s)]
           /\ \A i \in 1..Len(s) : i - 1 \in 0..Len(s) /\ B[i - 1] + s[i] = B[i]
<1>1. PICK m \in Nat : m = Len(s)
  OBVIOUS
<1>2. B = [i \in 0..m |-> IF i = 0 THEN 0 ELSE B[i - 1] + s[i]]
  <2>1. B = CHOOSE f : f = [i \in 0..m |-> IF i = 0 THEN 0 ELSE f[i - 1] + s[i]]
    BY <1>1, Zenon DEF Engines!Exporter!BytesOf
  <2>2. QED
    BY <1>1, <2>1, SumExists, Zenon
<1>3. \A i \in 0..m : B[i] = IF i = 0 THEN 0 ELSE B[i - 1] + s[i]
  BY <1>2, Zenon
<1>4. B[0] = 0
  <2>1. 0 \in 0..m
    OBVIOUS
  <2>2. QED
    BY <1>3, <2>1, Zenon
<1>5. \A i \in 1..m : i \in 0..m /\ i # 0 /\ i - 1 \in 0..m /\ s[i] \in Nat
  BY <1>1
<1>6. \A i \in 1..m : B[i - 1] + s[i] = B[i]
  BY <1>3, <1>5, Zenon
<1> DEFINE T == {n \in Nat : n <= m => B[n] \in Nat /\ \A i \in 0..n : B[i] \in Nat /\ B[i] <= B[n]}
<1>7. 0 \in T
  BY <1>4
<1>8. ASSUME NEW n \in Nat, n \in T
      PROVE  n + 1 \in T
  <2> SUFFICES ASSUME n + 1 <= m
               PROVE  B[n + 1] \in Nat /\ \A i \in 0..n + 1 : B[i] \in Nat /\ B[i] <= B[n + 1]
    OBVIOUS
  <2>1. n + 1 \in 1..m /\ n + 1 - 1 = n
    OBVIOUS
  <2>2. B[n] + s[n + 1] = B[n + 1] /\ s[n + 1] \in Nat
    BY <1>5, <1>6, <2>1
  <2>3. B[n] \in Nat /\ \A i \in 0..n : B[i] \in Nat /\ B[i] <= B[n]
    BY <1>8
  <2>4. B[n + 1] \in Nat /\ B[n] <= B[n + 1]
    BY <2>2, <2>3
  <2>5. ASSUME NEW i \in 0..n + 1
        PROVE  B[i] \in Nat /\ B[i] <= B[n + 1]
    <3>1. CASE i \in 0..n
      <4>1. B[i] \in Nat /\ B[i] <= B[n]
        BY <2>3, <3>1, Zenon
      <4>2. QED
        BY <2>3, <2>4, <4>1
    <3>2. CASE i = n + 1
      BY <2>4, <3>2
    <3>3. QED
      BY <3>1, <3>2
  <2>6. QED
    BY <2>4, <2>5
<1>9. m \in T
  <2> HIDE DEF T
  <2>1. QED
    BY <1>7, <1>8, Induction
<1>10. QED
  BY <1>1, <1>5, <1>6, <1>9

(* A piece starts where the ones before it end, and all end in the total.  *)
LEMMA PieceInTotal ==
    ASSUME LengthsFit, NEW sizes \in Exports
    PROVE  /\ Engines!Exporter!TotalBytesNeeded(sizes) \in Nat
           /\ \A i \in DOMAIN sizes :
                 /\ sizes[i] \in Sectors
                 /\ Engines!Exporter!CurrentOffset(sizes, i) \in Nat
                 /\ Engines!Exporter!CurrentOffset(sizes, i) + sizes[i]
                        <= Engines!Exporter!TotalBytesNeeded(sizes)
<1>1. PICK B : B = Engines!Exporter!BytesOf(sizes)
  OBVIOUS
<1>2. sizes \in Seq(Nat) /\ Len(sizes) \in Nat /\ DOMAIN sizes = 1..Len(sizes)
      /\ \A i \in DOMAIN sizes : sizes[i] \in Nat
  BY EnginesAssumption
<1>3. /\ \A i \in 0..Len(sizes) : B[i] \in Nat /\ B[i] <= B[Len(sizes)]
      /\ \A i \in 1..Len(sizes) : i - 1 \in 0..Len(sizes) /\ B[i - 1] + sizes[i] = B[i]
  BY <1>1, <1>2, LengthsAddUp
<1>4. B[Len(sizes)] < UInt64 /\ UInt64 \in Nat \ {0}
  BY <1>1, ClientsAssumption, Zenon DEF LengthsFit
<1>5. \A i \in 0..Len(sizes) : B[i] \in 0..UInt64 - 1
  BY <1>2, <1>3, <1>4
<1>6. \A i \in 0..Len(sizes) : B[i] % UInt64 = B[i]
  BY <1>4, <1>5, BelowDivisor
<1>7. Len(sizes) \in 0..Len(sizes) /\ \A i \in 1..Len(sizes) : i \in 0..Len(sizes)
  BY <1>2
<1>8. Engines!Exporter!TotalBytesNeeded(sizes) = B[Len(sizes)]
  BY <1>1, <1>6, <1>7, Zenon DEF Engines!Exporter!TotalBytesNeeded
<1>9. \A i \in 1..Len(sizes) : Engines!Exporter!CurrentOffset(sizes, i) = B[i - 1]
  BY <1>1, <1>3, <1>6, Zenon DEF Engines!Exporter!CurrentOffset
<1>10. ASSUME NEW i \in DOMAIN sizes
       PROVE  sizes[i] \in Sectors
  <2>1. i \in 1..Len(sizes) /\ i \in 0..Len(sizes) /\ i - 1 \in 0..Len(sizes)
    BY <1>2
  <2>2. B[i - 1] \in Nat /\ B[i - 1] + sizes[i] = B[i] /\ B[i] \in 0..UInt64 - 1 /\ sizes[i] \in Nat
    BY <1>2, <1>3, <1>5, <2>1
  <2>3. QED
    BY <1>4, <2>2 DEF Sectors
<1>11. QED
  BY <1>2, <1>3, <1>7, <1>8, <1>9, <1>10

(* Rounded down to where it starts and up to how long it is, a piece still *)
(* ends within the whole units that hold it.                               *)
LEMMA StartDownLengthUp ==
    ASSUME NEW off \in Nat, NEW x \in Nat, NEW n \in Nat, NEW b \in Nat \ {0}, off + x <= n * b
    PROVE  off \div b + (x + b - 1) \div b <= n
<1> DEFINE k == off \div b
           r == off % b
           q == (x + b - 1) \div b
           kb == k * b
           nb == n * b
<1>1. k \in Nat /\ r \in Nat /\ off = kb + r /\ kb \in Nat /\ nb \in Nat
  BY Division, Products
<1>2. off + x <= nb
  OBVIOUS
<1>3. q \in Nat /\ \A m \in Nat : x <= m * b => q <= m
  BY Rounding
<1> HIDE DEF k, r, q
<1>4. k <= n
  <2>1. SUFFICES ASSUME n + 1 <= k PROVE FALSE
    BY <1>1
  <2>2. (n + 1) * b <= kb /\ (n + 1) * b = nb + 1 * b
    BY <1>1, <2>1, Products
  <2> HIDE DEF kb, nb
  <2>3. QED
    BY <1>1, <1>2, <2>2
<1>5. (n - k) * b = nb - kb
  BY <1>1, Products
<1> HIDE DEF kb, nb
<1>6. n - k \in Nat /\ x <= (n - k) * b
  BY <1>1, <1>2, <1>4, <1>5
<1>7. q <= n - k
  BY <1>3, <1>6
<1>8. QED
  BY <1>1, <1>3, <1>4, <1>7 DEF k, q

LEMMA PieceFits ==
    ASSUME NEW u \in Nat \ {0}, NEW b \in Nat \ {0}, NEW c \in Nat, b = c + 1,
           NEW off \in Nat, NEW x \in 0 .. u - 1, NEW total \in Nat, NEW num \in Nat,
           off + x <= total, total <= (num * b) % u
    PROVE  /\ off \div b \in Nat /\ ((x + c) % u) \div b \in Nat
           /\ off \div b + ((x + c) % u) \div b <= num
<1> DEFINE all == num * b
           count == ((x + c) % u) \div b
<1>1. all \in Nat
  BY Products
<1>2. all % u <= all
  <2> HIDE DEF all
  <2>1. all \div u \in Nat /\ all % u \in Nat /\ all = (all \div u) * u + (all % u)
    BY <1>1, Division
  <2>2. (all \div u) * u \in Nat
    BY <2>1, Products
  <2>3. QED
    BY <2>1, <2>2
<1>3. off + x <= num * b
  <2> DEFINE rest == all % u
  <2>1. rest \in Nat /\ total <= rest /\ rest <= all
    BY <1>1, <1>2, Division
  <2>2. off + x <= all
    <3> HIDE DEF rest, all
    <3>1. QED
      BY <1>1, <2>1
  <2>3. QED
    BY <2>2
<1>4. off \div b \in Nat
  BY Division
<1>5. count \in Nat
  <2>1. x + c \in Nat
    OBVIOUS
  <2>2. (x + c) % u \in Nat
    BY <2>1, Division
  <2>3. QED
    BY <2>2, Division
<1>6. CASE count = 0
  <2>1. off + 0 <= num * b
    BY <1>1, <1>3
  <2>2. (0 + b - 1) \div b \in Nat /\ off \div b + (0 + b - 1) \div b <= num
    BY <2>1, StartDownLengthUp, Rounding
  <2> HIDE DEF count
  <2>3. off \div b <= num
    BY <1>4, <2>2
  <2>4. off \div b + count <= num
    BY <1>4, <1>6, <2>3
  <2>5. QED
    BY <1>4, <1>5, <2>4 DEF count
<1>7. CASE count # 0
  <2>1. count = (x + b - 1) \div b
    BY <1>7, CountedSectors
  <2>2. off \div b + (x + b - 1) \div b <= num
    BY <1>3, StartDownLengthUp
  <2> HIDE DEF count
  <2>3. off \div b + count <= num
    BY <2>1, <2>2
  <2>4. QED
    BY <1>4, <1>5, <2>3 DEF count
<1>8. QED
  BY <1>6, <1>7

WritesInside(start, num, writes) ==
    \A i \in DOMAIN writes : writes[i].from + writes[i].count <= start + num

LEMMA ExportWrites ==
    ASSUME LengthsFit, NEW d, NEW reg, NEW failing, NEW start \in Sectors, NEW num \in Sectors,
           NEW sizes \in Exports, NEW a,
           a = Engines!Exporter!ExportData(d, reg, failing, start, num, sizes)
    PROVE  WritesInside(start, num, a.writes)
<1> DEFINE unit == 512
           total == Engines!Exporter!TotalBytesNeeded(sizes)
           offset(i) == Engines!Exporter!CurrentOffset(sizes, i)
           count(i) == Engines!Exporter!CalculateRequiredSectors(sizes[i])
           Piece(i) == [from |-> start + offset(i) \div unit, count |-> count(i)]
           pieces == [i \in 1..Len(sizes) |-> Piece(i)]
<1>1. \/ a = [result |-> "false", writes |-> <<>>]
      \/ /\ ~(total > (num * unit) % UInt64)
         /\ a = [result |-> "true", writes |-> pieces]
  <2>1. a = IF \/ ~Engines!Exporter!ValidationPassed(Engines!Exporter!ValidateOperation(reg, {"OUTPUT_EXPORT"}, failing))
               \/ ~d.present
               \/ ~Engines!Exporter!IsSectorRangeValid(start, num)
               \/ total > (num * unit) % UInt64
            THEN [result |-> "false", writes |-> <<>>]
            ELSE [result |-> "true", writes |-> pieces]
    BY Zenon DEF Engines!Exporter!ExportData
  <2> HIDE DEF total, pieces, unit
  <2>2. QED
    BY <2>1, Zenon
<1>2. CASE a = [result |-> "false", writes |-> <<>>]
  <2>1. a.writes = <<>> /\ DOMAIN <<>> = 1..0
    BY <1>2
  <2>2. QED
    BY <2>1 DEF WritesInside
<1>3. ASSUME ~(total > (num * unit) % UInt64), a = [result |-> "true", writes |-> pieces]
      PROVE  WritesInside(start, num, a.writes)
  <2>1. a.writes = pieces
    <3> HIDE DEF pieces
    <3>1. QED
      BY <1>3
  <2>2. sizes \in Seq(Nat) /\ DOMAIN sizes = 1..Len(sizes)
    BY EnginesAssumption
  <2>3. unit \in Nat \ {0} /\ unit = 511 + 1 /\ UInt64 \in Nat \ {0} /\ num \in Nat /\ start \in Nat
    BY ClientsAssumption DEF Sectors
  <2>4. total \in Nat
    BY PieceInTotal
  <2>5. \A i : count(i) = ((sizes[i] + 511) % UInt64) \div unit
    BY Zenon DEF Engines!Exporter!CalculateRequiredSectors
  <2> HIDE DEF unit
  <2>6. total <= (num * unit) % UInt64
    <3>1. (num * unit) \in Nat
      BY <2>3, Products
    <3>2. (num * unit) % UInt64 \in Nat
      BY <2>3, <3>1, Division
    <3> HIDE DEF total
    <3>3. QED
      BY <1>3, <2>4, <3>2
  <2>7. ASSUME NEW i \in DOMAIN sizes
        PROVE  Piece(i).from + Piece(i).count <= start + num
    <3>1. PICK off \in Nat : off = offset(i)
      BY PieceInTotal
    <3>2. PICK x \in 0 .. UInt64 - 1 : x = sizes[i]
      BY PieceInTotal DEF Sectors
    <3>3. off + x <= total
      BY <3>1, <3>2, PieceInTotal
    <3>4. /\ off \div unit \in Nat /\ ((x + 511) % UInt64) \div unit \in Nat
          /\ off \div unit + ((x + 511) % UInt64) \div unit <= num
      <4> HIDE DEF total
      <4>1. QED
        BY <2>3, <2>4, <2>6, <3>3, PieceFits
    <3>5. count(i) = ((x + 511) % UInt64) \div unit
      BY <2>5, <3>2
    <3>6. Piece(i).from = start + off \div unit /\ Piece(i).count = count(i)
      <4> HIDE DEF count, offset
      <4>1. QED
        BY <3>1
    <3> HIDE DEF Piece, count
    <3>7. QED
      BY <2>3, <3>4, <3>5, <3>6
  <2>8. DOMAIN pieces = DOMAIN sizes /\ \A i \in DOMAIN sizes : pieces[i] = Piece(i)
    <3> HIDE DEF Piece
    <3>1. QED
      BY <2>2
  <2> HIDE DEF pieces, Piece
  <2>9. QED
    BY <2>1, <2>7, <2>8 DEF WritesInside
<1> HIDE DEF pieces, total
<1>4. QED
  BY <1>1, <1>2, <1>3

(* Every call but exportData answers for another operation.                *)
CallOf(op) ==
    \E start, num, open, whole, a : last' = Engines!Call(op, start, num, open, whole, a)

LEMMA CallIsCallOf ==
    ASSUME NEW op, NEW start, NEW num, NEW open, NEW whole, NEW a,
           last' = Engines!Call(op, start, num, open, whole, a)
    PROVE  CallOf(op)
  BY Zenon DEF CallOf

LEMMA OtherCalls ==
    ASSUME Engines!EnginesNext,
           ~ \E start \in Starts, failing \in FailingSets, num \in Counts, sizes \in Exports :
                 Engines!ExportData(start, num, failing, sizes)
    PROVE  \/ last' = Engines!NoCall
           \/ UNCHANGED last
           \/ \E op : op # "export" /\ CallOf(op)
<1> DEFINE others == {"detect", "metadata", "analyze", "info", "files", "bytes", "file", "item"}
<1>1. \A op \in others : op # "export"
  OBVIOUS
<1>2. ASSUME NEW start, NEW num, NEW failing, NEW read, Engines!Detect(start, num, failing, read)
      PROVE  CallOf("detect")
  <2>1. last' = Engines!Call("detect", start, num, Engines!Open(failing, {"FILESYSTEM_DETECTION"}), read = "ok",
          Engines!Detector!DetectFilesystems(device, registry, failing, start, num, read))
    BY <1>2, Zenon DEF Engines!Detect
  <2>2. QED
    BY <2>1, CallIsCallOf, Zenon
<1>3. ASSUME NEW start, NEW num, NEW failing, NEW read, Engines!RecoverMetadata(start, num, failing, read)
      PROVE  CallOf("metadata")
  <2>1. last' = Engines!Call("metadata", start, num, Engines!Open(failing, {"METADATA_RECOVERY"}), read = "ok",
          Engines!Metadata!RecoverMetadata(device, registry, failing, start, num, read))
    BY <1>3, Zenon DEF Engines!RecoverMetadata
  <2>2. QED
    BY <2>1, CallIsCallOf, Zenon
<1>4. ASSUME NEW start, NEW num, NEW failing, NEW read, NEW survives,
             Engines!RecoverFile(start, num, failing, read, survives)
      PROVE  CallOf("file")
  <2>1. last' = Engines!Call("file", start * device.sectorSize, num, Engines!Open(failing, {"FILE_RECOVERY"}), read = "ok",
          Engines!Files!RecoverFile(device, registry, failing, start, num, read, survives))
    BY <1>4, Zenon DEF Engines!RecoverFile
  <2>2. QED
    BY <2>1, CallIsCallOf, Zenon
<1>5. ASSUME NEW start, NEW num, NEW failing, Engines!ExportDataItem(start, num, failing)
      PROVE  CallOf("item")
  <2>1. last' = Engines!Call("item", start, 0, Engines!Open(failing, {"OUTPUT_EXPORT"}), TRUE,
          Engines!Exporter!ExportDataItem(device, registry, failing, start, num))
    BY <1>5, Zenon DEF Engines!ExportDataItem
  <2>2. QED
    BY <2>1, CallIsCallOf, Zenon
<1>6. ASSUME NEW start, NEW num, NEW failing, NEW read, NEW again, Engines!Analyze(start, num, failing, read, again)
      PROVE  CallOf("analyze")
  <2>1. last' = Engines!Call("analyze", start, num, Engines!Open(failing, {"FILESYSTEM_ANALYSIS"}), read = "ok" /\ again = "ok",
          Engines!Analyzer!AnalyzeFilesystem(device, registry, failing, startSector', num, read, again))
    BY <1>6, Zenon DEF Engines!Analyze
  <2>2. QED
    BY <2>1, CallIsCallOf, Zenon
<1>7. ASSUME NEW start, NEW num, NEW failing, NEW read, NEW again, Engines!RecoverFiles(start, num, failing, read, again)
      PROVE  CallOf("files")
  <2>1. last' = Engines!Call("files", start, num, Engines!Open(failing, {"FILE_RECOVERY", "METADATA_RECOVERY"}),
          read = "ok" /\ again = "ok",
          Engines!Files!RecoverFiles(device, registry, failing, start, num, read, again))
    BY <1>7, Zenon DEF Engines!RecoverFiles
  <2>2. QED
    BY <2>1, CallIsCallOf, Zenon
<1>8. ASSUME NEW start, NEW num, NEW failing, NEW read, NEW again, NEW type, Engines!GetInfo(start, num, failing, read, again, type)
      PROVE  CallOf("info")
  <2>1. last' = Engines!Call("info", start, num, Engines!Open(failing, {"FILESYSTEM_ANALYSIS"}), read = "ok" /\ again = "ok",
          Engines!Analyzer!GetFilesystemInfo(device, registry, failing, startSector', num, read, again, type))
    BY <1>8, Zenon DEF Engines!GetInfo
  <2>2. QED
    BY <2>1, CallIsCallOf, Zenon
<1>9. ASSUME NEW start, NEW offset, NEW num, NEW failing, NEW read, Engines!RecoverMetadataType(start, offset, num, failing, read)
      PROVE  CallOf("bytes")
  <2>1. PICK at : at = start * 512 + offset
    OBVIOUS
  <2>2. last' = Engines!Call("bytes", at, num, Engines!Open(failing, {"METADATA_RECOVERY"}), read = "ok",
          Engines!Metadata!RecoverMetadataType(device, registry, failing, start, offset, num, read))
    BY <1>9, <2>1, Zenon DEF Engines!RecoverMetadataType
  <2>3. QED
    BY <2>2, CallIsCallOf, Zenon
<1>10. ASSUME NEW mask, Engines!Register(mask) \/ Engines!Unregister(mask) \/ Engines!Clear
       PROVE  UNCHANGED last
  BY <1>10 DEF Engines!Register, Engines!Unregister, Engines!Clear
<1>11. Engines!TakeAnswer => last' = Engines!NoCall
  BY DEF Engines!TakeAnswer
<1>12. SUFFICES ASSUME ~Engines!TakeAnswer, last' # last
       PROVE  \E op \in others : CallOf(op)
  BY <1>1, <1>11
<1>13. CASE \E start \in Starts, failing \in FailingSets, read \in Engines!Reads, num \in Counts :
                \/ Engines!Detect(start, num, failing, read)
                \/ Engines!RecoverMetadata(start, num, failing, read)
  BY <1>2, <1>3, <1>13
<1>14. CASE \E start \in Starts, failing \in FailingSets, read \in Engines!Reads, num \in Counts,
                again \in Engines!Reads :
                \/ Engines!Analyze(start, num, failing, read, again)
                \/ \E type \in {"FAT16", "NTFS", "other"} :
                      Engines!GetInfo(start, num, failing, read, again, type)
                \/ Engines!RecoverFiles(start, num, failing, read, again)
  BY <1>6, <1>7, <1>8, <1>14
<1>15. CASE \E start \in Starts, failing \in FailingSets, read \in Engines!Reads, size \in Sizes :
                \/ \E offset \in Offsets : Engines!RecoverMetadataType(start, offset, size, failing, read)
                \/ \E survives \in BOOLEAN : Engines!RecoverFile(start, size, failing, read, survives)
  BY <1>4, <1>9, <1>15
<1>16. CASE \E start \in Starts, failing \in FailingSets, size \in Sizes :
                Engines!ExportDataItem(start, size, failing)
  BY <1>5, <1>16
<1>17. QED
  BY <1>10, <1>12, <1>13, <1>14, <1>15, <1>16, Zenon DEF Engines!EnginesNext

LEMMA ExportNext ==
    ASSUME LengthsFit, Engines!ExportFits, [Next]_vars
    PROVE  Engines!ExportFits'
<1>1. CASE UNCHANGED last
  <2>1. PICK c : c = last
    OBVIOUS
  <2>2. c.op = "export" => WritesInside(c.start, c.num, c.answer.writes)
    BY <2>1 DEF Engines!ExportFits, WritesInside
  <2>3. last' = c
    BY <1>1, <2>1
  <2>4. QED
    BY <2>2, <2>3 DEF Engines!ExportFits, WritesInside
<1>2. ASSUME NEW start \in Starts, NEW failing, NEW num \in Counts, NEW sizes \in Exports,
             Engines!ExportData(start, num, failing, sizes)
      PROVE  Engines!ExportFits'
  <2>1. PICK a : a = Engines!Exporter!ExportData(device, registry, failing, start, num, sizes)
    OBVIOUS
  <2>2. start \in Sectors /\ num \in Sectors
    BY EnginesAssumption
  <2>3. WritesInside(start, num, a.writes)
    BY <2>1, <2>2, ExportWrites
  <2>4. PICK open \in BOOLEAN : last' = Engines!Call("export", start, num, open, TRUE, a)
    <3> DEFINE open == Engines!Open(failing, {"OUTPUT_EXPORT"})
    <3>1. open \in BOOLEAN
      BY DEF Engines!Open
    <3>2. last' = Engines!Call("export", start, num, open, TRUE, a)
      BY <1>2, <2>1, Zenon DEF Engines!ExportData
    <3> HIDE DEF open
    <3>3. QED
      BY <3>1, <3>2
  <2>5. last'.start = start /\ last'.num = num /\ last'.answer = a
    BY <2>4 DEF Engines!Call
  <2>6. QED
    BY <2>3, <2>5, Zenon DEF Engines!ExportFits, WritesInside
<1>3. ASSUME last' = Engines!NoCall
      PROVE  Engines!ExportFits'
  BY <1>3 DEF Engines!ExportFits, Engines!NoCall
<1>4. ASSUME NEW op, NEW start, NEW num, NEW open, NEW whole, NEW a, op # "export",
             last' = Engines!Call(op, start, num, open, whole, a)
      PROVE  Engines!ExportFits'
  <2>1. last'.op = op
    BY <1>4 DEF Engines!Call
  <2>2. QED
    BY <1>4, <2>1 DEF Engines!ExportFits
<1>5. CASE Engines!EnginesNext
  <2>1. CASE \E start \in Starts, failing \in FailingSets, num \in Counts, sizes \in Exports :
                 Engines!ExportData(start, num, failing, sizes)
    BY <1>2, <2>1
  <2>2. CASE ~ \E start \in Starts, failing \in FailingSets, num \in Counts, sizes \in Exports :
                 Engines!ExportData(start, num, failing, sizes)
    <3>1. \/ last' = Engines!NoCall
          \/ UNCHANGED last
          \/ \E op : op # "export" /\ CallOf(op)
      BY <1>5, <2>2, OtherCalls
    <3>2. QED
      BY <1>1, <1>3, <1>4, <3>1 DEF CallOf
  <2>3. QED
    BY <2>1, <2>2
<1>6. QED
  BY <1>1, <1>5 DEF Next, vars, engineVars

(* Whatever the lengths and however they straddle sectors, what is         *)
(* exported stays inside the output range, although space is checked in    *)
(* bytes and written in whole sectors (OutputExporter.cpp:56-87).          *)
THEOREM ExportAlwaysFits ==
    ASSUME LengthsFit
    PROVE  Spec => []ExportFits
<1>1. Init => Engines!ExportFits
  <2>1. Init => last = Engines!NoCall
    BY Zenon DEF Init, Engines!EnginesInit
  <2>2. QED
    BY <2>1 DEF Engines!ExportFits, Engines!NoCall
<1>2. Engines!ExportFits /\ [Next]_vars => Engines!ExportFits'
  BY ExportNext
<1>3. QED
  BY <1>1, <1>2, PTL DEF Spec, ExportFits

=============================================================================
