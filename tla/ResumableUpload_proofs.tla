----------------------- MODULE ResumableUpload_proofs ------------------------
(* Proofs about ResumableUpload, for any file size, any number of uploads   *)
(* and every order of calls, imports and answers.                           *)
EXTENDS ResumableUpload, FiniteSetTheorems, TLAPS

USE DEF ShouldProceed, Retained, StartIgnored, Failed, options

(* At most the upload tus points to runs, only while the handle says so,    *)
(* and an import that is pending has no upload beside it.                   *)
Launched ==
    /\ Running \subseteq {tus}
    /\ state # "uploading" => Running = {}
    /\ imports > 0 => Running = {} /\ state # "success"
    /\ imports <= 1

(* ... unless the consumer has begun again during an import.                *)
UploadInv ==
    /\ TypeOK
    /\ injected => imports = 0
    /\ ~overlapped => Launched

LEMMA UnbornBound == Cardinality({u \in Uploads : ~Born(u)}) \in 0..Cardinality(Uploads)
  BY FS_Subset, FS_CardinalityType, UploadAssumption

(* Begin and Loaded make an upload by the same constructor.                 *)
LEMMA InstantiateType ==
    ASSUME TypeOK, Instantiate
    PROVE  /\ tus' \in Uploads \cup {NoUpload}
           /\ transfer' \in [Uploads ->
                  {"unborn", "running", "paused", "aborted", "done", "failed"}]
           /\ offset' \in [Uploads -> 0..Size]
           /\ thrown' \in BOOLEAN
<1>1. StartOffset \in 0..Size
  BY UploadAssumption DEF TypeOK, StartOffset
<1>2. CASE thrown' = TRUE /\ UNCHANGED <<tus, transfer, offset>>
  BY <1>2 DEF TypeOK
<1>3. CASE \E u \in Uploads :
               /\ ~Born(u)
               /\ tus' = u
               /\ transfer' = [transfer EXCEPT ![u] = "running"]
               /\ offset' = [offset EXCEPT ![u] = StartOffset]
               /\ thrown' = FALSE
  BY <1>1, <1>3 DEF TypeOK
<1> QED
  BY <1>2, <1>3 DEF Instantiate

LEMMA InstantiateRuns ==
    ASSUME TypeOK, Instantiate, Running = {}
    PROVE  Running' \subseteq {tus'}
<1>1. CASE thrown' = TRUE /\ UNCHANGED <<tus, transfer, offset>>
  BY <1>1 DEF Running
<1>2. CASE \E u \in Uploads :
               /\ ~Born(u)
               /\ tus' = u
               /\ transfer' = [transfer EXCEPT ![u] = "running"]
               /\ offset' = [offset EXCEPT ![u] = StartOffset]
               /\ thrown' = FALSE
  BY <1>2 DEF Running, TypeOK
<1> QED
  BY <1>1, <1>2 DEF Instantiate

LEMMA BeginType ==
    ASSUME TypeOK, Begin
    PROVE  TypeOK'
<1>1. imports' \in 0..Cardinality(Uploads)
  <2> DEFINE unborn == Cardinality({u \in Uploads : ~Born(u)})
             all == Cardinality(Uploads)
  <2>1. all \in Nat /\ unborn \in 0..all
    BY UnbornBound, FS_CardinalityType, UploadAssumption
  <2>2. imports \in 0..all /\ unborn > imports /\ imports' \in {imports, imports + 1}
    BY DEF TypeOK, Begin
  <2> HIDE DEF unborn, all
  <2>3. imports' \in 0..all
    BY <2>1, <2>2
  <2> QED
    BY <2>3 DEF all
<1>0. overlapped' \in BOOLEAN /\ injected' \in BOOLEAN /\ uploadUrl' \in BOOLEAN
  BY DEF TypeOK, Begin
<1>2. CASE injected
  BY <1>0, <1>1, <1>2, InstantiateType DEF TypeOK, Begin
<1>3. CASE ~injected
  BY <1>0, <1>1, <1>3 DEF TypeOK, Begin
<1> QED
  BY <1>2, <1>3

LEMMA TypeStep ==
    ASSUME TypeOK, [Next]_vars
    PROVE  TypeOK'
<1> USE UploadAssumption
<1>1. CASE Start
  BY <1>1, BeginType DEF Start
<1>2. CASE Resume
  BY <1>2, BeginType DEF Resume
<1>3. CASE Pause
  BY <1>3 DEF Pause, Abandon, TypeOK
<1>4. CASE \E terminate \in BOOLEAN : Abort(terminate)
  <2>1. stored' \in 0..Size
    BY <1>4 DEF Abort, Terminated, TypeOK
  <2> QED
    BY <1>4, <2>1 DEF Abort, Abandon, TypeOK
<1>5. CASE Loaded
  <2>1. imports' \in 0..Cardinality(Uploads)
    BY <1>5, FS_CardinalityType DEF Loaded, TypeOK
  <2>2. CASE state = "uploading"
    BY <1>5, <2>1, <2>2, InstantiateType DEF Loaded, TypeOK
  <2>3. CASE state # "uploading"
    BY <1>5, <2>1, <2>3 DEF Loaded, TypeOK
  <2> QED
    BY <2>2, <2>3
<1>6. CASE LoadFails
  <2>1. imports' \in 0..Cardinality(Uploads)
    BY <1>6, FS_CardinalityType DEF LoadFails, TypeOK
  <2> QED
    BY <1>6, <2>1 DEF LoadFails, TypeOK
<1>7. ASSUME NEW u \in Uploads, Accept(u) PROVE TypeOK'
  <2>1. offset[u] + 1 \in 0..Size /\ stored' \in 0..Size
    BY <1>7 DEF Accept, TypeOK
  <2> QED
    BY <1>7, <2>1 DEF Accept, TypeOK
<1>8. ASSUME NEW u \in Uploads, Succeed(u) \/ Fail(u) PROVE TypeOK'
  BY <1>8 DEF Succeed, Fail, TypeOK
<1>9. CASE UNCHANGED vars
  BY <1>9 DEF vars, TypeOK
<1> QED
  BY <1>1, <1>2, <1>3, <1>4, <1>5, <1>6, <1>7, <1>8, <1>9 DEF Next

(* A begin that does not overlap another.                                   *)
LEMMA BeginLaunches ==
    ASSUME UploadInv, Begin, state \notin {"uploading", "success"}, ~overlapped'
    PROVE  Launched'
<1>1. imports \in Nat /\ imports = 0 /\ ~overlapped
  BY DEF UploadInv, TypeOK, Begin
<1>2. Running = {}
  BY <1>1 DEF UploadInv, Launched
<1>3. CASE injected
  <2>1. imports' = 0
    BY <1>1, <1>3 DEF Begin
  <2>2. Running' \subseteq {tus'}
    BY <1>2, <1>3, InstantiateRuns DEF Begin, UploadInv
  <2> QED
    BY <2>1, <2>2 DEF Begin, Launched
<1>4. CASE ~injected
  <2>1. imports' = 1
    BY <1>1, <1>4 DEF Begin
  <2>2. Running' = {}
    BY <1>2, <1>4 DEF Begin, Running
  <2> QED
    BY <2>1, <2>2 DEF Begin, Launched
<1> QED
  BY <1>3, <1>4

(* pause() and abort() reach what runs: nothing but tus does.               *)
LEMMA AbandonStopsAll ==
    ASSUME TypeOK, Launched, NEW how, how # "running", Abandon(how)
    PROVE  Running' = {}
  BY DEF TypeOK, Launched, Abandon, Running

LEMMA LaunchedStep ==
    ASSUME UploadInv, [Next]_vars, ~overlapped'
    PROVE  Launched'
<1>1. CASE Start
  BY <1>1, BeginLaunches DEF Start
<1>2. CASE Resume
  BY <1>2, BeginLaunches DEF Resume
<1>0. ASSUME ~(Start \/ Resume)
      PROVE  TypeOK /\ Launched /\ imports \in Nat
  BY <1>0 DEF UploadInv, TypeOK, Next, Pause, Abort, Loaded, LoadFails, Accept, Succeed,
              Fail, vars
<1>3. CASE Pause /\ ~(Start \/ Resume)
  <2>1. Running' = {} /\ imports' = imports /\ state' = "paused"
    BY <1>0, <1>3, AbandonStopsAll DEF Pause
  <2> QED
    BY <1>0, <1>3, <2>1 DEF Launched
<1>4. CASE (\E terminate \in BOOLEAN : Abort(terminate)) /\ ~(Start \/ Resume)
  <2>1. Running' = {} /\ imports' = imports /\ state' = "aborted"
    BY <1>0, <1>4, AbandonStopsAll DEF Abort
  <2> QED
    BY <1>0, <1>4, <2>1 DEF Launched
<1>5. CASE Loaded /\ ~(Start \/ Resume)
  <2>1. imports' = 0 /\ Running = {} /\ state' = state /\ state # "success"
    BY <1>0, <1>5 DEF Loaded, Launched
  <2>2. CASE state = "uploading"
    BY <1>0, <1>5, <2>1, <2>2, InstantiateRuns DEF Loaded, Launched
  <2>3. CASE state # "uploading"
    BY <1>0, <1>5, <2>1, <2>3 DEF Loaded, Launched, Running
  <2> QED
    BY <2>2, <2>3
<1>6. CASE LoadFails /\ ~(Start \/ Resume)
  BY <1>0, <1>6 DEF LoadFails, Launched, Running
<1>7. ASSUME NEW u \in Uploads, Accept(u), ~(Start \/ Resume) PROVE Launched'
  BY <1>0, <1>7 DEF Accept, Launched, Running
<1>8. ASSUME NEW u \in Uploads, Succeed(u) \/ Fail(u), ~(Start \/ Resume) PROVE Launched'
  <2>1. u \in Running /\ Running = {u} /\ imports = 0
    BY <1>0, <1>8 DEF Succeed, Fail, Launched, Running
  <2>2. Running' = {} /\ imports' = 0
    BY <1>0, <1>8, <2>1 DEF Succeed, Fail, Running, TypeOK
  <2> QED
    BY <2>2 DEF Launched
<1>9. CASE UNCHANGED vars /\ ~(Start \/ Resume)
  BY <1>0, <1>9 DEF vars, Launched, Running
<1> QED
  BY <1>1, <1>2, <1>3, <1>4, <1>5, <1>6, <1>7, <1>8, <1>9 DEF Next

(* With a constructor at hand there is nothing to import.                   *)
LEMMA ImportsStep ==
    ASSUME TypeOK, injected => imports = 0, [Next]_vars
    PROVE  injected' => imports' = 0
<1> SUFFICES ASSUME injected' PROVE imports' = 0
  OBVIOUS
<1>1. injected' = injected
  BY DEF Next, Start, Resume, Begin, Pause, Abort, Loaded, LoadFails, Accept, Succeed,
         Fail, vars
<1>2. injected /\ imports = 0
  BY <1>1
<1>3. CASE Start \/ Resume
  BY <1>2, <1>3 DEF Start, Resume, Begin
<1>4. CASE ~(Start \/ Resume)
  BY <1>2, <1>4 DEF Next, Pause, Abort, Loaded, LoadFails, Accept, Succeed, Fail, vars
<1> QED
  BY <1>3, <1>4

LEMMA InitEstablishes == Init => UploadInv
<1> SUFFICES ASSUME Init PROVE UploadInv
  OBVIOUS
<1>1. TypeOK
  <2>1. overlapped \in BOOLEAN /\ thrown \in BOOLEAN
    BY Zenon DEF Init
  <2>2. Cardinality(Uploads) \in Nat
    BY FS_CardinalityType, UploadAssumption
  <2>3. /\ transfer \in [Uploads -> {"unborn", "running", "paused", "aborted", "done", "failed"}]
        /\ offset \in [Uploads -> 0..Size]
    BY UploadAssumption DEF Init
  <2> QED
    BY <2>1, <2>2, <2>3, UploadAssumption DEF Init, TypeOK
<1>2. Running = {}
  BY DEF Init, Running
<1> QED
  BY <1>1, <1>2 DEF Init, UploadInv, Launched

LEMMA UploadInvCorrect == Spec => []UploadInv
<1>1. UploadInv /\ [Next]_vars => UploadInv'
  <2> SUFFICES ASSUME UploadInv, [Next]_vars PROVE UploadInv'
    OBVIOUS
  <2>1. TypeOK' /\ (injected' => imports' = 0)
    BY TypeStep, ImportsStep DEF UploadInv
  <2>2. ~overlapped' => Launched'
    BY LaunchedStep
  <2> QED
    BY <2>1, <2>2 DEF UploadInv
<1> QED
  BY <1>1, InitEstablishes, PTL DEF Spec

(* Every variable keeps its type, whatever the consumer and tus do.         *)
THEOREM TypeCorrect == Spec => []TypeOK
<1>1. Init => TypeOK
  BY InitEstablishes DEF UploadInv
<1>2. TypeOK /\ [Next]_vars => TypeOK'
  BY TypeStep
<1> QED
  BY <1>1, <1>2, PTL DEF Spec

(* start() and resume() never make a second upload beside one that runs.    *)
THEOREM OneTransferCorrect == Spec => []OneTransfer
<1>1. UploadInv => OneTransfer
  <2> SUFFICES ASSUME UploadInv, ~overlapped PROVE OneTransfer
    BY DEF OneTransfer
  <2>1. IsFiniteSet({tus}) /\ Cardinality({tus}) = 1
    BY FS_Singleton
  <2>2. Cardinality(Running) \in Nat /\ Cardinality(Running) <= 1
    BY <2>1, FS_Subset, FS_CardinalityType DEF UploadInv, Launched
  <2> QED
    BY <2>2 DEF OneTransfer
<1> QED
  BY <1>1, UploadInvCorrect, PTL

(* A paused or aborted handle sends nothing.                                *)
THEOREM PauseStopsTransferCorrect == Spec => []PauseStopsTransfer
<1>1. UploadInv => PauseStopsTransfer
  BY DEF UploadInv, Launched, PauseStopsTransfer
<1> QED
  BY <1>1, UploadInvCorrect, PTL

(* Nothing that happens after success takes it back.                        *)
THEOREM SuccessIsFinalCorrect == Spec => SuccessIsFinal
<1>1. UploadInv /\ [Next]_vars => [~overlapped /\ state = "success" => state' = "success"]_vars
  <2> SUFFICES ASSUME UploadInv, Next, ~overlapped, state = "success"
               PROVE  state' = "success"
    BY DEF vars
  <2>1. Running = {} /\ ~(imports > 0)
    BY DEF UploadInv, Launched
  <2> QED
    BY <2>1 DEF Next, Start, Pause, Resume, Abort, Loaded, LoadFails, Accept, Succeed,
                Fail, Running
<1> QED
  BY <1>1, UploadInvCorrect, PTL DEF Spec, SuccessIsFinal

(* Unless a constructor has thrown, a handle that says it is uploading waits *)
(* for an upload or for an import, even if the consumer begins again during *)
(* an import.                                                               *)
THEOREM UploadingMeansWorkCorrect == Spec => []UploadingMeansWork
<1> DEFINE Inv == TypeOK /\ UploadingMeansWork
<1>1. Init => Inv
  BY InitEstablishes DEF UploadInv, Init, UploadingMeansWork
<1>2. ASSUME TypeOK, Instantiate, ~thrown' PROVE Running' # {}
  <2> PICK u \in Uploads : transfer' = [transfer EXCEPT ![u] = "running"]
    BY <1>2 DEF Instantiate
  <2> QED
    BY <1>2 DEF TypeOK, Running
<1>3. ASSUME Inv, [Next]_vars PROVE UploadingMeansWork'
  <2>0. TypeOK /\ UploadingMeansWork /\ imports \in Nat
    BY <1>3 DEF TypeOK
  <2>1. ASSUME Begin PROVE UploadingMeansWork'
    <3>1. CASE injected
      BY <2>0, <2>1, <3>1, <1>2 DEF Begin, UploadingMeansWork
    <3>2. CASE ~injected
      BY <2>0, <2>1, <3>2 DEF Begin, UploadingMeansWork
    <3> QED
      BY <3>1, <3>2
  <2>2. CASE Start \/ Resume
    BY <2>1, <2>2 DEF Start, Resume
  <2>3. CASE Pause \/ \E terminate \in BOOLEAN : Abort(terminate)
    BY <2>3 DEF Pause, Abort, UploadingMeansWork
  <2>4. CASE Loaded
    BY <2>0, <2>4, <1>2 DEF Loaded, UploadingMeansWork
  <2>5. CASE LoadFails
    BY <2>5 DEF LoadFails, UploadingMeansWork
  <2>6. CASE \E u \in Uploads : Accept(u)
    BY <2>0, <2>6 DEF Accept, UploadingMeansWork, Running
  <2>7. CASE \E u \in Uploads : Succeed(u) \/ Fail(u)
    BY <2>7 DEF Succeed, Fail, UploadingMeansWork
  <2>8. CASE UNCHANGED vars
    BY <2>0, <2>8 DEF vars, UploadingMeansWork, Running
  <2> QED
    BY <1>3, <2>2, <2>3, <2>4, <2>5, <2>6, <2>7, <2>8 DEF Next
<1>4. Inv /\ [Next]_vars => Inv'
  BY <1>3, TypeStep
<1> QED
  BY <1>1, <1>4, PTL DEF Spec

(* No upload runs that the consumer's last call did not ask for, and what it *)
(* asked for is under way.                                                   *)
THEOREM TransfersAsAskedCorrect == Spec => []TransfersAsAsked
<1>1. OneTransfer /\ PauseStopsTransfer /\ UploadingMeansWork => TransfersAsAsked
  BY DEF TransfersAsAsked
<1> QED
  BY <1>1, OneTransferCorrect, PauseStopsTransferCorrect, UploadingMeansWorkCorrect, PTL
==============================================================================
