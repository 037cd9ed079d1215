--------------------------- MODULE ResumableUpload ---------------------------
(***************************************************************************)
(* The resumable upload of packages/uploads: the handle of resumable.ts,   *)
(* the launcher of tus-launcher.ts that imports tus-js-client on demand,   *)
(* and the tus uploads it makes, with what the server holds of the file.   *)
(*                                                                         *)
(* Every handler ends with the consumer's callback, so a call made from    *)
(* the callback is one made right after the handler: there is no stack.    *)
(***************************************************************************)
EXTENDS Naturals, FiniteSets

CONSTANTS
    Uploads,      \* the tus uploads that can be made: bounds start()/resume()
    NoUpload,     \* `undefined' as the launcher's tus
    Size          \* parts the file is sent in

ASSUME UploadAssumption == IsFiniteSet(Uploads) /\ NoUpload \notin Uploads /\ Size \in Nat

VARIABLES
    injected,  \* was options.UploadConstructor given?
    uploadUrl, \* was options.uploadUrl given?
    state,     \* run.state
    imports,   \* calls of loadTusUpload() that have not settled
    tus,       \* the launcher's tus: the upload abort() reaches
    transfer,  \* each tus upload
    offset,    \* bytes the server has accepted from each tus upload
    stored,    \* bytes the server holds at options.uploadUrl
    overlapped,\* history: has the consumer begun again during an import?
    thrown     \* history: did the last constructor, or its tus.start(), throw?

options == <<injected, uploadUrl>>
vars == <<options, state, imports, tus, transfer, offset, stored, overlapped, thrown>>

TypeOK ==
    /\ injected \in BOOLEAN /\ uploadUrl \in BOOLEAN
    /\ overlapped \in BOOLEAN /\ thrown \in BOOLEAN
    /\ state \in {"idle", "uploading", "paused", "success", "error", "aborted"}
    /\ imports \in 0..Cardinality(Uploads)
    /\ tus \in Uploads \cup {NoUpload}
    /\ transfer \in [Uploads -> {"unborn", "running", "paused", "aborted", "done", "failed"}]
    /\ offset \in [Uploads -> 0..Size]
    /\ stored \in 0..Size

Init ==
    /\ injected \in BOOLEAN /\ uploadUrl \in BOOLEAN
    /\ overlapped = FALSE /\ thrown = FALSE
    /\ state = "idle"
    /\ imports = 0
    /\ tus = NoUpload
    /\ transfer = [u \in Uploads |-> "unborn"]
    /\ offset = [u \in Uploads |-> 0]
    /\ stored = 0

Born(u) == transfer[u] # "unborn"
Running == {u \in Uploads : transfer[u] = "running"}

------------------------------------------------------------------------------
(* The launcher.  A definition marked "mistake" is what the code could have *)
(* said in place of the next; no action uses it.                            *)

\* shouldProceed: a pause or an abort may have raced the import.
AlwaysProceed == TRUE                 \* mistake: nobody asks
ShouldProceed == state = "uploading"

\* What an upload starts from: tus asks the server only for a URL it was given.
StartOffset == IF uploadUrl THEN stored ELSE 0

\* instantiate(Ctor), which may throw before there is an upload.
Instantiate ==
    \/ \E u \in Uploads :
           /\ ~Born(u)
           /\ tus' = u
           /\ transfer' = [transfer EXCEPT ![u] = "running"]
           /\ offset' = [offset EXCEPT ![u] = StartOffset]
           /\ thrown' = FALSE
    \/ thrown' = TRUE /\ UNCHANGED <<tus, transfer, offset>>

\* abort(terminate): the upload tus points to stops, if it has not ended.
Abandon(how) ==
    transfer' = [u \in Uploads |-> IF u = tus /\ transfer[u] \in {"running", "paused"}
                                   THEN how ELSE transfer[u]]

\* abort(true) makes the server forget what it holds, abort(false) does not.
Terminated == stored' = 0                   \* mistake, for pause()
Retained == UNCHANGED stored

\* begin(): with a constructor at hand the upload is made at once.
Begin ==
    /\ Cardinality({u \in Uploads : ~Born(u)}) > imports
    /\ state' = "uploading"
    /\ IF injected THEN Instantiate /\ UNCHANGED imports
                   ELSE imports' = imports + 1 /\ UNCHANGED <<tus, transfer, offset, thrown>>
    /\ IF imports > 0 THEN overlapped' = TRUE ELSE UNCHANGED overlapped
    /\ UNCHANGED <<options, stored>>

------------------------------------------------------------------------------
(* The consumer's calls.                                                   *)

StartIgnored == state \in {"uploading", "success"}

Start == ~StartIgnored /\ Begin

Pause ==
    /\ state = "uploading"
    /\ state' = "paused"
    /\ Abandon("paused")
    /\ Retained
    /\ UNCHANGED <<options, imports, tus, offset, overlapped, thrown>>

Resume == state = "paused" /\ Begin

Abort(terminate) ==
    /\ state \notin {"success", "aborted"}
    /\ state' = "aborted"
    /\ Abandon("aborted")
    /\ IF terminate /\ tus # NoUpload THEN Terminated ELSE Retained
    /\ UNCHANGED <<options, imports, tus, offset, overlapped, thrown>>

------------------------------------------------------------------------------
(* The import settles, and tus reports.                                    *)

Loaded ==
    /\ imports > 0
    /\ imports' = imports - 1
    /\ IF ShouldProceed THEN Instantiate ELSE UNCHANGED <<tus, transfer, offset, thrown>>
    /\ UNCHANGED <<options, state, stored, overlapped>>

\* fail(error): tus and the loader both land here.
Swallowed == state        \* mistake: the callback, and no state change
Failed == "error"

LoadFails ==
    /\ imports > 0
    /\ imports' = imports - 1
    /\ state' = Failed
    /\ UNCHANGED <<options, tus, transfer, offset, stored, overlapped, thrown>>

\* The server accepts a part.  Uploads to one URL are told apart by their
\* offset: one that is behind gets a conflict, which ends in Fail.
Accept(u) ==
    /\ transfer[u] = "running" /\ offset[u] < Size
    /\ uploadUrl => offset[u] = stored
    /\ offset' = [offset EXCEPT ![u] = @ + 1]
    /\ stored' = IF uploadUrl THEN stored + 1 ELSE stored
    /\ UNCHANGED <<options, state, imports, tus, transfer, overlapped, thrown>>

\* onSuccess
Succeed(u) ==
    /\ transfer[u] = "running" /\ offset[u] = Size
    /\ transfer' = [transfer EXCEPT ![u] = "done"]
    /\ state' = "success"
    /\ UNCHANGED <<options, imports, tus, offset, stored, overlapped, thrown>>

\* onError, once tus has given up
Fail(u) ==
    /\ transfer[u] = "running"
    /\ transfer' = [transfer EXCEPT ![u] = "failed"]
    /\ state' = Failed
    /\ UNCHANGED <<options, imports, tus, offset, stored, overlapped, thrown>>

------------------------------------------------------------------------------
Next ==
    \/ Start \/ Pause \/ Resume
    \/ \E terminate \in BOOLEAN : Abort(terminate)
    \/ Loaded \/ LoadFails
    \/ \E u \in Uploads : Accept(u) \/ Succeed(u) \/ Fail(u)

Spec == Init /\ [][Next]_vars

\* An import settles one way or the other; nothing is assumed of the server.
FairSpec == Spec /\ WF_vars(Loaded \/ LoadFails)

------------------------------------------------------------------------------
(* Properties.  A consumer that begins again during an import may get two   *)
(* uploads, of which the handle only reaches the second; a constructor that *)
(* throws leaves the handle uploading.  The properties are about the        *)
(* behaviours in which neither has happened.                                *)

(* "start() is idempotent while uploading (no second tus instance)": one    *)
(* upload of the file runs at a time, however the calls and the import race.*)
OneTransfer == ~overlapped => Cardinality(Running) <= 1

(* "`pause` aborts the in-flight tus request", and so does abort(): while   *)
(* the handle says paused or aborted nothing is being sent.                 *)
PauseStopsTransfer == ~overlapped /\ state \in {"paused", "aborted"} => Running = {}

(* A file that has been stored stays stored: no late failure, pause or      *)
(* abort takes success back, and nothing is uploaded again.                 *)
SuccessIsFinal == [][~overlapped /\ state = "success" => state' = "success"]_vars

(* A handle that says it is uploading has something to wait for: an upload  *)
(* that will call back or an import that will make one.  start() does       *)
(* nothing in that state, so there would be no way out but abort().         *)
UploadingMeansWork ==
    state = "uploading" => Running # {} \/ imports > 0 \/ thrown

(* All three: what is being sent is what the handle's state says and what   *)
(* the consumer's last call asks for, no more and no less.                  *)
TransfersAsAsked == OneTransfer /\ PauseStopsTransfer /\ UploadingMeansWork

(* "`resume` continues from the last accepted byte": the upload that takes  *)
(* over from a paused one starts where the server had got to.               *)
ResumeContinues ==
    [][\A u \in Uploads :
           /\ uploadUrl /\ ~overlapped
           /\ ~Born(u) /\ transfer'[u] = "running"
           /\ tus # NoUpload /\ transfer[tus] = "paused"
           => offset'[u] = offset[tus]]_vars
==============================================================================
