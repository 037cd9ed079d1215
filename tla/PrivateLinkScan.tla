--------------------------- MODULE PrivateLinkScan ---------------------------
(***************************************************************************)
(* The private-link rule (tools/markdownlint/no-private-scratch-links.mjs):*)
(* the main thread asks a worker thread to scan one Markdown file at a     *)
(* time, under a deadline and a heap budget, and adds the findings up.     *)
(*                                                                         *)
(* What a file holds is abstracted to what its scan comes to: how many     *)
(* destinations in it reach private scratch, or that it is too large to    *)
(* read, breaks a bound of the parser, takes the worker's whole heap, or   *)
(* is never done.                                                          *)
(***************************************************************************)
EXTENDS Naturals, Sequences

CONSTANTS
    Inventories,   \* sequences of files, [trouble |-> one of Troubles, links |-> Nat]
    MaxFindings,   \* MAX_FINDINGS
    None

VARIABLES
    files,         \* the inventory, fixed
    persists,      \* does the caller go on after a failed scan, as the rule's
                   \* own tests do, or close at once, as reportFindings does?
    next,          \* index of the next file to scan
    emitted,       \* findings written so far
    status,        \* process.exitCode, None until it is set
    pending,       \* #pending: index of the file in flight, or None
    armed,         \* is the deadline timer of the request in flight running?
    retired,       \* #retired
    stopFailed,    \* #stopFailure: did terminate() after a deadline reject?
    inbox,         \* requests posted to the worker
    events,        \* what the worker has posted: replies, "error", "exit"
    worker,        \* "idle", the request it works on, or "gone"
    answers        \* history: what scan() came to for each file asked

vars == <<files, persists, next, emitted, status, pending, armed, retired,
          stopFailed, inbox, events, worker, answers>>

Troubles == {"none", "oversize", "unparsable", "heavy", "endless"}
IsTrouble(file) == file.trouble # "none"
\* What the worker is doing when it works on no request.
Idle == [file |-> None, limit |-> 0]
Gone == [file |-> None, limit |-> 1]
Closed == [file |-> None, limit |-> 2]

Min2(a, b) == IF a < b THEN a ELSE b

Init ==
    /\ files \in Inventories
    /\ persists \in BOOLEAN
    /\ next = 1 /\ emitted = 0 /\ status = None
    /\ pending = None /\ armed = FALSE /\ retired = FALSE /\ stopFailed = FALSE
    /\ inbox = <<>> /\ events = <<>> /\ worker = Idle
    /\ answers = <<>>

------------------------------------------------------------------------------
(* What happens to the answer of a request.                                *)

Remaining == MaxFindings - emitted

\* reportFindings after an answer: a failure ends the run, findings are
\* written up to the limit, and one more than that ends it with 2.
Report(answer) ==
    /\ answers' = Append(answers, answer)
    /\ next' = next + 1
    /\ IF answer.kind = "error"
       THEN /\ UNCHANGED emitted
            /\ status' = IF persists THEN status ELSE 2
       ELSE /\ emitted' = emitted + Min2(answer.found, Remaining)
            /\ status' = IF answer.found > Remaining THEN 2 ELSE status

\* #settle: a late event finds no request and is dropped.
Settle(answer) ==
    IF pending = None THEN UNCHANGED <<pending, armed, answers, next, emitted, status>>
    ELSE pending' = None /\ armed' = FALSE /\ Report(answer)

Error(file) == [file |-> file, kind |-> "error"]
Findings(file, n) == [file |-> file, kind |-> "findings", found |-> n]

------------------------------------------------------------------------------
(* The main thread.                                                        *)

\* scan() by a caller that has an answer to its last request: refused when
\* the worker has stopped, else posted with its deadline.
Limit == Remaining + 1

TimerSet == TRUE

Scan ==
    /\ status = None /\ pending = None /\ next <= Len(files)
    /\ IF retired
       THEN Report(Error(next)) /\ UNCHANGED <<pending, armed, inbox>>
       ELSE /\ pending' = next
            /\ armed' = TimerSet
            /\ inbox' = Append(inbox, [file |-> next, limit |-> Limit])
            /\ UNCHANGED <<answers, next, emitted, status>>
    /\ UNCHANGED <<files, persists, retired, stopFailed, events, worker>>

\* #expire: the worker is stopped, and whatever it still says is about this
\* file.  Replies it has posted already are still delivered.
Reuse == UNCHANGED retired       \* mistake: the worker takes the next file
Retire == retired' = TRUE

Expire ==
    /\ armed
    /\ Retire
    /\ Settle(Error(pending))
    /\ stopFailed' \in BOOLEAN
    /\ worker' = IF stopFailed' THEN worker ELSE Gone
    /\ events' = IF worker = Gone \/ stopFailed' THEN events ELSE Append(events, [kind |-> "exit"])
    /\ UNCHANGED <<files, persists, inbox>>

\* The 'message', 'error' and 'exit' listeners, in the order of the events.
Deliver ==
    /\ events # <<>>
    /\ events' = Tail(events)
    /\ LET event == Head(events) IN
       /\ Settle(CASE event.kind = "reply" -> event.answer
                   [] OTHER -> Error(pending))
       /\ retired' = (retired \/ event.kind = "exit")
    /\ UNCHANGED <<files, persists, stopFailed, inbox, worker>>

\* withScanWorker closes the worker when reportFindings is through; a worker
\* that could not be stopped at its deadline makes close() throw.
Outcome == IF emitted = 0 THEN 0 ELSE 1

Close ==
    /\ worker # Closed /\ pending = None
    /\ status # None \/ next > Len(files)
    /\ status' = IF stopFailed THEN 2 ELSE IF status = None THEN Outcome ELSE status
    /\ worker' = Closed
    /\ inbox' = <<>> /\ events' = <<>>
    /\ UNCHANGED <<files, persists, next, emitted, pending, armed, retired, stopFailed, answers>>

------------------------------------------------------------------------------
(* The worker thread: serveScans.                                          *)

Take ==
    /\ worker = Idle /\ inbox # <<>>
    /\ worker' = Head(inbox)
    /\ inbox' = Tail(inbox)
    /\ UNCHANGED <<files, persists, next, emitted, status, pending, armed, retired,
                   stopFailed, events, answers>>

Working == worker \notin {Idle, Gone, Closed}

\* readBoundedSource and findPrivateScratchLinks, which stops at the limit;
\* what they throw is caught and posted.
Reply ==
    /\ Working /\ files[worker.file].trouble \notin {"heavy", "endless"}
    /\ LET file == files[worker.file] IN
       events' = Append(events,
           [kind |-> "reply",
            answer |-> IF IsTrouble(file) THEN Error(worker.file)
                       ELSE Findings(worker.file, Min2(file.links, worker.limit))])
    /\ worker' = Idle
    /\ UNCHANGED <<files, persists, next, emitted, status, pending, armed, retired,
                   stopFailed, inbox, answers>>

\* ERR_WORKER_OUT_OF_MEMORY ends the thread: an error event, then its exit.
RunOut ==
    /\ Working /\ files[worker.file].trouble = "heavy"
    /\ events' = events \o <<[kind |-> "error"], [kind |-> "exit"]>>
    /\ worker' = Gone
    /\ UNCHANGED <<files, persists, next, emitted, status, pending, armed, retired,
                   stopFailed, inbox, answers>>

Next == Scan \/ Expire \/ Deliver \/ Close \/ Take \/ Reply \/ RunOut

\* Timers go off and events are delivered; a parse need never end.
Spec == Init /\ [][Next]_vars /\ WF_vars(Scan) /\ WF_vars(Expire) /\ WF_vars(Deliver) /\ WF_vars(Close)

------------------------------------------------------------------------------
\* An answer is about the file that was asked for: the reply of a file that
\* missed its deadline is never taken for the next one's (verify.mjs reads the
\* verdict of a file from it; no-private-scratch-links.mjs:1620).
AnswersOwnFile ==
    \A i \in DOMAIN answers :
        /\ answers[i].file = i
        /\ answers[i].kind = "findings" =>
             ~ IsTrouble(files[i]) /\ answers[i].found <= files[i].links

\* The exit status is right: 0 means that every file was scanned and has no
\* private link, 1 that every file was scanned and each of its links is
\* written out; a caller that goes on after failures has seen them itself.
Sum ==
    LET sum[n \in 0..Len(files)] == IF n = 0 THEN 0 ELSE sum[n - 1] + files[n].links
    IN  sum[Len(files)]
RuleVerdict ==
    /\ emitted <= MaxFindings
    /\ status \in {0, 1} /\ ~ persists =>
         /\ \A i \in DOMAIN files : ~ IsTrouble(files[i])
         /\ emitted = Sum /\ (status = 0 <=> emitted = 0)

\* Both: the verdict, and each answer it is made of.
RuleIsTrue == AnswersOwnFile /\ RuleVerdict

\* Every run of the rule comes to an end, also over a file whose parse does
\* not, and when the worker dies.
RuleEnds == <>[](worker = Closed)
==============================================================================
