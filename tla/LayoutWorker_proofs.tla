------------------------- MODULE LayoutWorker_proofs -------------------------
(* Proofs about LayoutWorker for any set of calls.                          *)
EXTENDS LayoutWorker, SequenceTheorems, TLAPS

USE DEF NewId, Addressed, Cleanup, Reply

(* The messages that carry the id their call was given.                     *)
Signed(m) == status[m.of] # "new" /\ m.id = id[m.of]
SignedRequest == {q \in Request : Signed(q)}
SignedResponse == {m \in Response : Signed(m)}

(* Ids are given once, and every message is signed: that is why an answer    *)
(* that fits a call is the answer to that call.  A call refused after        *)
(* terminate() has no id of its own, and then no message is left.            *)
UniqueIds ==
    /\ \A c \in Calls : status[c] # "new" => id[c] < nextId
    /\ \A c, d \in Calls : status[c] # "new" /\ status[d] # "new" /\ id[c] = id[d] => c = d

IdInv ==
    /\ TypeOK
    /\ worker = "alive" => UniqueIds
    /\ worker = "terminated" => requests = <<>> /\ computing = {} /\ responses = <<>>
    /\ \A c \in listening : status[c] # "new"
    /\ requests \in Seq(SignedRequest)
    /\ computing \in SUBSET SignedRequest
    /\ responses \in Seq(SignedResponse)

(* A step that takes no call back to "new" and renames none leaves the       *)
(* messages signed.                                                         *)
LEMMA StaySigned ==
    ASSUME \A c \in Calls : status[c] # "new" => status'[c] # "new" /\ id'[c] = id[c]
    PROVE  /\ SignedRequest \subseteq SignedRequest'
           /\ SignedResponse \subseteq SignedResponse'
BY DEF SignedRequest, SignedResponse, Signed, Request, Response

LEMMA NextIdInv == IdInv /\ [Next]_vars => IdInv'
<1> SUFFICES ASSUME IdInv, [Next]_vars PROVE IdInv'
  OBVIOUS
<1> USE DEF handle, channel
<1>0. TypeOK
  BY DEF IdInv
(* A call that is given an id, whether or not the request is posted.        *)
<1>1. ASSUME NEW c \in Calls, Layout(c) \/ LayoutThrows(c)
      PROVE  IdInv'
  <2>1. /\ status[c] = "new" /\ id' = [id EXCEPT ![c] = nextId] /\ nextId' = nextId + 1
        /\ listening' = listening \cup {c}
        /\ \E s \in {"pending", "rejected"} : status' = [status EXCEPT ![c] = s]
        /\ unposted' \in {unposted, unposted \cup {c}}
        /\ UNCHANGED <<worker, answer, computing, responses>>
    BY <1>1 DEF Layout, LayoutThrows
  <2>2. /\ status' \in [Calls -> {"new", "pending", "resolved", "rejected"}]
        /\ id' \in [Calls -> Nat] /\ nextId' \in Nat
        /\ status'[c] # "new" /\ id'[c] = nextId
        /\ \A d \in Calls \ {c} : status'[d] = status[d] /\ id'[d] = id[d]
    BY <1>0, <2>1 DEF TypeOK
  <2>3. \A d \in Calls : status[d] # "new" => status'[d] # "new" /\ id'[d] = id[d]
    BY <2>1, <2>2
  <2>4. SignedRequest \subseteq SignedRequest' /\ SignedResponse \subseteq SignedResponse'
    BY <2>3, StaySigned
  <2>5. /\ requests \in Seq(SignedRequest') /\ responses' \in Seq(SignedResponse')
        /\ computing' \in SUBSET SignedRequest'
    BY <2>1, <2>4, SeqMonotonic DEF IdInv
  <2>6. [id |-> nextId, of |-> c] \in SignedRequest'
    BY <1>0, <2>2 DEF SignedRequest, Request, Signed, TypeOK
  <2>7. requests' \in Seq(SignedRequest')
    <3>1. CASE requests' = requests
      BY <2>5, <3>1
    <3>2. CASE requests' = Append(requests, [id |-> nextId, of |-> c])
      BY <2>5, <2>6, <3>2, AppendProperties
    <3> QED
      BY <1>1, <3>1, <3>2 DEF Layout, LayoutThrows
  <2>8. /\ requests' \in Seq(Request) /\ responses' \in Seq(Response)
        /\ computing' \in SUBSET Request
    BY <2>5, <2>7, SeqMonotonic DEF SignedRequest, SignedResponse
  <2>9. TypeOK'
    BY <1>0, <2>1, <2>2, <2>8 DEF TypeOK
  <2>10. worker' = "alive" /\ UniqueIds
    BY <1>1, <2>1 DEF IdInv, Layout, LayoutThrows
  <2>11. UniqueIds'
    BY <1>0, <2>1, <2>2, <2>10 DEF UniqueIds, TypeOK
  <2>12. \A d \in listening' : status'[d] # "new"
    BY <2>1, <2>2 DEF IdInv, TypeOK
  <2> QED
    BY <2>5, <2>7, <2>9, <2>10, <2>11, <2>12 DEF IdInv
(* Steps that at most settle calls: what is left is where the messages go.  *)
<1>2. ASSUME /\ status' \in [Calls -> {"new", "pending", "resolved", "rejected"}]
             /\ \A c \in Calls : status[c] # "new" => status'[c] # "new"
             /\ worker' = "alive" => \A c \in Calls : status[c] = "new" => status'[c] = "new"
             /\ answer' \in [Calls -> Calls \cup {None}]
             /\ listening' \in SUBSET listening
             /\ worker' \in {"alive", "terminated"}
             /\ worker' = "alive" => worker = "alive"
             /\ worker' = "terminated" => requests' = <<>> /\ computing' = {} /\ responses' = <<>>
             /\ UNCHANGED <<nextId, id, unposted>>,
             requests' \in Seq(SignedRequest),
             computing' \in SUBSET SignedRequest,
             responses' \in Seq(SignedResponse)
      PROVE  IdInv'
  <2>1. SignedRequest \subseteq SignedRequest' /\ SignedResponse \subseteq SignedResponse'
    BY <1>2, StaySigned
  <2>2. /\ requests' \in Seq(SignedRequest') /\ responses' \in Seq(SignedResponse')
        /\ computing' \in SUBSET SignedRequest'
    BY <1>2, <2>1, SeqMonotonic
  <2>3. /\ requests' \in Seq(Request) /\ responses' \in Seq(Response)
        /\ computing' \in SUBSET Request
    BY <2>2, SeqMonotonic DEF SignedRequest, SignedResponse
  <2>4. TypeOK'
    BY <1>0, <1>2, <2>3 DEF TypeOK
  <2>5. worker' = "alive" => UniqueIds'
    BY <1>0, <1>2 DEF IdInv, UniqueIds, TypeOK
  <2>6. \A c \in listening' : status'[c] # "new"
    BY <1>0, <1>2 DEF IdInv, TypeOK
  <2> QED
    BY <1>2, <2>2, <2>4, <2>5, <2>6 DEF IdInv
<1>3. ASSUME NEW c \in Calls, LayoutRefused(c)
      PROVE  IdInv'
  BY <1>0, <1>2, <1>3 DEF LayoutRefused, IdInv, TypeOK
<1>4. CASE OnMessage
  <2>1. /\ responses' \in Seq(SignedResponse) /\ Head(responses) \in SignedResponse
        /\ UNCHANGED <<worker, nextId, id, unposted, requests, computing>>
        /\ listening' \in SUBSET listening
    BY <1>4, HeadTailProperties DEF OnMessage, IdInv
  <2>2. \A m \in SignedResponse : m.of \in Calls
    BY DEF SignedResponse, Response
  <2>3. /\ status' \in [Calls -> {"new", "pending", "resolved", "rejected"}]
        /\ \A c \in Calls : status'[c] # status[c] =>
               status[c] = "pending" /\ status'[c] \in {"resolved", "rejected"}
        /\ answer' \in [Calls -> Calls \cup {None}]
    BY <1>0, <1>4, <2>1, <2>2 DEF OnMessage, Outcome, TypeOK
  <2>4. worker' = "alive" /\ worker = "alive"
    BY <1>0, <1>4, <2>1 DEF OnMessage, IdInv, TypeOK
  <2> QED
    BY <1>0, <1>2, <2>1, <2>3, <2>4 DEF IdInv, TypeOK
<1>5. CASE OnError
  BY <1>0, <1>2, <1>5 DEF OnError, IdInv, TypeOK
<1>6. CASE Terminate
  <2>1. <<>> \in Seq(SignedRequest) /\ <<>> \in Seq(SignedResponse)
    BY EmptySeq
  <2> QED
    BY <1>0, <1>2, <1>6, <2>1 DEF Terminate, IdInv, TypeOK
<1>7. CASE Handle
  <2>1. /\ requests' \in Seq(SignedRequest) /\ Head(requests) \in SignedRequest
        /\ computing' = computing \cup {Head(requests)}
        /\ UNCHANGED <<handle, responses>> /\ worker = "alive"
    BY <1>0, <1>7, HeadTailProperties DEF Handle, IdInv, TypeOK
  <2> QED
    BY <1>0, <1>2, <2>1 DEF IdInv, TypeOK
<1>8. ASSUME NEW q \in computing, Finish(q)
      PROVE  IdInv'
  <2>1. PICK ok \in BOOLEAN : responses' = responses \o <<[id |-> q.id, of |-> q.of, ok |-> ok]>>
    BY <1>8 DEF Finish
  <2>2. [id |-> q.id, of |-> q.of, ok |-> ok] \in SignedResponse
    BY <1>8 DEF IdInv, SignedRequest, SignedResponse, Request, Response, Signed
  <2>3. responses' \in Seq(SignedResponse)
    BY <2>1, <2>2, ConcatProperties DEF IdInv
  <2>4. UNCHANGED <<handle, requests>> /\ computing' \in SUBSET computing /\ worker = "alive"
    BY <1>0, <1>8 DEF Finish, IdInv, TypeOK
  <2> QED
    BY <1>0, <1>2, <2>3, <2>4 DEF IdInv, TypeOK
<1>9. CASE UNCHANGED vars
  BY <1>0, <1>2, <1>9 DEF vars, IdInv, TypeOK
<1> QED
  BY <1>1, <1>3, <1>4, <1>5, <1>6, <1>7, <1>8, <1>9 DEF Next

LEMMA AlwaysIdInv == Spec => []IdInv
<1>1. Init => IdInv
  <2> SUFFICES ASSUME Init PROVE IdInv
    OBVIOUS
  <2>1. /\ <<>> \in Seq(SignedRequest) /\ <<>> \in Seq(SignedResponse)
        /\ <<>> \in Seq(Request) /\ <<>> \in Seq(Response)
    BY EmptySeq
  <2> QED
    BY <2>1 DEF Init, IdInv, TypeOK, UniqueIds
<1> QED
  BY <1>1, NextIdInv, PTL DEF Spec

(* Every variable keeps its type.                                           *)
THEOREM TypeCorrect == Spec => []TypeOK
<1>1. IdInv => TypeOK
  BY DEF IdInv
<1> QED
  BY <1>1, AlwaysIdInv, PTL

------------------------------------------------------------------------------
(* LayoutWorker implements RequestResponse.                                 *)

(* A response is heard by the call that asked for it, if by anyone.         *)
LEMMA HeardByItsCall ==
    ASSUME IdInv, OnMessage
    PROVE  \A c \in listening : Addressed(c, Head(responses)) => c = Head(responses).of
<1>1. Head(responses) \in SignedResponse /\ worker = "alive"
  BY HeadTailProperties DEF OnMessage, IdInv, TypeOK
<1> QED
  BY <1>1 DEF IdInv, UniqueIds, SignedResponse, Response, Signed, TypeOK

(* However many layouts the worker has in progress, in whatever order it     *)
(* finishes them, and whatever crashes: a layout is settled once, and with   *)
(* the result for its own graph.                                            *)
THEOREM LayoutsNeverCrossCorrect == Spec => LayoutsNeverCross
<1>1. Init => Promises!Init
  BY DEF Init, Promises!Init
<1>2. ASSUME IdInv, [Next]_vars
      PROVE  [Promises!Next]_(Promises!promises)
  <2> USE DEF handle, channel
  <2>0. TypeOK
    BY <1>2 DEF IdInv
  <2>1. ASSUME NEW c \in Calls, Layout(c)
        PROVE  Promises!Issue(c)
    BY <2>1 DEF Layout, Promises!Issue
  <2>2. ASSUME NEW c \in Calls, LayoutRefused(c) \/ LayoutThrows(c)
        PROVE  Promises!Refuse(c)
    BY <2>2 DEF LayoutRefused, LayoutThrows, Promises!Refuse
  <2>3. CASE OnMessage
    <3> DEFINE m == Head(responses)
               settled == {c \in listening : Addressed(c, m) /\ status[c] = "pending"}
    <3>1. m.of \in Calls /\ m.ok \in BOOLEAN
      BY <1>2, <2>3, HeadTailProperties DEF OnMessage, IdInv, SignedResponse, Response
    <3>2. \/ settled = {}
          \/ settled = {m.of} /\ status[m.of] = "pending"
      BY <1>2, <2>3, HeardByItsCall
    <3>3. /\ status' = [c \in Calls |-> IF c \in settled THEN Outcome(m) ELSE status[c]]
          /\ answer' = [c \in Calls |-> IF c \in settled /\ m.ok THEN m.of ELSE answer[c]]
      BY <2>3 DEF OnMessage
    <3>4. CASE settled = {}
      BY <2>0, <3>3, <3>4 DEF TypeOK, Promises!promises
    <3>5. CASE settled = {m.of} /\ status[m.of] = "pending" /\ m.ok
      <4>1. Promises!Resolve(m.of)
        BY <2>0, <3>1, <3>3, <3>5 DEF TypeOK, Outcome, Promises!Resolve
      <4> QED
        BY <3>1, <4>1 DEF Promises!Next
    <3>6. CASE settled = {m.of} /\ status[m.of] = "pending" /\ ~m.ok
      <4>1. Promises!Reject({m.of})
        BY <2>0, <3>1, <3>3, <3>6 DEF TypeOK, Outcome, Promises!Reject
      <4> QED
        BY <3>1, <4>1 DEF Promises!Next
    <3> QED
      BY <3>2, <3>4, <3>5, <3>6
  <2>4. CASE OnError
    <3> DEFINE waiting == {c \in listening : status[c] = "pending"}
    <3>1. Promises!Reject(waiting)
      BY <2>0, <2>4 DEF OnError, TypeOK, Promises!Reject
    <3> QED
      BY <2>0, <3>1 DEF TypeOK, Promises!Next
  <2>5. CASE Terminate \/ Handle \/ (\E q \in computing : Finish(q)) \/ UNCHANGED vars
    BY <2>5 DEF Terminate, Handle, Finish, vars, Promises!promises
  <2> QED
    BY <1>2, <2>1, <2>2, <2>3, <2>4, <2>5 DEF Next, Promises!Next
<1> QED
  BY <1>1, <1>2, AlwaysIdInv, PTL DEF Spec, LayoutsNeverCross, Promises!Spec

------------------------------------------------------------------------------
(* The listeners of a call are attached for as long as its promise waits,    *)
(* and longer only if its graph could not be cloned.                        *)
THEOREM ListenersScopedCorrect == Spec => []ListenersScoped
<1>1. Init => ListenersScoped
  BY DEF Init, ListenersScoped
<1>2. TypeOK /\ ListenersScoped /\ [Next]_vars => ListenersScoped'
  <2> SUFFICES ASSUME TypeOK, ListenersScoped, [Next]_vars PROVE ListenersScoped'
    OBVIOUS
  <2> USE DEF handle, channel, ListenersScoped
  <2>1. ASSUME NEW c \in Calls, LayoutRefused(c) \/ Layout(c) \/ LayoutThrows(c)
        PROVE  ListenersScoped'
    BY <2>1 DEF LayoutRefused, Layout, LayoutThrows, TypeOK
  <2>2. CASE OnMessage
    <3> DEFINE heard == {c \in listening : Addressed(c, Head(responses))}
    <3>1. /\ listening' = listening \ heard
          /\ \A c \in Calls : status'[c] = "pending" <=> status[c] = "pending" /\ c \notin heard
          /\ unposted' = unposted
      BY <2>2 DEF OnMessage, Outcome
    <3> QED
      BY <3>1
  <2>3. CASE OnError
    BY <2>3 DEF OnError
  <2>4. CASE Terminate \/ Handle \/ (\E q \in computing : Finish(q)) \/ UNCHANGED vars
    BY <2>4 DEF Terminate, Handle, Finish, vars
  <2> QED
    BY <2>1, <2>2, <2>3, <2>4 DEF Next
<1> QED
  BY <1>1, <1>2, TypeCorrect, PTL DEF Spec
==============================================================================
