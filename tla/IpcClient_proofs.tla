-------------------------- MODULE IpcClient_proofs ---------------------------
(* Proofs about IpcClient for any set of requests.                          *)
EXTENDS IpcClient, SequenceTheorems, TLAPS

USE DEF Shift, ClearTimers, WasClosed

Waiting(r) == \E i \in 1..Len(queue) : queue[i] = r
NoTwice == \A i, j \in 1..Len(queue) : queue[i] = queue[j] => i = j

(* The queue, the promises and the timers agree.                            *)
QueueInv ==
    /\ TypeOK
    /\ NoTwice
    /\ \A r \in Requests : status[r] = "pending" <=> Waiting(r)
    /\ \A r \in Requests : r \in timers <=> Timed /\ Waiting(r)
    /\ failure # None => queue = <<>>

LEMMA RangeOfQueue ==
    ASSUME TypeOK
    PROVE  /\ Range(queue) = {r \in Requests : Waiting(r)}
           /\ DOMAIN queue = 1..Len(queue) /\ Len(queue) \in Nat
<1>1. DOMAIN queue = 1..Len(queue) /\ Len(queue) \in Nat
      /\ \A i \in 1..Len(queue) : queue[i] \in Requests
  BY LenProperties, ElementOfSeq DEF TypeOK
<1> QED
  BY <1>1 DEF Range, Waiting

(* Taking the oldest waiter out.                                            *)
LEMMA ShiftQueue ==
    ASSUME TypeOK, NoTwice, queue # <<>>, queue' = Tail(queue)
    PROVE  /\ Head(queue) \in Requests /\ Waiting(Head(queue))
           /\ queue' \in Seq(Requests) /\ NoTwice'
           /\ Len(queue') = Len(queue) - 1 /\ Len(queue) \in Nat \ {0}
           /\ \A i \in 1..Len(queue') : queue'[i] = queue[i + 1]
           /\ \A r \in Requests : Waiting(r)' <=> Waiting(r) /\ r # Head(queue)
<1>1. /\ Head(queue) \in Requests /\ Tail(queue) \in Seq(Requests)
      /\ Len(Tail(queue)) = Len(queue) - 1
      /\ \A i \in 1..Len(Tail(queue)) : Tail(queue)[i] = queue[i + 1]
  BY HeadTailProperties DEF TypeOK
<1>2. Head(queue) = queue[1] /\ Len(queue) \in Nat \ {0}
  BY EmptySeq DEF TypeOK
<1>3. \A i \in 1..Len(queue') : i + 1 \in 1..Len(queue) /\ queue'[i] = queue[i + 1]
  BY <1>1, <1>2
<1>4. NoTwice'
  BY <1>3 DEF NoTwice
<1>5. ASSUME NEW r \in Requests PROVE Waiting(r)' <=> Waiting(r) /\ r # Head(queue)
  <2>1. ASSUME NEW i \in 1..Len(queue'), queue'[i] = r
        PROVE  Waiting(r) /\ r # Head(queue)
    <3>1. i + 1 \in 1..Len(queue) /\ queue[i + 1] = r /\ i + 1 # 1 /\ 1 \in 1..Len(queue)
      BY <1>2, <1>3, <2>1
    <3> QED
      BY <1>2, <3>1 DEF Waiting, NoTwice
  <2>2. ASSUME NEW i \in 1..Len(queue), queue[i] = r, r # Head(queue)
        PROVE  Waiting(r)'
    <3>1. i # 1
      BY <1>2, <2>2
    <3>2. i - 1 \in 1..Len(queue') /\ (i - 1) + 1 = i
      BY <1>1, <1>2, <3>1
    <3> QED
      BY <1>3, <2>2, <3>2 DEF Waiting
  <2> QED
    BY <2>1, <2>2 DEF Waiting
<1>6. Waiting(Head(queue))
  BY <1>2 DEF Waiting
<1> QED
  BY <1>1, <1>2, <1>3, <1>4, <1>5, <1>6

(* Splicing a waiter out.                                                   *)
LEMMA SpliceQueue ==
    ASSUME TypeOK, NoTwice, NEW r \in Requests, Splice(r)
    PROVE  /\ queue' \in Seq(Requests) /\ NoTwice'
           /\ \A q \in Requests : Waiting(q)' <=> Waiting(q) /\ q # r
<1>1. PICK i \in 1..Len(queue) :
          /\ queue[i] = r
          /\ queue' = SubSeq(queue, 1, i - 1) \o SubSeq(queue, i + 1, Len(queue))
  BY RangeOfQueue DEF Splice
<1> DEFINE a == SubSeq(queue, 1, i - 1)
           b == SubSeq(queue, i + 1, Len(queue))
<1>2. Len(queue) \in Nat /\ \A k \in 1..Len(queue) : queue[k] \in Requests
  BY LenProperties, ElementOfSeq DEF TypeOK
<1>3. /\ a \in Seq(Requests) /\ Len(a) = i - 1
      /\ \A k \in 1..(i - 1) : a[k] = queue[k]
  <2>1. /\ a \in Seq(Requests)
        /\ Len(a) = IF 1 <= i - 1 THEN i - 1 - 1 + 1 ELSE 0
        /\ \A k \in 1..(i - 1 - 1 + 1) : a[k] = queue[1 + k - 1]
    BY <1>2, SubSeqProperties
  <2> QED
    BY <2>1
<1>4. /\ b \in Seq(Requests) /\ Len(b) = Len(queue) - i
      /\ \A k \in 1..(Len(queue) - i) : b[k] = queue[i + k]
  <2>1. /\ b \in Seq(Requests)
        /\ Len(b) = IF i + 1 <= Len(queue) THEN Len(queue) - (i + 1) + 1 ELSE 0
        /\ \A k \in 1..(Len(queue) - (i + 1) + 1) : b[k] = queue[i + 1 + k - 1]
    BY <1>2, SubSeqProperties
  <2> QED
    BY <1>2, <2>1
<1> HIDE DEF a, b
<1>5. /\ queue' \in Seq(Requests) /\ Len(queue') = Len(queue) - 1
      /\ \A k \in 1..(Len(queue) - 1) :
             queue'[k] = IF k <= i - 1 THEN queue[k] ELSE queue[k + 1]
  <2>1. /\ a \o b \in Seq(Requests) /\ Len(a \o b) = Len(a) + Len(b)
        /\ \A k \in 1..(Len(a) + Len(b)) :
               (a \o b)[k] = IF k <= Len(a) THEN a[k] ELSE b[k - Len(a)]
    BY <1>3, <1>4, ConcatProperties
  <2>2. queue' = a \o b
    BY <1>1 DEF a, b
  <2>3. ASSUME NEW k \in 1..(Len(queue) - 1)
        PROVE  queue'[k] = IF k <= i - 1 THEN queue[k] ELSE queue[k + 1]
    <3>1. CASE k <= i - 1
      BY <1>2, <1>3, <1>4, <2>1, <2>2, <3>1
    <3>2. CASE ~(k <= i - 1)
      <4>1. k - (i - 1) \in 1..(Len(queue) - i) /\ i + (k - (i - 1)) = k + 1
        BY <1>2, <3>2
      <4>2. b[k - (i - 1)] = queue[k + 1]
        BY <1>4, <4>1
      <4> QED
        BY <1>2, <1>3, <1>4, <2>1, <2>2, <3>2, <4>2
    <3> QED
      BY <3>1, <3>2
  <2>4. Len(a) + Len(b) = Len(queue) - 1
    BY <1>2, <1>3, <1>4
  <2> QED
    BY <2>1, <2>2, <2>3, <2>4
<1>6. NoTwice'
  BY <1>2, <1>5 DEF NoTwice
<1>7. ASSUME NEW q \in Requests PROVE Waiting(q)' <=> Waiting(q) /\ q # r
  <2>1. ASSUME NEW k \in 1..Len(queue'), queue'[k] = q PROVE Waiting(q) /\ q # r
    <3>1. PICK l \in 1..Len(queue) : queue[l] = q /\ l # i
      BY <1>2, <1>5, <2>1
    <3> QED
      BY <1>1, <3>1 DEF Waiting, NoTwice
  <2>2. ASSUME NEW k \in 1..Len(queue), queue[k] = q, q # r PROVE Waiting(q)'
    <3>1. k # i
      BY <1>1, <2>2
    <3>2. CASE k < i
      <4>1. k \in 1..Len(queue') /\ queue'[k] = q
        BY <1>2, <1>5, <2>2, <3>2
      <4> QED
        BY <4>1 DEF Waiting
    <3>3. CASE k > i
      <4>1. k - 1 \in 1..Len(queue') /\ queue'[k - 1] = q
        BY <1>2, <1>5, <2>2, <3>3
      <4> QED
        BY <4>1 DEF Waiting
    <3> QED
      BY <1>2, <3>1, <3>2, <3>3
  <2> QED
    BY <2>1, <2>2 DEF Waiting
<1> QED
  BY <1>5, <1>6, <1>7

------------------------------------------------------------------------------
(* Each thing that can happen to the queue keeps QueueInv.                   *)

LEMMA SettleInv ==
    ASSUME QueueInv, NEW payload \in Requests \cup {Garbage}, SettleNext(payload),
           failure' = failure
    PROVE  /\ queue' \in Seq(Requests) /\ timers' \in SUBSET Requests
           /\ status' \in [Requests -> {"new", "pending", "resolved", "rejected"}]
           /\ answer' \in [Requests -> Requests \cup {Garbage, None}]
           /\ NoTwice'
           /\ \A r \in Requests : status'[r] = "pending" <=> Waiting(r)'
           /\ \A r \in Requests : r \in timers' <=> Timed /\ Waiting(r)'
           /\ failure # None => queue' = <<>>
<1>0. TypeOK /\ NoTwice
  BY DEF QueueInv
<1>1. CASE queue = <<>>
  BY <1>0, <1>1 DEF SettleNext, QueueInv, TypeOK, NoTwice, Waiting
<1>2. CASE queue # <<>>
  <2>1. /\ queue' = Tail(queue)
        /\ timers' = timers \ {Head(queue)}
        /\ status' = [status EXCEPT ![Head(queue)] = "resolved"]
        /\ answer' = [answer EXCEPT ![Head(queue)] = payload]
    BY <1>2 DEF SettleNext
  <2>2. /\ Head(queue) \in Requests
        /\ queue' \in Seq(Requests) /\ NoTwice'
        /\ \A r \in Requests : Waiting(r)' <=> Waiting(r) /\ r # Head(queue)
    BY <1>0, <1>2, <2>1, ShiftQueue
  <2>3. failure = None
    BY <1>2 DEF QueueInv
  <2>4. \A r \in Requests : r # Head(queue) => status'[r] = status[r]
    BY <1>0, <2>1 DEF TypeOK
  <2>5. status'[Head(queue)] = "resolved"
    BY <1>0, <2>1, <2>2 DEF TypeOK
  <2>6. \A r \in Requests : status'[r] = "pending" <=> Waiting(r)'
    BY <2>2, <2>4, <2>5 DEF QueueInv
  <2>7. \A r \in Requests : r \in timers' <=> Timed /\ Waiting(r)'
    BY <2>1, <2>2 DEF QueueInv
  <2>8. /\ timers' \in SUBSET Requests
        /\ status' \in [Requests -> {"new", "pending", "resolved", "rejected"}]
        /\ answer' \in [Requests -> Requests \cup {Garbage, None}]
    BY <1>0, <2>1, <2>2 DEF TypeOK
  <2> QED
    BY <2>2, <2>3, <2>6, <2>7, <2>8
<1> QED
  BY <1>1, <1>2

LEMMA FailAllInv ==
    ASSUME QueueInv, NEW error \in Failures, FailAll(error)
    PROVE  /\ queue' = <<>> /\ queue' \in Seq(Requests) /\ timers' = {}
           /\ failure' \in Failures \cup {None}
           /\ status' \in [Requests -> {"new", "pending", "resolved", "rejected"}]
           /\ answer' \in [Requests -> Requests \cup {Garbage, None}]
           /\ NoTwice'
           /\ \A r \in Requests : status'[r] = "pending" <=> Waiting(r)'
           /\ \A r \in Requests : ~Waiting(r)'
<1>0. TypeOK
  BY DEF QueueInv
<1>1. queue' = <<>> /\ queue' \in Seq(Requests) /\ Len(queue') = 0
  BY EmptySeq DEF FailAll
<1>2. NoTwice' /\ \A r \in Requests : ~Waiting(r)'
  BY <1>1 DEF NoTwice, Waiting
<1>3. Range(queue) = {r \in Requests : Waiting(r)}
  BY <1>0, RangeOfQueue
<1>4. /\ status' \in [Requests -> {"new", "pending", "resolved", "rejected"}]
      /\ \A r \in Requests : status'[r] = IF Waiting(r) THEN "rejected" ELSE status[r]
  BY <1>0, <1>3 DEF FailAll, TypeOK
<1>5. \A r \in Requests : status'[r] # "pending"
  BY <1>4 DEF QueueInv
<1>6. timers' = {}
  BY <1>0, <1>3 DEF FailAll, QueueInv, TypeOK
<1> QED
  BY <1>0, <1>1, <1>2, <1>4, <1>5, <1>6 DEF FailAll, TypeOK

LEMMA NextQueueInv == QueueInv /\ [Next]_vars => QueueInv'
<1> SUFFICES ASSUME QueueInv, [Next]_vars PROVE QueueInv'
  OBVIOUS
<1>0. TypeOK /\ NoTwice /\ queue \in Seq(Requests)
  BY DEF QueueInv, TypeOK
<1> USE DEF client, wire
<1>1. ASSUME NEW r \in Requests, Request(r) PROVE QueueInv'
  <2>1. /\ queue' = Append(queue, r) /\ status[r] = "new" /\ failure = None
        /\ status' = [status EXCEPT ![r] = "pending"]
    BY <1>1 DEF Request
  <2>2. /\ queue' \in Seq(Requests) /\ Len(queue') = Len(queue) + 1
        /\ \A i \in 1..Len(queue) : queue'[i] = queue[i]
        /\ queue'[Len(queue) + 1] = r /\ Len(queue) \in Nat
    BY <1>0, <2>1, AppendProperties, LenProperties
  <2>3. ~Waiting(r)
    BY <2>1 DEF QueueInv
  <2>4. \A q \in Requests : Waiting(q)' <=> Waiting(q) \/ q = r
    BY <2>2 DEF Waiting
  <2>5. NoTwice'
    BY <1>0, <2>2, <2>3 DEF NoTwice, Waiting
  <2>6. \A q \in Requests : status'[q] = "pending" <=> Waiting(q)'
    BY <1>0, <2>1, <2>4 DEF QueueInv, TypeOK
  <2>7. \A q \in Requests : q \in timers' <=> Timed /\ Waiting(q)'
    BY <1>1, <2>4, OptionAssumption DEF Request, QueueInv
  <2>8. toServer' \in Seq(Requests)
    BY <1>0, <1>1, AppendProperties DEF Request, TypeOK
  <2> QED
    BY <1>0, <1>1, <2>1, <2>2, <2>5, <2>6, <2>7, <2>8 DEF Request, QueueInv, TypeOK
<1>2. ASSUME NEW r \in Requests, RequestRefused(r) \/ RequestUnwritten(r) PROVE QueueInv'
  <2>1. /\ status[r] = "new" /\ status' = [status EXCEPT ![r] = "rejected"]
        /\ UNCHANGED <<queue, timers, failure, closed, decoder, answer, wire>>
    BY <1>2 DEF RequestRefused, RequestUnwritten
  <2>2. NoTwice' /\ \A q \in Requests : Waiting(q)' <=> Waiting(q)
    BY <1>0, <2>1 DEF NoTwice, Waiting
  <2>3. \A q \in Requests : status'[q] = "pending" <=> status[q] = "pending"
    BY <1>0, <2>1 DEF TypeOK
  <2>4. TypeOK'
    BY <1>0, <2>1 DEF TypeOK
  <2>5. \A q \in Requests : status'[q] = "pending" <=> Waiting(q)'
    BY <2>2, <2>3 DEF QueueInv
  <2>6. \A q \in Requests : q \in timers' <=> Timed /\ Waiting(q)'
    BY <2>1, <2>2 DEF QueueInv
  <2> QED
    BY <2>1, <2>2, <2>4, <2>5, <2>6 DEF QueueInv
<1>3. ASSUME NEW r \in Requests, Timeout(r) PROVE QueueInv'
  <2>1. r \in timers /\ Waiting(r) /\ Timed
    BY <1>3 DEF Timeout, QueueInv
  <2>2. Splice(r) /\ status' = [status EXCEPT ![r] = "rejected"] /\ timers' = timers \ {r}
    BY <1>0, <1>3, <2>1, RangeOfQueue DEF Timeout
  <2>3. /\ queue' \in Seq(Requests) /\ NoTwice'
        /\ \A q \in Requests : Waiting(q)' <=> Waiting(q) /\ q # r
    BY <1>0, <2>2, SpliceQueue
  <2>4. failure' = failure /\ failure = None
    <3>1. queue # <<>>
      BY <2>1, EmptySeq DEF Waiting
    <3> QED
      BY <1>3, <3>1 DEF Timeout, QueueInv
  <2> QED
    BY <1>0, <1>3, <2>1, <2>2, <2>3, <2>4 DEF Timeout, QueueInv, TypeOK
<1>4. CASE Close
  BY <1>0, <1>4 DEF Close, QueueInv, TypeOK, NoTwice, Waiting
<1>5. CASE DataPart
  BY <1>0, <1>5 DEF DataPart, QueueInv, TypeOK, NoTwice, Waiting
<1>6. CASE Data
  <2>1. Head(toClient) \in Requests /\ toClient' \in Seq(Requests)
    BY <1>0, <1>6, HeadTailProperties DEF Data, Receiving, TypeOK
  <2>2. SettleNext(Head(toClient)) /\ failure' = failure
    BY <1>6 DEF Data
  <2> QED
    BY <1>0, <1>6, <2>1, <2>2, SettleInv DEF Data, QueueInv, TypeOK
<1>7. CASE GarbledData
  <2>1. toClient' \in Seq(Requests)
    BY <1>0, <1>7, HeadTailProperties DEF GarbledData, Receiving, TypeOK
  <2>2. CASE SettleNext(Garbage)
    BY <1>0, <1>7, <2>1, <2>2, SettleInv DEF GarbledData, QueueInv, TypeOK
  <2>3. CASE UNCHANGED <<queue, timers, status, answer>>
    BY <1>0, <1>7, <2>1, <2>3 DEF GarbledData, QueueInv, TypeOK, NoTwice, Waiting
  <2> QED
    BY <1>7, <2>2, <2>3 DEF GarbledData
<1>8. ASSUME NEW n \in 0..Len(toClient)
      PROVE  /\ SubSeq(toClient, n + 1, Len(toClient)) \in Seq(Requests)
             /\ SubSeq(toClient, 1, n) \in Seq(Requests)
  <2>1. \A i \in 1..Len(toClient) : toClient[i] \in Requests
    BY <1>0, ElementOfSeq DEF TypeOK
  <2>2. Len(toClient) \in Nat
    BY <1>0, LenProperties DEF TypeOK
  <2>3. \A i \in n + 1..Len(toClient) : toClient[i] \in Requests
    BY <2>1, <2>2
  <2>4. \A i \in 1..n : toClient[i] \in Requests
    BY <2>1, <2>2
  <2> QED
    BY <2>2, <2>3, <2>4, SubSeqProperties
<1>9. CASE BadData
  <2>1. toClient' \in Seq(Requests)
    BY <1>8, <1>9 DEF BadData
  <2>2. FailAll("decode") /\ "decode" \in Failures
    BY <1>9 DEF BadData, Failures
  <2> QED
    BY <1>0, <1>9, <2>1, <2>2, FailAllInv DEF BadData, QueueInv, TypeOK
<1>10. CASE SocketError
  <2>1. FailAll("transport") /\ "transport" \in Failures
    BY <1>10 DEF SocketError, Failures
  <2> QED
    BY <1>0, <1>10, <2>1, FailAllInv DEF SocketError, QueueInv, TypeOK
<1>11. CASE SocketClose
  <2>1. CASE closed
    BY <1>0, <1>11, <2>1 DEF SocketClose, QueueInv, TypeOK, NoTwice, Waiting
  <2>2. CASE ~closed
    <3>1. FailAll("closed by peer") /\ "closed by peer" \in Failures
      BY <1>11, <2>2 DEF SocketClose, Failures
    <3> QED
      BY <1>0, <1>11, <3>1, FailAllInv DEF SocketClose, QueueInv, TypeOK
  <2> QED
    BY <2>1, <2>2
<1>12. CASE Serve
  <2>1. toServer' \in Seq(Requests) /\ toClient' \in Seq(Requests)
    BY <1>0, <1>12, HeadTailProperties, AppendProperties DEF Serve, TypeOK
  <2> QED
    BY <1>0, <1>12, <2>1 DEF Serve, QueueInv, TypeOK, NoTwice, Waiting
<1>13. CASE PeerEnd
  <2>1. toClient' \in Seq(Requests)
    BY <1>8, <1>13 DEF PeerEnd
  <2> QED
    BY <1>0, <1>13, <2>1 DEF PeerEnd, QueueInv, TypeOK, NoTwice, Waiting
<1>14. CASE UNCHANGED vars
  BY <1>0, <1>14 DEF vars, QueueInv, TypeOK, NoTwice, Waiting
<1> QED
  BY <1>1, <1>2, <1>3, <1>4, <1>5, <1>6, <1>7, <1>9, <1>10, <1>11, <1>12, <1>13, <1>14
  DEF Next

LEMMA InitQueueInv == Init => QueueInv
<1> SUFFICES ASSUME Init PROVE QueueInv
  OBVIOUS
<1>1. queue \in Seq(Requests) /\ toServer \in Seq(Requests) /\ toClient \in Seq(Requests)
      /\ Len(queue) = 0
  BY EmptySeq DEF Init
<1>2. TypeOK
  BY <1>1 DEF Init, TypeOK
<1>3. NoTwice /\ \A r \in Requests : ~Waiting(r)
  BY <1>1 DEF NoTwice, Waiting
<1>4. /\ timers = {} /\ failure = None
      /\ \A r \in Requests : status[r] = "new"
  BY DEF Init
<1> QED
  BY <1>2, <1>3, <1>4 DEF QueueInv

LEMMA AlwaysQueueInv == Spec => []QueueInv
  BY InitQueueInv, NextQueueInv, PTL DEF Spec

(* Every exit path takes the request out of the queue and clears its timer,  *)
(* and only its own: for every number of requests and every order of         *)
(* responses, timeouts, failures and close().                                *)
THEOREM BookkeepingCorrect == Spec => []Bookkeeping
<1>1. QueueInv => Bookkeeping
  <2> SUFFICES ASSUME QueueInv PROVE Bookkeeping
    OBVIOUS
  <2>1. /\ Range(queue) = {r \in Requests : Waiting(r)}
        /\ DOMAIN queue = 1..Len(queue)
    BY RangeOfQueue DEF QueueInv
  <2>2. \A i, j \in DOMAIN queue : queue[i] = queue[j] => i = j
    BY <2>1 DEF QueueInv, NoTwice
  <2>3. Range(queue) = {r \in Requests : status[r] = "pending"}
    BY <2>1 DEF QueueInv
  <2>4. timers = IF Timed THEN Range(queue) ELSE {}
    BY <2>1 DEF QueueInv, TypeOK
  <2> QED
    BY <2>2, <2>3, <2>4 DEF Bookkeeping, QueueInv
<1> QED
  BY <1>1, AlwaysQueueInv, PTL

(* A promise that is settled stays as it is, whatever arrives afterwards.    *)
THEOREM SettledOnceCorrect == Spec => SettledOnce
<1> DEFINE A == \A r \in Requests : status[r] \in {"resolved", "rejected"}
                    => status'[r] = status[r] /\ answer'[r] = answer[r]
<1>1. ASSUME QueueInv, [Next]_vars PROVE A
  <2> USE DEF client, wire
  <2>0. TypeOK /\ \A r \in Requests : status[r] \in {"resolved", "rejected"} => ~Waiting(r)
    BY <1>1 DEF QueueInv
  <2>1. ASSUME NEW r \in Requests, Request(r) \/ RequestRefused(r) \/ RequestUnwritten(r)
        PROVE  A
    BY <2>0, <2>1 DEF Request, RequestRefused, RequestUnwritten, TypeOK
  <2>2. ASSUME NEW r \in Requests, Timeout(r) PROVE A
    <3>1. Waiting(r)
      BY <1>1, <2>2 DEF Timeout, QueueInv
    <3> QED
      BY <2>0, <2>2, <3>1, RangeOfQueue DEF Timeout, TypeOK
  <2>3. ASSUME NEW payload, SettleNext(payload) PROVE A
    <3>1. CASE queue = <<>>
      BY <2>3, <3>1 DEF SettleNext
    <3>2. CASE queue # <<>>
      <4>1. Waiting(Head(queue))
        BY <2>0, <3>2, EmptySeq DEF TypeOK, Waiting
      <4> QED
        BY <2>0, <2>3, <3>2, <4>1 DEF SettleNext, TypeOK
    <3> QED
      BY <3>1, <3>2
  <2>4. ASSUME NEW error, FailAll(error) PROVE A
    BY <2>0, <2>4, RangeOfQueue DEF FailAll, TypeOK
  <2>5. CASE Data \/ GarbledData
    BY <2>3, <2>5 DEF Data, GarbledData
  <2>6. CASE BadData \/ SocketError \/ SocketClose
    BY <2>4, <2>6 DEF BadData, SocketError, SocketClose
  <2>7. CASE Close \/ DataPart \/ Serve \/ PeerEnd \/ UNCHANGED vars
    BY <2>7 DEF Close, DataPart, Serve, PeerEnd, vars
  <2> QED
    BY <1>1, <2>1, <2>2, <2>5, <2>6, <2>7 DEF Next
<1>2. QueueInv /\ [Next]_vars => [A]_vars
  BY <1>1
<1> QED
  BY <1>2, AlwaysQueueInv, PTL DEF Spec, SettledOnce

------------------------------------------------------------------------------
(* First in, first out.  Without timeouts and close() the queue is, request  *)
(* by request, what is on the wire: the responses on their way, then the     *)
(* requests the server has not read.  That is what makes the oldest waiter   *)
(* the right one; a timeout takes a request out of the queue and leaves its  *)
(* response on the wire (run ipc_late_answer).                               *)

Pipeline ==
    /\ Len(toClient) <= Len(queue)
    /\ \A i \in 1..Len(toClient) : toClient[i] = queue[i]
    /\ ~peerEnded =>
           /\ Len(queue) = Len(toClient) + Len(toServer)
           /\ \A i \in 1..Len(toServer) : queue[Len(toClient) + i] = toServer[i]

OrderInv ==
    /\ QueueInv
    /\ decoder # "garbled"
    /\ socket = "connected" => Pipeline
    /\ AnswersMatch

LEMMA FailKeepsAnswers ==
    ASSUME OrderInv, NEW error, FailAll(error)
    PROVE  AnswersMatch'
<1>1. \A r \in Requests : status'[r] = "resolved" => status[r] = "resolved"
  BY DEF FailAll
<1> QED
  BY <1>1 DEF FailAll, OrderInv, AnswersMatch

LEMMA NextOrderInv ==
    ASSUME ~Timed, ~Closes, OrderInv, [Next]_vars
    PROVE  OrderInv'
<1> USE DEF client, wire
<1>0. /\ QueueInv /\ QueueInv' /\ TypeOK /\ TypeOK' /\ NoTwice
      /\ queue \in Seq(Requests) /\ toClient \in Seq(Requests) /\ toServer \in Seq(Requests)
  BY NextQueueInv DEF OrderInv, QueueInv, TypeOK
<1>00. /\ Len(queue) \in Nat /\ Len(toClient) \in Nat /\ Len(toServer) \in Nat
  BY <1>0, LenProperties
<1>1. ASSUME NEW r \in Requests, Request(r) PROVE OrderInv'
  <2>1. /\ queue' = Append(queue, r) /\ toServer' = Append(toServer, r)
        /\ toClient' = toClient /\ peerEnded' = peerEnded /\ socket' = socket
        /\ status' = [status EXCEPT ![r] = "pending"] /\ answer' = answer
        /\ decoder' = decoder
    BY <1>1 DEF Request
  <2>2. /\ Len(queue') = Len(queue) + 1 /\ queue'[Len(queue) + 1] = r
        /\ \A i \in 1..Len(queue) : queue'[i] = queue[i]
    BY <1>0, <2>1, AppendProperties
  <2>3. /\ Len(toServer') = Len(toServer) + 1 /\ toServer'[Len(toServer) + 1] = r
        /\ \A i \in 1..Len(toServer) : toServer'[i] = toServer[i]
    BY <1>0, <2>1, AppendProperties
  <2>4. ASSUME Pipeline PROVE Pipeline'
    <3>1. Len(toClient') <= Len(queue') /\ \A i \in 1..Len(toClient') : toClient'[i] = queue'[i]
      BY <1>00, <2>1, <2>2, <2>4 DEF Pipeline
    <3>2. ASSUME ~peerEnded
          PROVE  /\ Len(queue') = Len(toClient) + Len(toServer')
                 /\ \A i \in 1..Len(toServer') : queue'[Len(toClient) + i] = toServer'[i]
      <4>1. /\ Len(queue) = Len(toClient) + Len(toServer)
            /\ \A i \in 1..Len(toServer) : queue[Len(toClient) + i] = toServer[i]
        BY <2>4, <3>2 DEF Pipeline
      <4>2. ASSUME NEW i \in 1..Len(toServer)
            PROVE  queue'[Len(toClient) + i] = toServer'[i]
        <5>1. Len(toClient) + i \in 1..Len(queue)
          BY <1>00, <4>1
        <5> QED
          BY <2>2, <2>3, <4>1, <5>1
      <4>3. queue'[Len(toClient) + (Len(toServer) + 1)] = toServer'[Len(toServer) + 1]
        <5>1. Len(toClient) + (Len(toServer) + 1) = Len(queue) + 1
          BY <1>00, <4>1
        <5> QED
          BY <2>2, <2>3, <5>1
      <4>4. \A i \in 1..Len(toServer') : i \in 1..Len(toServer) \/ i = Len(toServer) + 1
        BY <1>00, <2>3
      <4>5. Len(queue') = Len(toClient) + Len(toServer')
        BY <1>00, <2>2, <2>3, <4>1
      <4> QED
        BY <4>2, <4>3, <4>4, <4>5
    <3> QED
      BY <2>1, <3>1, <3>2 DEF Pipeline
  <2>5. AnswersMatch'
    BY <1>0, <2>1 DEF OrderInv, AnswersMatch, TypeOK
  <2> QED
    BY <1>0, <2>1, <2>4, <2>5 DEF OrderInv
<1>2. ASSUME NEW r \in Requests, RequestRefused(r) \/ RequestUnwritten(r) PROVE OrderInv'
  <2>1. /\ status' = [status EXCEPT ![r] = "rejected"]
        /\ UNCHANGED <<queue, timers, failure, closed, decoder, answer, wire>>
    BY <1>2 DEF RequestRefused, RequestUnwritten
  <2>2. AnswersMatch'
    BY <1>0, <2>1 DEF OrderInv, AnswersMatch, TypeOK
  <2>3. Pipeline' <=> Pipeline
    BY <2>1 DEF Pipeline
  <2> QED
    BY <1>0, <2>1, <2>2, <2>3 DEF OrderInv
<1>3. ASSUME NEW r \in Requests, Timeout(r) PROVE OrderInv'
  BY <1>0, <1>3 DEF Timeout, QueueInv
<1>4. CASE Close
  BY <1>4 DEF Close
<1>5. CASE DataPart
  <2>1. Pipeline' <=> Pipeline
    BY <1>5 DEF DataPart, Pipeline
  <2> QED
    BY <1>0, <1>5, <2>1 DEF DataPart, OrderInv, AnswersMatch
<1>6. CASE Data
  <2>1. /\ toClient # <<>> /\ socket = "connected" /\ Pipeline
        /\ SettleNext(Head(toClient)) /\ toClient' = Tail(toClient)
        /\ UNCHANGED <<socket, peerEnded, toServer>> /\ decoder' = "boundary"
    BY <1>6 DEF Data, Receiving, OrderInv
  <2>2. /\ Head(toClient) = toClient[1] /\ Len(toClient) \in Nat \ {0}
        /\ Len(toClient') = Len(toClient) - 1
        /\ \A i \in 1..Len(toClient') : toClient'[i] = toClient[i + 1]
    BY <1>0, <2>1, HeadTailProperties, EmptySeq
  <2>3. queue # <<>>
    BY <1>00, <2>1, <2>2, EmptySeq DEF Pipeline
  <2>4. /\ queue' = Tail(queue)
        /\ status' = [status EXCEPT ![Head(queue)] = "resolved"]
        /\ answer' = [answer EXCEPT ![Head(queue)] = Head(toClient)]
    BY <2>1, <2>3 DEF SettleNext
  <2>5. /\ Head(queue) = queue[1] /\ Head(queue) \in Requests
        /\ Len(queue') = Len(queue) - 1
        /\ \A i \in 1..Len(queue') : queue'[i] = queue[i + 1]
    BY <1>0, <2>3, <2>4, HeadTailProperties, EmptySeq
  <2>6. Head(queue) = Head(toClient)
    BY <2>1, <2>2, <2>5 DEF Pipeline
  <2>7. AnswersMatch'
    BY <1>0, <2>4, <2>5, <2>6 DEF OrderInv, AnswersMatch, TypeOK
  <2>8. Pipeline'
    <3>1. Len(toClient') <= Len(queue') /\ \A i \in 1..Len(toClient') : toClient'[i] = queue'[i]
      BY <1>00, <2>1, <2>2, <2>5 DEF Pipeline
    <3>2. ASSUME ~peerEnded
          PROVE  /\ Len(queue') = Len(toClient') + Len(toServer)
                 /\ \A i \in 1..Len(toServer) : queue'[Len(toClient') + i] = toServer[i]
      <4>1. Len(queue) = Len(toClient) + Len(toServer)
        BY <2>1, <3>2 DEF Pipeline
      <4>2. ASSUME NEW i \in 1..Len(toServer)
            PROVE  queue'[Len(toClient') + i] = toServer[i]
        <5>1. /\ Len(toClient') + i \in 1..Len(queue')
              /\ Len(toClient') + i + 1 = Len(toClient) + i
          BY <1>00, <2>2, <2>5, <4>1
        <5>2. queue'[Len(toClient') + i] = queue[Len(toClient) + i]
          BY <2>5, <5>1
        <5> QED
          BY <2>1, <3>2, <5>2 DEF Pipeline
      <4> QED
        BY <1>00, <2>2, <2>5, <4>1, <4>2
    <3> QED
      BY <2>1, <3>1, <3>2 DEF Pipeline
  <2> QED
    BY <1>0, <2>1, <2>7, <2>8 DEF OrderInv
<1>7. CASE GarbledData
  BY <1>7 DEF GarbledData, OrderInv
<1>8. CASE BadData \/ SocketError
  <2>1. socket' # "connected" /\ decoder' = decoder
    BY <1>8 DEF BadData, SocketError
  <2>2. AnswersMatch'
    BY <1>8, FailKeepsAnswers DEF BadData, SocketError
  <2> QED
    BY <1>0, <2>1, <2>2 DEF OrderInv
<1>9. CASE SocketClose
  <2>1. socket' # "connected" /\ decoder' = decoder
    BY <1>9 DEF SocketClose
  <2>2. AnswersMatch'
    <3>1. CASE closed
      BY <1>9, <3>1 DEF SocketClose, OrderInv, AnswersMatch
    <3>2. CASE ~closed
      BY <1>9, <3>2, FailKeepsAnswers DEF SocketClose
    <3> QED
      BY <3>1, <3>2
  <2> QED
    BY <1>0, <2>1, <2>2 DEF OrderInv
<1>10. CASE Serve
  <2>1. /\ ~peerEnded /\ toServer # <<>> /\ toServer' = Tail(toServer)
        /\ toClient' = Append(toClient, Head(toServer))
        /\ UNCHANGED <<client, socket, peerEnded>>
    BY <1>10 DEF Serve
  <2>2. /\ Head(toServer) = toServer[1] /\ Len(toServer) \in Nat \ {0}
        /\ Head(toServer) \in Requests
        /\ Len(toServer') = Len(toServer) - 1
        /\ \A i \in 1..Len(toServer') : toServer'[i] = toServer[i + 1]
    BY <1>0, <2>1, HeadTailProperties, EmptySeq
  <2>3. /\ Len(toClient') = Len(toClient) + 1 /\ toClient'[Len(toClient) + 1] = toServer[1]
        /\ \A i \in 1..Len(toClient) : toClient'[i] = toClient[i]
    BY <1>0, <2>1, <2>2, AppendProperties
  <2>4. ASSUME Pipeline PROVE Pipeline'
    <3>1. /\ Len(queue) = Len(toClient) + Len(toServer)
          /\ \A i \in 1..Len(toServer) : queue[Len(toClient) + i] = toServer[i]
      BY <2>1, <2>4 DEF Pipeline
    <3>2. queue[Len(toClient) + 1] = toServer[1]
      BY <2>2, <3>1
    <3>3. ASSUME NEW i \in 1..Len(toClient') PROVE toClient'[i] = queue[i]
      <4>1. CASE i \in 1..Len(toClient)
        BY <2>3, <2>4, <4>1 DEF Pipeline
      <4>2. CASE i = Len(toClient) + 1
        BY <2>3, <3>2, <4>2
      <4> QED
        BY <1>00, <2>3, <4>1, <4>2
    <3>4. ASSUME NEW i \in 1..Len(toServer') PROVE queue[Len(toClient') + i] = toServer'[i]
      <4>1. i + 1 \in 1..Len(toServer) /\ Len(toClient') + i = Len(toClient) + (i + 1)
        BY <1>00, <2>2, <2>3
      <4> QED
        BY <2>2, <3>1, <4>1
    <3>5. Len(toClient') <= Len(queue) /\ Len(queue) = Len(toClient') + Len(toServer')
      BY <1>00, <2>2, <2>3, <3>1
    <3> QED
      BY <2>1, <3>3, <3>4, <3>5 DEF Pipeline
  <2> QED
    BY <1>0, <2>1, <2>4 DEF OrderInv, AnswersMatch
<1>11. CASE PeerEnd
  <2>1. PICK n \in 0..Len(toClient) : toClient' = SubSeq(toClient, 1, n)
    BY <1>11 DEF PeerEnd
  <2>2. Len(toClient') = n /\ \A i \in 1..n : toClient'[i] = toClient[i]
    <3>1. \A i \in 1..n : toClient[i] \in Requests
      BY <1>0, <1>00, ElementOfSeq
    <3>2. /\ Len(toClient') = IF 1 <= n THEN n - 1 + 1 ELSE 0
          /\ \A i \in 1..(n - 1 + 1) : toClient'[i] = toClient[1 + i - 1]
      BY <1>00, <2>1, <3>1, SubSeqProperties
    <3> QED
      BY <1>00, <3>2
  <2>3. peerEnded' = TRUE /\ UNCHANGED <<client, socket, toServer>>
    BY <1>11 DEF PeerEnd
  <2>4. ASSUME Pipeline PROVE Pipeline'
    BY <1>00, <2>2, <2>3, <2>4 DEF Pipeline
  <2> QED
    BY <1>0, <2>3, <2>4 DEF OrderInv, AnswersMatch
<1>12. CASE UNCHANGED vars
  <2>1. Pipeline' <=> Pipeline
    BY <1>12 DEF vars, Pipeline
  <2> QED
    BY <1>0, <1>12, <2>1 DEF vars, OrderInv, AnswersMatch
<1> QED
  BY <1>1, <1>2, <1>3, <1>4, <1>5, <1>6, <1>7, <1>8, <1>9, <1>10, <1>11, <1>12 DEF Next

LEMMA AlwaysOrderInv ==
    ASSUME ~Timed, ~Closes
    PROVE  Spec => []OrderInv
<1>1. Init => OrderInv
  <2> SUFFICES ASSUME Init PROVE OrderInv
    OBVIOUS
  <2>1. Len(queue) = 0 /\ Len(toClient) = 0 /\ Len(toServer) = 0
    BY EmptySeq DEF Init
  <2>2. Pipeline
    BY <2>1 DEF Pipeline
  <2> QED
    BY <2>2, InitQueueInv DEF Init, OrderInv, AnswersMatch
<1>2. OrderInv /\ [Next]_vars => OrderInv'
  BY NextOrderInv
<1> QED
  BY <1>1, <1>2, PTL DEF Spec

(* A client without timeouts that is not closed early hands every request    *)
(* its own response, however chunks, failures and the end of the stream fall.*)
THEOREM AnswersMatchCorrect ==
    ASSUME ~Timed, ~Closes
    PROVE  Spec => []AnswersMatch
<1>1. OrderInv => AnswersMatch
  BY DEF OrderInv
<1> QED
  BY <1>1, AlwaysOrderInv, PTL

------------------------------------------------------------------------------
(* The client implements RequestResponse: every step of it settles promises  *)
(* the way the abstract specification allows, or does not touch them.        *)

(* What a failure of the connection does is one Reject.                      *)
LEMMA FailAllRejects ==
    ASSUME QueueInv, NEW error, FailAll(error)
    PROVE  \E some \in SUBSET Requests : Promises!Reject(some)
<1> DEFINE waiting == {r \in Requests : Waiting(r)}
<1>1. Range(queue) = waiting /\ \A r \in waiting : status[r] = "pending"
  BY RangeOfQueue DEF QueueInv
<1>2. Promises!Reject(waiting)
  BY <1>1 DEF FailAll, Promises!Reject
<1> QED
  BY <1>2

(* What an answer does is one Resolve, or nothing when nobody waits.         *)
LEMMA AnswerResolves ==
    ASSUME QueueInv, AnswersMatch', NEW payload, SettleNext(payload)
    PROVE  \/ \E r \in Requests : Promises!Resolve(r)
           \/ UNCHANGED Promises!promises
<1>1. CASE queue = <<>>
  BY <1>1 DEF SettleNext, Promises!promises
<1>2. CASE queue # <<>>
  <2> DEFINE r == Head(queue)
  <2>1. r \in Requests /\ status[r] = "pending"
    <3>1. r = queue[1] /\ 1 \in 1..Len(queue) /\ r \in Requests
      BY <1>2, EmptySeq, HeadTailProperties DEF QueueInv, TypeOK
    <3> QED
      BY <3>1 DEF QueueInv, Waiting
  <2>2. /\ status' = [status EXCEPT ![r] = "resolved"]
        /\ answer' = [answer EXCEPT ![r] = payload]
    BY <1>2 DEF SettleNext
  <2>3. payload = r
    BY <2>1, <2>2 DEF AnswersMatch, QueueInv, TypeOK
  <2> QED
    BY <2>1, <2>2, <2>3 DEF Promises!Resolve
<1> QED
  BY <1>1, <1>2

(* A client without timeouts that is not closed early keeps the promises of  *)
(* RequestResponse: each request is settled once, with its own answer or     *)
(* with an error.                                                            *)
THEOREM PromisesKeptCorrect ==
    ASSUME ~Timed, ~Closes
    PROVE  Spec => PromisesKept
<1>1. Init => Promises!Init
  BY DEF Init, Promises!Init
<1>2. ASSUME OrderInv, OrderInv', [Next]_vars
      PROVE  [Promises!Next]_(Promises!promises)
  <2> USE DEF client, wire
  <2>0. QueueInv /\ AnswersMatch' /\ timers = {}
    BY <1>2 DEF OrderInv, QueueInv, TypeOK
  <2>1. ASSUME NEW r \in Requests, Request(r)
        PROVE  Promises!Issue(r)
    BY <2>1 DEF Request, Promises!Issue
  <2>2. ASSUME NEW r \in Requests, RequestRefused(r) \/ RequestUnwritten(r)
        PROVE  Promises!Refuse(r)
    BY <2>2 DEF RequestRefused, RequestUnwritten, Promises!Refuse
  <2>3. ASSUME NEW r \in Requests, Timeout(r)
        PROVE  FALSE
    BY <2>0, <2>3 DEF Timeout
  <2>4. CASE Data \/ GarbledData
    <3>1. \/ \E payload : SettleNext(payload)
          \/ UNCHANGED Promises!promises
      BY <2>4 DEF Data, GarbledData, Promises!promises
    <3> QED
      BY <2>0, <3>1, AnswerResolves DEF Promises!Next
  <2>5. CASE BadData \/ SocketError \/ SocketClose
    <3>1. \/ \E error : FailAll(error)
          \/ UNCHANGED Promises!promises
      BY <2>5 DEF BadData, SocketError, SocketClose, Promises!promises
    <3> QED
      BY <2>0, <3>1, FailAllRejects DEF Promises!Next
  <2>6. CASE Close \/ DataPart \/ Serve \/ PeerEnd \/ UNCHANGED vars
    BY <2>6 DEF Close, DataPart, Serve, PeerEnd, vars, Promises!promises
  <2> QED
    BY <1>2, <2>1, <2>2, <2>3, <2>4, <2>5, <2>6 DEF Next, Promises!Next
<1> QED
  BY <1>1, <1>2, AlwaysOrderInv, PTL DEF Spec, PromisesKept, Promises!Spec
==============================================================================
