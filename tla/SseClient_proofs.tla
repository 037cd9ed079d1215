-------------------------- MODULE SseClient_proofs ---------------------------
(* Proofs about SseClient, for any number of events, errors and calls, from *)
(* whichever callbacks, and a factory that may throw, up to the first       *)
(* close() that meets a handler half way (`crossed'); and, below, about     *)
(* UseSse, the hook that runs such a client, its cells and its throttle.    *)
EXTENDS UseSse, SequenceTheorems, TLAPS

USE DEF Busy, CountUp, ClearReconnect

(* Only the innermost frame can be of a handler half way.                   *)
UnfinishedOnTop ==
    \A i \in 1..Len(stack) : stack[i].at \in Unfinished => i = 1

Settled == \A i \in 1..Len(stack) : stack[i].at \notin Unfinished

(* The fields account for every live source and every armed timer.          *)
Accounted ==
    /\ \A s \in Sources : feed[s] = "live" <=> s = source
    /\ \A t \in Timers : t \in armed <=> t = reconnectHandle

(* What the client is up to, by the frame it is in.                         *)
Situation ==
    /\ At("dial") \/ At("arm") =>
           state = "connecting" /\ source = NoSource /\ reconnectHandle = NoTimer
    /\ At("arm") \/ At("teardown") => ~thrown
    /\ At("teardown") =>
           state \in {"connecting", "open"} /\ source # NoSource /\ reconnectHandle = NoTimer
    /\ Settled =>
           /\ state = "open" => source # NoSource /\ reconnectHandle = NoTimer
           /\ state = "connecting" /\ ~thrown => (source = NoSource) # (reconnectHandle = NoTimer)
           /\ state \in {"idle", "closed"} => source = NoSource /\ reconnectHandle = NoTimer
    /\ state \in {"connecting", "open"} => asked = "start"
    /\ asked = "close" => state = "closed"
    /\ thrown => source = NoSource /\ reconnectHandle = NoTimer

SseInv == TypeOK /\ UnfinishedOnTop /\ Accounted /\ Situation

LEMMA PushType ==
    ASSUME NEW s \in Seq(Frame), NEW at, NEW cb, [at |-> at, cb |-> cb] \in Frame
    PROVE  /\ Push(at, cb, s) \in Seq(Frame)
           /\ Push(at, cb, s) # <<>>
           /\ Head(Push(at, cb, s)) = [at |-> at, cb |-> cb]
           /\ Len(Push(at, cb, s)) = Len(s) + 1
           /\ Push(at, cb, s)[1] = [at |-> at, cb |-> cb]
           /\ \A i \in 1..Len(s) : Push(at, cb, s)[i + 1] = s[i]
<1> DEFINE f == [at |-> at, cb |-> cb]
<1>1. <<f>> \in Seq(Frame) /\ Len(<<f>>) = 1 /\ <<f>>[1] = f
  OBVIOUS
<1>2. Len(s) \in Nat
  BY LenProperties
<1>3. /\ <<f>> \o s \in Seq(Frame)
      /\ Len(<<f>> \o s) = Len(<<f>>) + Len(s)
      /\ \A i \in 1..Len(<<f>>) + Len(s) :
             (<<f>> \o s)[i] = IF i <= Len(<<f>>) THEN <<f>>[i] ELSE s[i - Len(<<f>>)]
  BY <1>1, ConcatProperties
<1>4. <<f>> \o s # <<>> /\ Head(<<f>> \o s) = (<<f>> \o s)[1]
  BY <1>1, <1>2, <1>3, EmptySeq
<1> QED
  BY <1>1, <1>2, <1>3, <1>4 DEF Push

LEMMA TailType ==
    ASSUME NEW s \in Seq(Frame), s # <<>>
    PROVE  /\ Head(s) \in Frame
           /\ Head(s) = s[1]
           /\ Len(s) \in Nat \ {0}
           /\ Tail(s) \in Seq(Frame)
           /\ \A i \in 1..Len(Tail(s)) : i + 1 \in 1..Len(s) /\ Tail(s)[i] = s[i + 1]
<1>1. Head(s) = s[1] /\ Len(s) \in Nat \ {0}
  BY EmptySeq
<1>2. /\ Head(s) \in Frame
      /\ Tail(s) \in Seq(Frame)
      /\ Len(Tail(s)) = Len(s) - 1
      /\ \A i \in 1..Len(Tail(s)) : Tail(s)[i] = s[i + 1]
  BY HeadTailProperties
<1> QED
  BY <1>1, <1>2

(* A frame pushed on frames that are all settled.                           *)
LEMMA PushOnSettled ==
    ASSUME NEW s \in Seq(Frame), \A i \in 1..Len(s) : s[i].at \notin Unfinished,
           NEW at, NEW cb, [at |-> at, cb |-> cb] \in Frame,
           stack' = Push(at, cb, s)
    PROVE  /\ stack' \in Seq(Frame) /\ UnfinishedOnTop'
           /\ stack' # <<>> /\ Head(stack').at = at
           /\ Settled' <=> at \notin Unfinished
<1> DEFINE t == Push(at, cb, s)
<1>1. /\ t \in Seq(Frame) /\ t # <<>> /\ Head(t).at = at
      /\ Len(t) = Len(s) + 1 /\ Len(s) \in Nat
      /\ t[1] = [at |-> at, cb |-> cb]
      /\ \A i \in 1..Len(s) : t[i + 1] = s[i]
  BY PushType, LenProperties
<1>2. \A i \in 1..Len(t) : i # 1 => t[i].at \notin Unfinished
  <2> SUFFICES ASSUME NEW i \in 1..Len(t), i # 1 PROVE t[i].at \notin Unfinished
    OBVIOUS
  <2>1. i - 1 \in 1..Len(s) /\ (i - 1) + 1 = i
    BY <1>1
  <2> QED
    BY <1>1, <2>1
<1>3. 1 \in 1..Len(t)
  BY <1>1
<1> HIDE DEF t
<1> QED
  BY <1>1, <1>2, <1>3 DEF UnfinishedOnTop, Settled, t

LEMMA SetStateOnSettled ==
    ASSUME NEW next \in States, NEW at \in {"dial", "opened", "arm", "end"},
           NEW s \in Seq(Frame), \A i \in 1..Len(s) : s[i].at \notin Unfinished,
           SetState(next, at, s)
    PROVE  /\ state' = next
           /\ stack' \in Seq(Frame) /\ UnfinishedOnTop'
           /\ stack' # <<>> /\ Head(stack').at = at
           /\ Settled' <=> at \notin Unfinished
<1> DEFINE cb == CASE state = next -> "none"
                   [] state # next /\ next = "connecting" -> "onConnecting"
                   [] OTHER -> "onStateChange"
<1>1. state' = next /\ stack' = Push(at, cb, s)
  BY DEF SetState
<1>2. cb \in {"none", "onConnecting", "onStateChange"}
  OBVIOUS
<1> HIDE DEF cb
<1>3. [at |-> at, cb |-> cb] \in Frame
  BY <1>2 DEF Frame, CallbackNames
<1> QED
  BY <1>1, <1>3, PushOnSettled

LEMMA TailIsSettled ==
    ASSUME TypeOK, UnfinishedOnTop, stack # <<>>
    PROVE  /\ Tail(stack) \in Seq(Frame)
           /\ \A i \in 1..Len(Tail(stack)) : Tail(stack)[i].at \notin Unfinished
<1>1. \A i \in 1..Len(Tail(stack)) : i + 1 \in 1..Len(stack) /\ Tail(stack)[i] = stack[i + 1]
  BY TailType DEF TypeOK
<1>2. \A i \in 1..Len(Tail(stack)) : i + 1 # 1
  OBVIOUS
<1>3. Tail(stack) \in Seq(Frame)
  BY TailType DEF TypeOK
<1> QED
  BY <1>1, <1>2, <1>3 DEF UnfinishedOnTop

(* An exception leaves more frames than one.                                *)
LEMMA RestIsSettled ==
    ASSUME TypeOK, UnfinishedOnTop,
           NEW n \in 1..Len(stack), NEW rest, rest = SubSeq(stack, n + 1, Len(stack))
    PROVE  /\ rest \in Seq(Frame)
           /\ \A i \in 1..Len(rest) : rest[i].at \notin Unfinished
<1>1. stack \in Seq(Frame) /\ Len(stack) \in Nat
  BY LenProperties DEF TypeOK
<1>2. /\ rest \in Seq(Frame) /\ Len(rest) = Len(stack) - n
      /\ \A i \in 1..Len(rest) : rest[i] = stack[n + i]
  BY <1>1, SubSeqProperties
<1>3. \A i \in 1..Len(rest) : n + i \in 1..Len(stack) /\ n + i # 1
  BY <1>1, <1>2
<1> QED
  BY <1>2, <1>3 DEF UnfinishedOnTop

LEMMA TailIsRest ==
    ASSUME TypeOK, stack # <<>>
    PROVE  \E n \in 1..Len(stack) : Tail(stack) = SubSeq(stack, n + 1, Len(stack))
<1>1. stack \in Seq(Frame) /\ 1 \in 1..Len(stack)
  BY TailType DEF TypeOK
<1>2. Tail(stack) = SubSeq(stack, 1 + 1, Len(stack))
  BY <1>1
<1> QED
  BY <1>1, <1>2

(* A call that is not refused finds the client settled: while a handler is  *)
(* half way start() returns early, and close() is counted in `crossed'.     *)
LEMMA CallerIsSettled ==
    ASSUME SseInv, Start \/ (Close /\ ~crossed') PROVE Settled
<1>1. stack \in Seq(Frame)
  BY DEF SseInv, TypeOK
<1>2. CASE Close /\ ~crossed'
  <2>1. ~HalfWay
    BY <1>2 DEF Close
  <2> QED
    BY <1>1, <2>1 DEF HalfWay, Settled
<1>3. CASE Start
  <2> SUFFICES ASSUME NEW i \in 1..Len(stack), stack[i].at \in Unfinished PROVE FALSE
    BY DEF Settled
  <2>1. i = 1 /\ stack # <<>> /\ Head(stack) = stack[1]
    BY <1>1, EmptySeq DEF SseInv, UnfinishedOnTop
  <2>2. At("dial") \/ At("teardown") \/ At("arm")
    BY <2>1 DEF At, Unfinished
  <2>3. state \in {"connecting", "open"}
    BY <2>2 DEF SseInv, Situation
  <2> QED
    BY <1>3, <2>3 DEF Start
<1> QED
  BY <1>2, <1>3

LEMMA EmptyIsSettled ==
    ASSUME TypeOK, stack = <<>> PROVE Settled
  BY EmptySeq DEF TypeOK, Settled

LEMMA TopIsOfStack ==
    ASSUME TypeOK, NEW at, At(at)
    PROVE  stack # <<>> /\ 1 \in 1..Len(stack) /\ stack[1].at = at
  BY TailType DEF At, TypeOK

(* Once a call has crossed a handler nothing is claimed any more.           *)
LEMMA CrossedStays ==
    ASSUME [Next]_vars, ~crossed' PROVE ~crossed
<1>1. CASE Close
  BY <1>1 DEF Close
<1>2. CASE \/ Start \/ Resume \/ UNCHANGED vars
           \/ \E s \in Sources : HandleOpen(s) \/ HandleMessage(s) \/ HandleError(s)
           \/ \E t \in Timers : Fire(t)
  BY <1>2 DEF Start, Resume, Dial, DialThrows, AnnounceOpen, Teardown, Arm, Return,
              HandleOpen, HandleMessage, HandleError, Fire, vars
<1> QED
  BY <1>1, <1>2 DEF Next

LEMMA NextSseInv ==
    ASSUME SseInv, [Next]_vars, ~crossed'
    PROVE  SseInv'
<1> USE SourceAssumption
<1>0. TypeOK /\ UnfinishedOnTop /\ Accounted /\ Situation /\ stack \in Seq(Frame)
  BY DEF SseInv, TypeOK
<1>1. CASE Start
  <2>1. Settled
    BY <1>1, CallerIsSettled
  <2>2. /\ state' = "connecting" /\ stack' \in Seq(Frame) /\ UnfinishedOnTop'
        /\ stack' # <<>> /\ Head(stack').at = "dial" /\ ~Settled'
    BY <1>0, <1>1, <2>1, SetStateOnSettled DEF Start, Settled, States, Unfinished
  <2> QED
    BY <1>0, <1>1, <2>1, <2>2
    DEF Start, MayCall, SseInv, TypeOK, Accounted, Situation, At, States
<1>2. CASE Close
  <2>1. Settled
    BY <1>2, CallerIsSettled
  <2>2. /\ state' = "closed" /\ stack' \in Seq(Frame) /\ UnfinishedOnTop'
        /\ stack' # <<>> /\ Head(stack').at = "end"
    BY <1>0, <1>2, <2>1, SetStateOnSettled DEF Close, Settled, States, Unfinished
  <2>3. /\ feed' \in [Sources -> {"unborn", "live", "dead"}]
        /\ \A s \in Sources : feed'[s] # "live"
        /\ source' = NoSource
    BY <1>0, <1>2 DEF Close, TeardownSource, Accounted, TypeOK
  <2>4. armed' = {} /\ reconnectHandle' = NoTimer
    BY <1>0, <1>2 DEF Close, Accounted, TypeOK
  <2>5. crossed' \in BOOLEAN
    BY <1>2 DEF Close
  <2> QED
    BY <1>0, <1>2, <2>2, <2>3, <2>4, <2>5
    DEF Close, MayCall, SseInv, TypeOK, Accounted, Situation, At, States
<1>3. ASSUME stack # <<>>, \E n \in 1..Len(stack) : stack' = SubSeq(stack, n + 1, Len(stack)),
             UNCHANGED <<state, asked, calls>>,
             TypeOK /\ stack' \in Seq(Frame) => TypeOK', Accounted',
             state = "open" => source' # NoSource /\ reconnectHandle' = NoTimer,
             state = "connecting" /\ ~thrown' => (source' = NoSource) # (reconnectHandle' = NoTimer),
             state \in {"idle", "closed"} => source' = NoSource /\ reconnectHandle' = NoTimer,
             thrown' => source' = NoSource /\ reconnectHandle' = NoTimer
      PROVE  SseInv'
  <2>1. stack' \in Seq(Frame) /\ Settled'
    BY <1>0, <1>3, RestIsSettled DEF Settled
  <2>2. UnfinishedOnTop'
    BY <2>1 DEF UnfinishedOnTop, Settled
  <2>3. \A at \in Unfinished : ~At(at)'
    BY <2>1, EmptySeq DEF At, Settled
  <2> QED
    BY <1>0, <1>3, <2>1, <2>2, <2>3 DEF SseInv, Situation, Unfinished
<1>4. CASE Dial
  <2>1. stack # <<>> /\ state = "connecting" /\ source = NoSource /\ reconnectHandle = NoTimer
    BY <1>0, <1>4 DEF Dial, At, Situation
  <2>2. PICK s \in Sources : /\ feed[s] = "unborn"
                            /\ feed' = [feed EXCEPT ![s] = "live"]
                            /\ source' = s
    BY <1>4 DEF Dial
  <2>3. Accounted'
    BY <1>0, <1>4, <2>1, <2>2 DEF Dial, Accounted, TypeOK
  <2>4. TypeOK /\ stack' \in Seq(Frame) => TypeOK'
    BY <1>4, <2>2 DEF Dial, TypeOK
  <2> QED
    BY <1>0, <1>3, <1>4, <2>1, <2>2, <2>3, <2>4, TailIsRest DEF Dial
<1>5. CASE DialThrows
  <2>1. stack # <<>> /\ state = "connecting" /\ source = NoSource /\ reconnectHandle = NoTimer
    BY <1>0, <1>5 DEF DialThrows, At, Situation
  <2>2. Accounted' /\ (TypeOK /\ stack' \in Seq(Frame) => TypeOK')
    BY <1>0, <1>5 DEF DialThrows, Accounted, TypeOK
  <2> QED
    BY <1>3, <1>5, <2>1, <2>2 DEF DialThrows
<1>6. CASE AnnounceOpen
  <2>1. /\ stack # <<>> /\ stack' = Push("end", "onOpen", Tail(stack))
        /\ [at |-> "end", cb |-> "onOpen"] \in Frame
    BY <1>6 DEF AnnounceOpen, At, Frame, CallbackNames
  <2>2. stack' \in Seq(Frame) /\ UnfinishedOnTop' /\ Head(stack').at = "end"
    BY <1>0, <2>1, TailIsSettled, PushOnSettled DEF Unfinished
  <2>3. Settled
    BY <1>0, <1>6, TopIsOfStack DEF AnnounceOpen, UnfinishedOnTop, Settled, Unfinished
  <2> QED
    BY <1>0, <1>6, <2>2, <2>3 DEF AnnounceOpen, SseInv, TypeOK, Accounted, Situation, At
<1>7. CASE Teardown
  <2>1. /\ stack # <<>> /\ state \in {"connecting", "open"} /\ reconnectHandle = NoTimer
        /\ asked = "start" /\ ~thrown
    BY <1>0, <1>7 DEF Teardown, At, Situation
  <2>2. /\ state' = "connecting" /\ stack' \in Seq(Frame) /\ UnfinishedOnTop'
        /\ stack' # <<>> /\ Head(stack').at = "arm" /\ ~Settled'
    BY <1>0, <1>7, <2>1, TailIsSettled, SetStateOnSettled DEF Teardown, States, Unfinished
  <2>3. /\ feed' \in [Sources -> {"unborn", "live", "dead"}]
        /\ \A s \in Sources : feed'[s] # "live"
        /\ source' = NoSource
    BY <1>0, <1>7 DEF Teardown, TeardownSource, Accounted, TypeOK
  <2> QED
    BY <1>0, <1>7, <2>1, <2>2, <2>3
    DEF Teardown, SseInv, TypeOK, Accounted, Situation, At, States
<1>8. CASE Arm
  <2>1. /\ stack # <<>> /\ state = "connecting" /\ ~thrown
        /\ source = NoSource /\ reconnectHandle = NoTimer
    BY <1>0, <1>8 DEF Arm, At, Situation
  <2>2. PICK t \in Timers \ armed : armed' = armed \cup {t} /\ reconnectHandle' = t
    BY <1>8 DEF Arm
  <2>3. Accounted'
    BY <1>0, <1>8, <2>1, <2>2 DEF Arm, Accounted, TypeOK
  <2>4. TypeOK /\ stack' \in Seq(Frame) => TypeOK'
    BY <1>8, <2>2 DEF Arm, TypeOK
  <2> QED
    BY <1>0, <1>3, <1>8, <2>1, <2>2, <2>3, <2>4, TailIsRest DEF Arm
<1>9. CASE Return
  <2>1. stack # <<>> /\ stack' = Tail(stack)
    BY <1>9 DEF Return, At
  <2>2. Settled
    BY <1>0, <1>9, TopIsOfStack DEF Return, UnfinishedOnTop, Settled, Unfinished
  <2>3. Accounted' /\ (TypeOK /\ stack' \in Seq(Frame) => TypeOK')
    BY <1>0, <1>9 DEF Return, Accounted, TypeOK
  <2> QED
    BY <1>0, <1>3, <1>9, <2>1, <2>2, <2>3, TailIsRest DEF Return, Situation
<1>10. ASSUME NEW s \in Sources, HandleOpen(s) PROVE SseInv'
  <2>1. Settled /\ source = s
    BY <1>0, <1>10, EmptyIsSettled DEF HandleOpen, Accounted
  <2>2. /\ state' = "open" /\ stack' \in Seq(Frame) /\ UnfinishedOnTop'
        /\ stack' # <<>> /\ Head(stack').at = "opened"
    BY <1>0, <1>10, <2>1, SetStateOnSettled DEF HandleOpen, Settled, States, Unfinished
  <2>3. /\ state \in {"connecting", "open"} /\ reconnectHandle = NoTimer
        /\ asked = "start" /\ source # NoSource
    BY <1>0, <2>1 DEF Situation, TypeOK, States
  <2> QED
    BY <1>0, <1>10, <2>2, <2>3
    DEF HandleOpen, SseInv, TypeOK, Accounted, Situation, At, States
<1>11. ASSUME NEW s \in Sources, HandleMessage(s) PROVE SseInv'
  <2>1. Settled
    BY <1>0, <1>11, EmptyIsSettled DEF HandleMessage
  <2>2. [at |-> "end", cb |-> "onMessage"] \in Frame
    BY DEF Frame, CallbackNames
  <2>3. stack' \in Seq(Frame) /\ UnfinishedOnTop' /\ Head(stack').at = "end"
    BY <1>0, <1>11, <2>1, <2>2, PushOnSettled DEF HandleMessage, Settled, Unfinished
  <2> QED
    BY <1>0, <1>11, <2>1, <2>3 DEF HandleMessage, SseInv, TypeOK, Accounted, Situation, At
<1>12. ASSUME NEW s \in Sources, HandleError(s) PROVE SseInv'
  <2>1. Settled /\ source = s
    BY <1>0, <1>12, EmptyIsSettled DEF HandleError, Accounted
  <2>2. [at |-> "teardown", cb |-> "onError"] \in Frame
    BY DEF Frame, CallbackNames
  <2>3. stack' \in Seq(Frame) /\ UnfinishedOnTop' /\ Head(stack').at = "teardown" /\ ~Settled'
    BY <1>0, <1>12, <2>1, <2>2, PushOnSettled DEF HandleError, Settled, Unfinished
  <2>4. state \in {"connecting", "open"} /\ reconnectHandle = NoTimer /\ source # NoSource
    BY <1>0, <2>1 DEF Situation, TypeOK, States
  <2> QED
    BY <1>0, <1>12, <2>3, <2>4
    DEF HandleError, SseInv, TypeOK, Accounted, Situation, At
<1>13. ASSUME NEW t \in Timers, Fire(t) PROVE SseInv'
  <2>1. Settled /\ reconnectHandle = t
    BY <1>0, <1>13, EmptyIsSettled DEF Fire, Accounted
  <2>2. /\ state' = "connecting" /\ stack' \in Seq(Frame) /\ UnfinishedOnTop'
        /\ stack' # <<>> /\ Head(stack').at = "dial" /\ ~Settled'
    BY <1>0, <1>13, <2>1, SetStateOnSettled DEF Fire, Settled, States, Unfinished
  <2>3. source = NoSource /\ asked = "start"
    BY <1>0, <2>1 DEF Situation, TypeOK, States
  <2> QED
    BY <1>0, <1>13, <2>1, <2>2, <2>3
    DEF Fire, SseInv, TypeOK, Accounted, Situation, At, States
<1>14. CASE UNCHANGED vars
  BY <1>0, <1>14 DEF vars, SseInv, TypeOK, UnfinishedOnTop, Accounted, Situation, Settled, At
<1> QED
  BY <1>1, <1>2, <1>4, <1>5, <1>6, <1>7, <1>8, <1>9, <1>10, <1>11, <1>12, <1>13, <1>14
  DEF Next, Resume

LEMMA InitSseInv == Init => SseInv
<1> SUFFICES ASSUME Init PROVE SseInv
  OBVIOUS
<1>1. stack \in Seq(Frame) /\ stack = <<>> /\ \A i \in 1..Len(stack) : FALSE
  BY EmptySeq DEF Init
<1> QED
  BY <1>1, SourceAssumption
  DEF Init, SseInv, TypeOK, UnfinishedOnTop, Accounted, Situation, Settled, At, States

LEMMA AlwaysSseInv == Spec => [](~crossed => SseInv)
<1>1. (~crossed => SseInv) /\ [Next]_vars => (~crossed => SseInv)'
  <2> SUFFICES ASSUME ~crossed => SseInv, [Next]_vars, ~crossed' PROVE SseInv'
    OBVIOUS
  <2> QED
    BY CrossedStays, NextSseInv
<1> QED
  BY <1>1, InitSseInv, PTL DEF Spec

LEMMA SseInvIsTrue == ASSUME SseInv PROVE OneFeed /\ StateMatchesWork /\ CloseIsFinal
<1>1. OneFeed
  BY DEF SseInv, Accounted, OneFeed, Live
<1>2. ASSUME stack = <<>>
      PROVE  /\ Settled
             /\ (Live = {}) <=> (source = NoSource)
             /\ (armed = {}) <=> (reconnectHandle = NoTimer)
  <2>1. Settled
    BY <1>2, EmptyIsSettled DEF SseInv
  <2>2. (Live = {}) <=> (source = NoSource)
    BY SourceAssumption DEF SseInv, Accounted, Live, TypeOK
  <2>3. (armed = {}) <=> (reconnectHandle = NoTimer)
    BY SourceAssumption DEF SseInv, Accounted, TypeOK
  <2> QED
    BY <2>1, <2>2, <2>3
<1>3. StateMatchesWork
  <2> SUFFICES ASSUME stack = <<>>
               PROVE  /\ state = "open" => Live # {} /\ armed = {}
                      /\ state = "connecting" =>
                             IF thrown THEN Live = {} /\ armed = {}
                                       ELSE (Live = {}) # (armed = {})
                      /\ armed \subseteq {reconnectHandle}
    BY DEF StateMatchesWork
  <2> QED
    BY <1>2 DEF SseInv, Situation, Accounted, TypeOK
<1>4. CloseIsFinal
  BY <1>2 DEF CloseIsFinal, SseInv, Situation
<1> QED
  BY <1>1, <1>3, <1>4

(* Whatever the consumer calls from whichever callback, and whenever errors *)
(* and timers come: until it has called close() while a handler was half    *)
(* way - from onError or onStateChange('connecting') - the client listens   *)
(* to one source at most, after every task its published state is true, and *)
(* close() is final.                                                        *)
THEOREM StateIsTrueCorrect == Spec => []StateIsTrue
<1>1. (~crossed => SseInv) => StateIsTrue
  BY SseInvIsTrue DEF StateIsTrue
<1> QED
  BY <1>1, AlwaysSseInv, PTL
------------------------------------------------------------------------------
(* useSSE(): the hook and its throttle, around a client whose consumer never *)
(* calls back into it; for any number of messages and any history.           *)
(* The numbers of the last messages up to this one, without a gap.           *)
Numbers == Nat
Consecutive(s, last) ==
    /\ s \in Seq(Numbers) /\ Len(s) <= last
    /\ \A i \in 1..Len(s) : s[i] = last - Len(s) + i
Enough(s, last) == Len(s) >= IF last < HistoryLimit THEN last ELSE HistoryLimit

(* While an error is handled its cell holds the number it came with.         *)
AttemptInv ==
    /\ attempt \in Nat
    /\ At("teardown") => shownAttempt = attempt
    /\ ~At("teardown") /\ attempt > 0 => shownAttempt = attempt - 1

(* One callback at a time.  An error that is shown while the client is open  *)
(* is about to be cleared, or to be followed by a reconnect.                 *)
CellsInv ==
    /\ stack = <<>> \/ \E f \in Frame : stack = <<f>>
    /\ shownState = state
    /\ state = "open" /\ shownError => At("opened") \/ At("teardown")
    /\ AttemptInv

(* No call meets a handler, and a hook that was closed has no flush to come. *)
QuietInv ==
    /\ ~crossed
    /\ flushing => buffered /\ ~stopped
    /\ asked = "close" /\ buffered => stopped

ThrottleInv ==
    /\ delivered \in Nat /\ messages \in Seq(Numbers) /\ batch \in Seq(Numbers)
    /\ buffered \in BOOLEAN /\ stopped \in BOOLEAN
    /\ ~buffered => batch = <<>>
    /\ ~stopped => Consecutive(messages \o batch, delivered) /\ Enough(messages \o batch, delivered)
    /\ messages # <<>> => lastMessage = messages[Len(messages)]

(* What a step that pushes or pops the one frame calls.                      *)
LEMMA PushCalls ==
    ASSUME NEW at, NEW cb, NEW rest, rest = <<>>, stack' = Push(at, cb, rest),
           [at |-> at, cb |-> cb] \in Frame,
           stack = <<>> \/ \E f \in Frame : stack = <<f>> /\ f.at # at
    PROVE  /\ Called = cb /\ At(at)'
           /\ \E f \in Frame : stack' = <<f>>
<1> DEFINE f == [at |-> at, cb |-> cb]
<1>1. stack' = <<f>>
  BY DEF Push
<1>2. f \in Frame /\ f.at = at /\ f.cb = cb
  OBVIOUS
<1> HIDE DEF f
<1>3. stack' # <<>> /\ Len(stack') = 1 /\ Head(stack') = f
  BY <1>1
<1>4. Len(stack') >= Len(stack) /\ stack' # stack
  <2>1. CASE stack = <<>>
    BY <1>3, <2>1
  <2>2. ASSUME NEW g \in Frame, stack = <<g>>, g.at # at PROVE Len(stack') >= Len(stack) /\ stack' # stack
    <3>1. Len(stack) = 1 /\ Head(stack) = g
      BY <2>2
    <3> QED
      BY <1>2, <1>3, <2>2, <3>1
  <2> QED
    BY <2>1, <2>2
<1> QED
  BY <1>1, <1>2, <1>3, <1>4 DEF Called, At

LEMMA PopCalls ==
    ASSUME stack' = <<>> \/ stack' = stack
    PROVE  Called = "none"
  BY DEF Called

(* A state change shows the new state, whether or not it calls back.         *)
LEMMA SetStateShows ==
    ASSUME CellsInv, NEW next \in States, NEW at \in {"dial", "opened", "arm", "end"},
           NEW rest, rest = <<>>, SetState(next, at, rest), Cells,
           stack = <<>> \/ \E f \in Frame : stack = <<f>> /\ f.at # at
    PROVE  /\ shownState' = next /\ state' = next
           /\ At(at)' /\ ~At("teardown")' /\ \E f \in Frame : stack' = <<f>>
           /\ Called # "onMessage" /\ shownAttempt' = shownAttempt
<1> DEFINE cb == CASE state = next -> "none"
                   [] state # next /\ next = "connecting" -> "onConnecting"
                   [] OTHER -> "onStateChange"
<1>1. state' = next /\ stack' = Push(at, cb, rest)
  BY DEF SetState
<1>2. /\ cb \in {"none", "onConnecting", "onStateChange"}
      /\ cb = "none" => state = next
  OBVIOUS
<1> HIDE DEF cb
<1>3. [at |-> at, cb |-> cb] \in Frame
  BY <1>2 DEF Frame, CallbackNames
<1>4. Called = cb /\ At(at)' /\ \E f \in Frame : stack' = <<f>>
  BY <1>1, <1>3, PushCalls
<1>5. shownState' = next
  BY <1>1, <1>2, <1>4 DEF Cells, NextState, CellsInv
<1>6. shownAttempt' = shownAttempt
  BY <1>2, <1>4 DEF Cells
<1> QED
  BY <1>1, <1>2, <1>4, <1>5, <1>6 DEF At

LEMMA NextCellsInv ==
    ASSUME CellsInv, [HookNext]_hookVars
    PROVE  CellsInv'
<1>0. /\ stack = <<>> \/ \E f \in Frame : stack = <<f>>
      /\ shownState = state
      /\ state = "open" /\ shownError => At("opened") \/ At("teardown")
      /\ AttemptInv
  BY DEF CellsInv
<1>2. ASSUME UNCHANGED <<attempt, shownAttempt>>, ~At("teardown"), ~At("teardown")'
      PROVE  AttemptInv'
  BY <1>0, <1>2 DEF AttemptInv
<1>1. ASSUME NEW at, At(at)
      PROVE  \E f \in Frame : stack = <<f>> /\ f.at = at /\ Tail(stack) = <<>>
  <2>1. PICK f \in Frame : stack = <<f>>
    BY <1>0, <1>1 DEF At
  <2> QED
    BY <1>1, <2>1 DEF At
<1>3. CASE Connect
  <2>1. stack = <<>> /\ SetState("connecting", "dial", stack) /\ Cells
    BY <1>3 DEF Connect, Start
  <2>2. /\ shownState' = "connecting" /\ state' = "connecting" /\ \E f \in Frame : stack' = <<f>>
        /\ ~At("teardown")' /\ shownAttempt' = shownAttempt
    BY <2>1, SetStateShows DEF States
  <2>3. AttemptInv'
    BY <1>2, <1>3, <2>1, <2>2 DEF Connect, Start, At
  <2> QED
    BY <2>2, <2>3 DEF CellsInv
<1>4. CASE Unmount
  <2>1. stack = <<>> /\ SetState("closed", "end", stack) /\ Cells
    BY <1>4 DEF Unmount, Close
  <2>2. /\ shownState' = "closed" /\ state' = "closed" /\ \E f \in Frame : stack' = <<f>>
        /\ ~At("teardown")' /\ shownAttempt' = shownAttempt
    BY <2>1, SetStateShows DEF States
  <2>3. AttemptInv'
    BY <1>2, <1>4, <2>1, <2>2 DEF Unmount, Close, At
  <2> QED
    BY <2>2, <2>3 DEF CellsInv
<1>5. ASSUME Cells, UNCHANGED <<state, attempt>>, stack' = <<>>,
             ~(state = "open" /\ shownError), ~At("teardown")
      PROVE  CellsInv'
  <2>1. Called = "none"
    BY <1>5, PopCalls
  <2>2. shownState' = shownState /\ shownError' = shownError /\ shownAttempt' = shownAttempt
    BY <1>5, <2>1 DEF Cells
  <2>3. AttemptInv'
    BY <1>2, <1>5, <2>2 DEF At
  <2> QED
    BY <1>0, <1>5, <2>2, <2>3 DEF CellsInv
<1>6. CASE Proceed
  <2>1. Resume /\ Cells
    BY <1>6 DEF Proceed
  <2>2. CASE \/ Dial \/ Arm \/ Return
    <3>1. PICK at \in {"dial", "arm", "end"} : At(at)
      BY <2>2 DEF Dial, Arm, Return
    <3>2. ~(At("opened") \/ At("teardown"))
      BY <3>1 DEF At
    <3>3. stack' = <<>> /\ UNCHANGED <<state, attempt>>
      BY <1>1, <2>2, <3>1 DEF Dial, Arm, Return
    <3> QED
      BY <1>0, <1>5, <2>1, <3>2, <3>3
  <2>3. CASE DialThrows
    <3>1. At("dial") /\ UNCHANGED <<state, attempt>>
      BY <2>3 DEF DialThrows
    <3>2. PICK f \in Frame : stack = <<f>>
      BY <1>1, <3>1
    <3>3. PICK n \in 1..Len(stack) : stack' = SubSeq(stack, n + 1, Len(stack))
      BY <2>3 DEF DialThrows
    <3>4. stack' = <<>>
      BY <3>2, <3>3
    <3>5. ~(At("opened") \/ At("teardown"))
      BY <3>1 DEF At
    <3> QED
      BY <1>0, <1>5, <2>1, <3>1, <3>4, <3>5
  <2>4. CASE AnnounceOpen
    <3>1. /\ UNCHANGED <<state, attempt>>
          /\ stack' = Push("end", "onOpen", Tail(stack))
      BY <2>4 DEF AnnounceOpen
    <3>2. \E f \in Frame : stack = <<f>> /\ f.at = "opened" /\ Tail(stack) = <<>>
      BY <1>1, <2>4 DEF AnnounceOpen
    <3>3. [at |-> "end", cb |-> "onOpen"] \in Frame
      BY DEF Frame, CallbackNames
    <3>4. Called = "onOpen" /\ At("end")' /\ \E f \in Frame : stack' = <<f>>
      BY <3>1, <3>2, <3>3, PushCalls
    <3>5. ~shownError' /\ shownState' = shownState /\ shownAttempt' = shownAttempt
      BY <2>1, <3>4 DEF Cells, ResetError
    <3>6. AttemptInv'
      BY <1>2, <2>4, <3>1, <3>4, <3>5 DEF AnnounceOpen, At
    <3> QED
      BY <1>0, <3>1, <3>4, <3>5, <3>6 DEF CellsInv
  <2>5. CASE Teardown
    <3>1. SetState("connecting", "arm", Tail(stack))
      BY <2>5 DEF Teardown
    <3>2. \E f \in Frame : stack = <<f>> /\ f.at = "teardown" /\ Tail(stack) = <<>>
      BY <1>1, <2>5 DEF Teardown
    <3>3. /\ shownState' = "connecting" /\ state' = "connecting" /\ \E f \in Frame : stack' = <<f>>
          /\ ~At("teardown")' /\ shownAttempt' = shownAttempt
      BY <2>1, <3>1, <3>2, SetStateShows DEF States
    <3>4. AttemptInv'
      BY <1>0, <2>5, <3>3 DEF Teardown, AttemptInv
    <3> QED
      BY <3>3, <3>4 DEF CellsInv
  <2> QED
    BY <2>1, <2>2, <2>3, <2>4, <2>5 DEF Resume
<1>7. CASE Event
  <2>1. Cells
    BY <1>7 DEF Event
  <2>2. ASSUME NEW s \in Sources, HandleOpen(s) PROVE CellsInv'
    <3>1. stack = <<>> /\ SetState("open", "opened", stack)
      BY <2>2 DEF HandleOpen
    <3>2. /\ shownState' = "open" /\ state' = "open" /\ At("opened")'
          /\ ~At("teardown")' /\ \E f \in Frame : stack' = <<f>>
      BY <2>1, <3>1, SetStateShows DEF States
    <3>3. AttemptInv'
      BY <2>2, <3>2 DEF HandleOpen, AttemptInv
    <3> QED
      BY <3>2, <3>3 DEF CellsInv
  <2>3. ASSUME NEW s \in Sources, HandleMessage(s) PROVE CellsInv'
    <3>1. stack = <<>> /\ stack' = Push("end", "onMessage", stack) /\ UNCHANGED <<state, attempt>>
      BY <2>3 DEF HandleMessage
    <3>2. [at |-> "end", cb |-> "onMessage"] \in Frame
      BY DEF Frame, CallbackNames
    <3>3. Called = "onMessage" /\ At("end")' /\ \E f \in Frame : stack' = <<f>>
      BY <3>1, <3>2, PushCalls
    <3>4. shownState' = shownState /\ shownError' = shownError /\ shownAttempt' = shownAttempt
      BY <2>1, <3>3 DEF Cells
    <3>5. AttemptInv'
      BY <1>2, <3>1, <3>3, <3>4 DEF At
    <3> QED
      BY <1>0, <3>1, <3>3, <3>4, <3>5 DEF CellsInv, At
  <2>4. ASSUME NEW s \in Sources, HandleError(s) PROVE CellsInv'
    <3>1. /\ stack = <<>> /\ stack' = Push("teardown", "onError", stack)
          /\ UNCHANGED <<state, attempt>>
      BY <2>4 DEF HandleError
    <3>2. [at |-> "teardown", cb |-> "onError"] \in Frame
      BY DEF Frame, CallbackNames
    <3>3. /\ Called = "onError" /\ At("teardown")'
          /\ \E f \in Frame : stack' = <<f>>
      BY <3>1, <3>2, PushCalls
    <3>4. shownState' = shownState /\ shownAttempt' = attempt
      BY <2>1, <3>3 DEF Cells
    <3>5. AttemptInv'
      BY <1>0, <3>1, <3>3, <3>4 DEF AttemptInv
    <3> QED
      BY <1>0, <3>1, <3>3, <3>4, <3>5 DEF CellsInv
  <2>5. ASSUME NEW t \in Timers, Fire(t) PROVE CellsInv'
    <3>1. stack = <<>> /\ SetState("connecting", "dial", stack)
      BY <2>5 DEF Fire
    <3>2. /\ shownState' = "connecting" /\ state' = "connecting" /\ \E f \in Frame : stack' = <<f>>
          /\ ~At("teardown")' /\ shownAttempt' = shownAttempt
      BY <2>1, <3>1, SetStateShows DEF States
    <3>3. AttemptInv'
      BY <1>2, <2>5, <3>1, <3>2 DEF Fire, At
    <3> QED
      BY <3>2, <3>3 DEF CellsInv
  <2> QED
    BY <1>7, <2>2, <2>3, <2>4, <2>5 DEF Event
<1>8. CASE Flush \/ UNCHANGED hookVars
  BY <1>0, <1>8
  DEF Flush, hookVars, vars, cells, CellsInv, At, AttemptInv
<1> QED
  BY <1>3, <1>4, <1>6, <1>7, <1>8 DEF HookNext

(* A message more.                                                           *)
LEMMA OneMore ==
    ASSUME NEW last \in Nat, NEW s, Consecutive(s, last), Enough(s, last)
    PROVE  /\ Consecutive(Append(s, last + 1), last + 1)
           /\ Enough(Append(s, last + 1), last + 1)
<1> DEFINE t == Append(s, last + 1)
<1>0. s \in Seq(Numbers) /\ last + 1 \in Numbers
  BY DEF Consecutive, Numbers
<1>1. /\ s \in Seq(Numbers) /\ Len(s) \in Nat /\ Len(s) <= last
      /\ t \in Seq(Numbers) /\ Len(t) = Len(s) + 1
      /\ \A i \in 1..Len(t) : t[i] = IF i <= Len(s) THEN s[i] ELSE last + 1
  BY <1>0, AppendProperties, LenProperties DEF Consecutive
<1> HIDE DEF t
<1>2. \A i \in 1..Len(t) : t[i] = (last + 1) - Len(t) + i
  <2> SUFFICES ASSUME NEW i \in 1..Len(t) PROVE t[i] = (last + 1) - Len(t) + i
    OBVIOUS
  <2>1. CASE i <= Len(s)
    BY <1>1, <2>1 DEF Consecutive
  <2>2. CASE i = Len(s) + 1
    BY <1>1, <2>2
  <2> QED
    BY <1>1, <2>1, <2>2
<1>3. Consecutive(t, last + 1)
  BY <1>1, <1>2 DEF Consecutive
<1>4. Enough(t, last + 1)
  BY <1>1, MessageAssumption DEF Enough
<1> QED
  BY <1>3, <1>4 DEF t

(* The bounded history is the end of what there was and is added, as much    *)
(* of it as the limit leaves.                                                *)
LEMMA EndOfSequence ==
    ASSUME NEW S, NEW s \in Seq(S), NEW from \in 1..Len(s)
    PROVE  /\ SubSeq(s, from, Len(s)) \in Seq(S)
           /\ Len(SubSeq(s, from, Len(s))) = Len(s) - from + 1
           /\ \A i \in 1..Len(s) - from + 1 : SubSeq(s, from, Len(s))[i] = s[from + i - 1]
<1>1. Len(s) \in Nat /\ from \in Int /\ from <= Len(s) /\ \A i \in from..Len(s) : s[i] \in S
  BY LenProperties
<1> QED
  BY <1>1, SubSeqProperties

LEMMA BoundIsSuffix ==
    ASSUME NEW all \in Seq(Numbers), all # <<>>, NEW kept,
           kept = IF Len(all) > HistoryLimit THEN SubSeq(all, Len(all) - HistoryLimit + 1, Len(all))
                  ELSE all
    PROVE  /\ kept \in Seq(Numbers) /\ Len(kept) \in Nat \ {0} /\ Len(all) \in Nat
           /\ Len(kept) = IF Len(all) > HistoryLimit THEN HistoryLimit ELSE Len(all)
           /\ \A i \in 1..Len(kept) : kept[i] = all[Len(all) - Len(kept) + i]
           /\ kept[Len(kept)] = all[Len(all)]
<1>1. Len(all) \in Nat \ {0} /\ HistoryLimit \in Nat \ {0}
  BY EmptySeq, LenProperties, MessageAssumption
<1>2. CASE ~(Len(all) > HistoryLimit)
  <2>1. kept = all
    BY <1>2
  <2> QED
    BY <1>1, <1>2, <2>1
<1>3. CASE Len(all) > HistoryLimit
  <2> DEFINE from == Len(all) - HistoryLimit + 1
  <2>1. kept = SubSeq(all, from, Len(all))
    BY <1>3
  <2>2. from \in 1..Len(all)
    BY <1>1, <1>3
  <2> HIDE DEF from
  <2>3. /\ kept \in Seq(Numbers) /\ Len(kept) = Len(all) - from + 1
        /\ \A i \in 1..Len(all) - from + 1 : kept[i] = all[from + i - 1]
    BY <2>1, <2>2, EndOfSequence
  <2>4. Len(kept) = HistoryLimit
    BY <1>1, <2>3 DEF from
  <2>5. ASSUME NEW i \in 1..Len(kept) PROVE kept[i] = all[Len(all) - Len(kept) + i]
    <3>1. i \in 1..Len(all) - from + 1 /\ from + i - 1 = Len(all) - Len(kept) + i
      <4>1. Len(all) - from + 1 = HistoryLimit
        BY <1>1 DEF from
      <4>2. from + i - 1 = Len(all) - HistoryLimit + i
        BY <1>1, <2>4 DEF from
      <4> QED
        BY <2>4, <4>1, <4>2
    <3> QED
      BY <2>3, <3>1
  <2>6. kept[Len(kept)] = all[Len(all)]
    <3>1. Len(kept) \in 1..Len(kept) /\ Len(all) - Len(kept) + Len(kept) = Len(all)
      BY <1>1, <2>4
    <3> QED
      BY <2>5, <3>1
  <2> QED
    BY <1>1, <1>3, <2>3, <2>4, <2>5, <2>6
<1> QED
  BY <1>2, <1>3

LEMMA ConcatEnds ==
    ASSUME NEW current \in Seq(Numbers), NEW added \in Seq(Numbers), added # <<>>
    PROVE  /\ current \o added \in Seq(Numbers) /\ current \o added # <<>>
           /\ (current \o added)[Len(current \o added)] = added[Len(added)]
<1>1. Len(current) \in Nat /\ Len(added) \in Nat \ {0}
  BY EmptySeq, LenProperties
<1> DEFINE all == current \o added
<1>2. /\ all \in Seq(Numbers) /\ Len(all) = Len(current) + Len(added)
      /\ \A i \in 1..Len(current) + Len(added) :
             all[i] = IF i <= Len(current) THEN current[i] ELSE added[i - Len(current)]
  BY ConcatProperties
<1> HIDE DEF all
<1>3. Len(all) \in 1..Len(current) + Len(added) /\ Len(all) - Len(current) = Len(added)
      /\ ~(Len(all) <= Len(current))
  BY <1>1, <1>2
<1>4. all # <<>>
  BY <1>1, <1>2, EmptySeq
<1> QED
  BY <1>2, <1>3, <1>4 DEF all

LEMMA BoundEndsInAdded ==
    ASSUME NEW current \in Seq(Numbers), NEW added \in Seq(Numbers), added # <<>>,
           NEW kept, kept = Buffer!AppendBounded(current, added)
    PROVE  kept \in Seq(Numbers) /\ kept # <<>> /\ kept[Len(kept)] = added[Len(added)]
<1>1. /\ current \o added \in Seq(Numbers) /\ current \o added # <<>>
      /\ (current \o added)[Len(current \o added)] = added[Len(added)]
  BY ConcatEnds
<1>2. kept \in Seq(Numbers) /\ Len(kept) \in Nat \ {0}
      /\ kept[Len(kept)] = (current \o added)[Len(current \o added)]
  BY <1>1, BoundIsSuffix DEF Buffer!AppendBounded
<1>3. kept # <<>>
  BY <1>2, EmptySeq
<1> QED
  BY <1>1, <1>2, <1>3

LEMMA BoundKeepsNewest ==
    ASSUME NEW last \in Nat, NEW current \in Seq(Numbers), NEW added \in Seq(Numbers),
           Consecutive(current \o added, last), Enough(current \o added, last), added # <<>>,
           NEW kept, kept = Buffer!AppendBounded(current, added)
    PROVE  Consecutive(kept, last) /\ Enough(kept, last)
<1> DEFINE all == current \o added
<1>0. all = current \o added
  OBVIOUS
<1> HIDE DEF all
<1>1. /\ all \in Seq(Numbers) /\ all # <<>>
      /\ kept = IF Len(all) > HistoryLimit THEN SubSeq(all, Len(all) - HistoryLimit + 1, Len(all))
                ELSE all
  BY <1>0, ConcatEnds DEF Buffer!AppendBounded
<1>2. /\ kept \in Seq(Numbers) /\ Len(kept) \in Nat /\ Len(all) \in Nat
      /\ Len(kept) = IF Len(all) > HistoryLimit THEN HistoryLimit ELSE Len(all)
      /\ \A i \in 1..Len(kept) : kept[i] = all[Len(all) - Len(kept) + i]
  BY <1>1, BoundIsSuffix
<1>3. Consecutive(all, last) /\ Enough(all, last) /\ HistoryLimit \in Nat
  BY <1>0, MessageAssumption
<1>4. ASSUME NEW i \in 1..Len(kept) PROVE kept[i] = last - Len(kept) + i
  <2>1. Len(all) - Len(kept) + i \in 1..Len(all)
    BY <1>2, <1>3
  <2>2. all[Len(all) - Len(kept) + i] = last - Len(all) + (Len(all) - Len(kept) + i)
    BY <1>3, <2>1 DEF Consecutive
  <2> QED
    BY <1>2, <2>2
<1>5. Consecutive(kept, last)
  <2>1. Len(kept) <= Len(all) /\ Len(all) <= last
    BY <1>2, <1>3 DEF Consecutive
  <2> QED
    BY <1>2, <1>4, <2>1 DEF Consecutive
<1>6. Enough(kept, last)
  <2>1. Len(all) >= last \/ Len(all) >= HistoryLimit
    BY <1>3 DEF Enough
  <2> QED
    BY <1>2, <1>3, <2>1 DEF Enough
<1> QED
  BY <1>5, <1>6

LEMMA NextThrottleInv ==
    ASSUME CellsInv, ThrottleInv, [HookNext]_hookVars
    PROVE  ThrottleInv'
<1>0. /\ delivered \in Nat /\ messages \in Seq(Numbers) /\ batch \in Seq(Numbers)
      /\ buffered \in BOOLEAN /\ stopped \in BOOLEAN
      /\ ~buffered => batch = <<>>
      /\ ~stopped => Consecutive(messages \o batch, delivered) /\ Enough(messages \o batch, delivered)
      /\ messages # <<>> => lastMessage = messages[Len(messages)]
  BY DEF ThrottleInv
<1>1. ASSUME UNCHANGED <<bufferVars, delivered>> PROVE ThrottleInv'
  BY <1>0, <1>1 DEF bufferVars, ThrottleInv, Consecutive, Enough
<1>2. CASE Connect \/ UNCHANGED hookVars
  BY <1>1, <1>2 DEF Connect, hookVars
<1>3. CASE Unmount
  <2>1. Buffer!Stop /\ UNCHANGED delivered
    BY <1>3 DEF Unmount
  <2>2. CASE buffered
    BY <1>0, <2>1, <2>2 DEF Buffer!Stop, Buffer!Discard, ThrottleInv
  <2>3. CASE ~buffered
    BY <1>1, <2>1, <2>3 DEF Buffer!Stop, bufferVars, ThrottleInv
  <2> QED
    BY <2>2, <2>3
<1>4. ASSUME Received PROVE ThrottleInv'
  <2>1. CASE Called # "onMessage"
    BY <1>1, <1>4, <2>1 DEF Received
  <2>2. CASE Called = "onMessage"
    <3>1. delivered' = delivered + 1 /\ Buffer!Push(delivered + 1)
      BY <1>4, <2>2 DEF Received
    <3>2. CASE ~buffered
      <4> DEFINE added == <<delivered + 1>>
      <4>0. delivered + 1 \in Numbers
        BY <1>0 DEF Numbers
      <4>1. Buffer!Land(added) /\ UNCHANGED <<buffered, batch, stopped>> /\ batch = <<>>
        BY <1>0, <3>1, <3>2 DEF Buffer!Push
      <4>2. added \in Seq(Numbers) /\ added # <<>> /\ added[Len(added)] = delivered + 1
        BY <4>0
      <4>3. messages \o batch = messages /\ messages \o added = Append(messages, delivered + 1)
        BY <1>0, <4>1
      <4> HIDE DEF added
      <4>4. /\ messages' = Buffer!AppendBounded(messages, added)
            /\ lastMessage' = added[Len(added)]
        BY <4>1, <4>2 DEF Buffer!Land, Buffer!Latest
      <4>5. messages' \in Seq(Numbers) /\ messages' # <<>> /\ messages'[Len(messages')] = lastMessage'
        BY <1>0, <4>2, <4>4, BoundEndsInAdded
      <4>6. ~stopped => Consecutive(messages', delivered + 1) /\ Enough(messages', delivered + 1)
        <5>1. ~stopped => /\ Consecutive(messages \o added, delivered + 1)
                          /\ Enough(messages \o added, delivered + 1)
          BY <1>0, <4>3, OneMore
        <5> QED
          BY <1>0, <4>2, <4>4, <5>1, BoundKeepsNewest
      <4>7. messages' \o batch' = messages'
        BY <4>1, <4>5
      <4> QED
        BY <1>0, <3>1, <4>1, <4>5, <4>6, <4>7 DEF ThrottleInv, Enough
    <3>3. CASE buffered /\ stopped
      BY <1>0, <3>1, <3>3 DEF Buffer!Push, Buffer!vars, ThrottleInv
    <3>4. CASE buffered /\ ~stopped
      <4>0. delivered + 1 \in Numbers
        BY <1>0 DEF Numbers
      <4>1. batch' = Append(batch, delivered + 1) /\ UNCHANGED <<buffered, messages, lastMessage, stopped>>
        BY <3>1, <3>4 DEF Buffer!Push
      <4>2. messages' \o batch' = Append(messages \o batch, delivered + 1)
        <5> DEFINE one == <<delivered + 1>>
        <5>1. messages \o batch \in Seq(Numbers) /\ one \in Seq(Numbers) /\ delivered + 1 \in Numbers
          BY <1>0, <4>0, ConcatProperties
        <5>2. /\ batch' = batch \o one
              /\ Append(messages \o batch, delivered + 1) = (messages \o batch) \o one
          BY <1>0, <4>1, <5>1, AppendIsConcat
        <5> HIDE DEF one
        <5>3. (messages \o batch) \o one = messages \o (batch \o one)
          BY <1>0, <5>1, ConcatAssociative
        <5> QED
          BY <4>1, <5>2, <5>3
      <4>3. batch' \in Seq(Numbers)
        BY <1>0, <4>0, <4>1, AppendProperties
      <4>4. Consecutive(messages' \o batch', delivered') /\ Enough(messages' \o batch', delivered')
        BY <1>0, <3>1, <3>4, <4>2, OneMore
      <4> QED
        BY <1>0, <3>1, <3>4, <4>1, <4>3, <4>4 DEF ThrottleInv, Enough
    <3> QED
      BY <1>0, <3>2, <3>3, <3>4
  <2> QED
    BY <2>1, <2>2
<1>5. CASE Flush
  <2>1. Buffer!Land(batch) /\ batch' = <<>> /\ UNCHANGED <<buffered, stopped, delivered>>
    BY <1>5 DEF Flush, Buffer!FlushTimer, Buffer!LandBatch
  <2>2. CASE batch = <<>>
    <3>1. UNCHANGED <<buffered, messages, lastMessage, batch, stopped, delivered>>
      BY <2>1, <2>2 DEF Buffer!Land
    <3> QED
      BY <1>0, <3>1 DEF ThrottleInv, Consecutive, Enough
  <2>3. CASE batch # <<>>
    <3>1. /\ messages' = Buffer!AppendBounded(messages, batch)
          /\ lastMessage' = batch[Len(batch)]
      BY <2>1, <2>3 DEF Buffer!Land, Buffer!Latest
    <3>2. messages' \in Seq(Numbers) /\ messages' # <<>> /\ messages'[Len(messages')] = lastMessage'
      BY <1>0, <2>3, <3>1, BoundEndsInAdded
    <3>3. ~stopped => Consecutive(messages', delivered) /\ Enough(messages', delivered)
      BY <1>0, <2>3, <3>1, BoundKeepsNewest
    <3>4. messages' \o batch' = messages' /\ batch' \in Seq(Numbers)
      BY <2>1, <3>2
    <3> QED
      BY <1>0, <2>1, <3>2, <3>3, <3>4 DEF ThrottleInv, Enough
  <2> QED
    BY <2>2, <2>3
<1> QED
  BY <1>2, <1>3, <1>4, <1>5 DEF HookNext, Proceed, Event

(* What the hook does with its client is a step of the client.               *)
LEMMA HookStep == [HookNext]_hookVars => [Next]_vars
<1> SUFFICES ASSUME [HookNext]_hookVars PROVE [Next]_vars
  OBVIOUS
<1>1. CASE Flush \/ UNCHANGED hookVars
  BY <1>1 DEF Flush, hookVars, vars
<1>2. CASE Connect \/ Unmount \/ Proceed \/ Event
  BY <1>2 DEF Connect, Unmount, Proceed, Event, Next
<1> QED
  BY <1>1, <1>2 DEF HookNext

LEMMA NextQuietInv ==
    ASSUME QuietInv, [HookNext]_hookVars
    PROVE  QuietInv'
<1>1. ~crossed /\ (flushing => buffered /\ ~stopped) /\ (asked = "close" /\ buffered => stopped)
  BY DEF QuietInv
<1>2. CASE Connect
  <2>1. UNCHANGED <<crossed, flushing, buffered, stopped>> /\ asked' = "start"
    BY <1>2 DEF Connect, Start, bufferVars
  <2> QED
    BY <1>1, <2>1 DEF QuietInv
<1>3. CASE Unmount
  <2>1. ~crossed'
    <3>1. stack = <<>> /\ crossed' = (crossed \/ HalfWay)
      BY <1>3 DEF Unmount, Close
    <3>2. ~HalfWay
      BY <3>1 DEF HalfWay
    <3> QED
      BY <1>1, <3>1, <3>2
  <2>2. ~flushing' /\ (buffered' => stopped')
    <3>1. CASE buffered
      BY <1>3, <3>1 DEF Unmount, Buffer!Stop, Buffer!Discard
    <3>2. CASE ~buffered
      BY <1>1, <1>3, <3>2 DEF Unmount, Buffer!Stop
    <3> QED
      BY <3>1, <3>2
  <2> QED
    BY <2>1, <2>2 DEF QuietInv
<1>4. CASE Proceed \/ Event
  <2>1. UNCHANGED <<crossed, asked>> /\ Received
    BY <1>4 DEF Proceed, Event, Resume, Dial, DialThrows, AnnounceOpen, Teardown, Arm, Return,
                HandleOpen, HandleMessage, HandleError, Fire
  <2>2. UNCHANGED <<buffered, stopped>>
    BY <2>1 DEF Received, bufferVars, Buffer!Push, Buffer!vars
  <2>3. flushing' => flushing \/ (buffered /\ ~stopped)
    BY <2>1 DEF Received, bufferVars, Buffer!Push, Buffer!vars
  <2> QED
    BY <1>1, <2>1, <2>2, <2>3 DEF QuietInv
<1>5. CASE Flush \/ UNCHANGED hookVars
  BY <1>1, <1>5 DEF Flush, Buffer!FlushTimer, hookVars, vars, bufferVars, QuietInv
<1> QED
  BY <1>2, <1>3, <1>4, <1>5 DEF HookNext

(* Until the hook is closed its throttle loses, repeats and reorders nothing *)
(* of what the client hands over; between two tasks the state and error      *)
(* cells are those of the client and the attempt cell is the number of its   *)
(* last error; and once closed nothing is left that could change them,       *)
(* whenever timers, events and errors come.                                  *)
THEOREM NothingLostCorrect == HookSpec => []NothingLost
<1>1. HookInit => CellsInv /\ ThrottleInv /\ QuietInv /\ SseInv
  <2> SUFFICES ASSUME HookInit PROVE CellsInv /\ ThrottleInv /\ QuietInv /\ SseInv
    OBVIOUS
  <2>1. CellsInv
    BY DEF HookInit, Init, CellsInv, AttemptInv, At
  <2>2. messages = <<>> /\ batch = <<>> /\ delivered = 0 /\ buffered \in BOOLEAN /\ stopped = FALSE
    BY DEF HookInit, Buffer!Init
  <2>3. messages \o batch = <<>> /\ <<>> \in Seq(Numbers) /\ Len(<<>>) = 0
    BY <2>2
  <2>4. Consecutive(<<>>, 0) /\ Enough(<<>>, 0)
    BY <2>3, MessageAssumption DEF Consecutive, Enough
  <2>5. QuietInv
    BY DEF HookInit, Init, Buffer!Init, QuietInv
  <2>6. SseInv
    BY InitSseInv DEF HookInit
  <2> QED
    BY <2>1, <2>2, <2>3, <2>4, <2>5, <2>6 DEF ThrottleInv
<1>2. CellsInv /\ ThrottleInv /\ [HookNext]_hookVars => CellsInv' /\ ThrottleInv'
  BY NextCellsInv, NextThrottleInv
<1>3. QuietInv /\ SseInv /\ [HookNext]_hookVars => QuietInv' /\ SseInv'
  <2> SUFFICES ASSUME QuietInv, SseInv, [HookNext]_hookVars PROVE QuietInv' /\ SseInv'
    OBVIOUS
  <2>1. QuietInv' /\ [Next]_vars
    BY NextQuietInv, HookStep
  <2> QED
    BY <2>1, NextSseInv DEF QuietInv
<1>4. CellsInv /\ ThrottleInv /\ QuietInv /\ SseInv => NothingLost
  <2> SUFFICES ASSUME CellsInv, ThrottleInv, QuietInv, SseInv PROVE NothingLost
    OBVIOUS
  <2>1. CellsAgree
    BY DEF CellsInv, CellsAgree, AttemptInv, At
  <2>2. ~stopped => Consecutive(messages \o batch, delivered) /\ Enough(messages \o batch, delivered)
    BY DEF ThrottleInv
  <2>3. messages # <<>> => lastMessage = messages[Len(messages)]
    BY DEF ThrottleInv
  <2>4. ~stopped => \A i \in DOMAIN (messages \o batch) :
            (messages \o batch)[i] = delivered - Len(messages \o batch) + i
    BY <2>2 DEF Consecutive
  <2>5. QuietOnceClosed
    BY SseInvIsTrue DEF CloseIsFinal, CellsInv, QuietInv, QuietOnceClosed
  <2> QED
    BY <2>1, <2>2, <2>3, <2>4, <2>5 DEF NothingLost, Enough
<1> QED
  BY <1>1, <1>2, <1>3, <1>4, PTL DEF HookSpec
==============================================================================
