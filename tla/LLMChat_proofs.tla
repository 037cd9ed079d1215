--------------------------- MODULE LLMChat_proofs ----------------------------
(* Proofs about LLMChat, for any number of sends and of chunks, every         *)
(* consumer and every transport: loops of several sends may be read at once.  *)
EXTENDS LLMChat, SequenceTheorems, TLAPS

USE DEF Busy, Abort, Cleared, AppendChunk

(* A send that reads its reply has a place for it, if only a former one.    *)
Placed == \A s \in Reading : slot[s] >= 1

(* A send that has yet to be made is held, ended and displaced by nobody.   *)
Fresh == \A s \in Sends :
    phase[s] = "unborn" => s \notin aborted /\ s # controller /\ s \notin displaced

(* The flag is up for a send that is read and was not ended.                *)
Held == streaming => controller \in Reading \ aborted

(* It is up for nothing else, and while it is up nothing that has been      *)
(* ended is still read.                                                     *)
NoneLingers ==
    /\ streaming => Reading \cap aborted = {}
    /\ Reading \ aborted = IF streaming THEN {controller} ELSE {}

(* The place of a send that is read, unless it was displaced, is its turn.  *)
OwnTurn == \A s \in Reading \ displaced : slot[s] <= Len(turns) /\ turns[slot[s]].of = s

BaseInv == TypeOK /\ Placed /\ ResetEmpties
FlagInv == Fresh /\ Held /\ (~hasty => NoneLingers)
TextInv == OwnTurn /\ RepliesPure

(* What a chunk does to the turns when its place is there ...               *)
Landed(ts, k, s, us) ==
    /\ us \in Seq(Turn)
    /\ Len(us) = Len(ts)
    /\ \A i \in 1..Len(ts) : us[i].of = ts[i].of
    /\ \A i \in 1..Len(ts) : i # k => us[i].text = ts[i].text
    /\ us[k].text = Append(ts[k].text, s)

LEMMA ChunkLands ==
    ASSUME NEW ts \in Seq(Turn), NEW k \in 1..Len(ts), NEW s \in Sends
    PROVE  Landed(ts, k, s, [ts EXCEPT ![k].text = Append(@, s)])
<1> DEFINE us == [ts EXCEPT ![k].text = Append(@, s)]
<1> DEFINE e == [ts[k] EXCEPT !.text = Append(@, s)]
<1>1. ts[k] \in Turn
  BY ElementOfSeq
<1>2. Append(ts[k].text, s) \in Seq(Sends)
  BY <1>1, AppendProperties DEF Turn
<1>3. e \in Turn /\ e.of = ts[k].of /\ e.text = Append(ts[k].text, s)
  BY <1>1, <1>2 DEF Turn
<1>4. us = [ts EXCEPT ![k] = e]
  OBVIOUS
<1> HIDE DEF e
<1>5. /\ [ts EXCEPT ![k] = e] \in Seq(Turn)
      /\ Len([ts EXCEPT ![k] = e]) = Len(ts)
      /\ \A i \in 1..Len(ts) : [ts EXCEPT ![k] = e][i] = IF i = k THEN e ELSE ts[i]
  BY <1>3, ExceptSeq
<1>6. \A i \in 1..Len(ts) : us[i] = IF i = k THEN e ELSE ts[i]
  BY <1>4, <1>5, Zenon
<1>7. us \in Seq(Turn) /\ Len(us) = Len(ts)
  BY <1>4, <1>5, Zenon
<1>8. \A i \in 1..Len(ts) : us[i].of = ts[i].of
  BY <1>3, <1>6, Zenon
<1>9. \A i \in 1..Len(ts) : i # k => us[i].text = ts[i].text
  BY <1>6, Zenon
<1>10. us[k].text = Append(ts[k].text, s)
  BY <1>3, <1>6, Zenon
<1> QED
  BY <1>7, <1>8, <1>9, <1>10, Zenon DEF Landed

(* ... and the turn that a send adds.                                       *)
LEMMA TurnAdded ==
    ASSUME NEW ts \in Seq(Turn), NEW s \in Sends
    PROVE  LET t == [of |-> s, text |-> <<>>]
               us == Append(ts, t) IN
           /\ us \in Seq(Turn)
           /\ Len(us) = Len(ts) + 1
           /\ \A i \in 1..Len(ts) : us[i] = ts[i]
           /\ us[Len(ts) + 1] = t
<1>1. <<>> \in Seq(Sends)
  BY EmptySeq
<1>2. [of |-> s, text |-> <<>>] \in Turn
  BY <1>1 DEF Turn
<1> QED
  BY <1>2, AppendProperties

LEMMA BaseInit == Init => BaseInv
<1> SUFFICES ASSUME Init PROVE BaseInv
  OBVIOUS
<1>1. turns \in Seq(Turn)
  BY EmptySeq DEF Init
<1>2. chunks \in [Sends -> 0..MaxChunks] /\ aborted \in SUBSET Sends
  BY SendAssumption DEF Init
<1> QED
  BY <1>1, <1>2 DEF Init, BaseInv, TypeOK, Placed, Reading, ResetEmpties

LEMMA BaseStep ==
    ASSUME BaseInv, [Next]_vars
    PROVE  BaseInv'
<1>0. /\ TypeOK /\ Placed /\ ResetEmpties
      /\ Len(turns) \in Nat
  BY LenProperties DEF BaseInv, TypeOK
<1>1. ASSUME NEW s \in Sends, Send(s) PROVE BaseInv'
  <2>1. turns' \in Seq(Turn)
    BY <1>0, <1>1, TurnAdded DEF Send, TypeOK
  <2>2. slot'[s] = Len(turns) + 1 /\ \A r \in Sends \ {s} : slot'[r] = slot[r]
    BY <1>0, <1>1 DEF Send, TypeOK
  <2>5. hasty' \in BOOLEAN
    BY <1>1 DEF Send
  <2>3. TypeOK'
    BY <1>0, <1>1, <2>1, <2>5 DEF Send, TypeOK
  <2>4. Placed'
    BY <1>0, <1>1, <2>2 DEF Send, Placed, Reading, TypeOK
  <2> QED
    BY <1>1, <2>3, <2>4 DEF Send, BaseInv, ResetEmpties
<1>2. ASSUME NEW s \in Sends, Chunk(s) PROVE BaseInv'
  <2>1. slot[s] \in Nat /\ slot[s] >= 1
    BY <1>0, <1>2 DEF Chunk, Placed, TypeOK
  <2>2. turns' \in Seq(Turn)
    <3>1. CASE slot[s] <= Len(turns)
      <4>1. turns \in Seq(Turn) /\ slot[s] \in 1..Len(turns)
        BY <1>0, <2>1, <3>1 DEF TypeOK
      <4>2. turns' = [turns EXCEPT ![slot[s]].text = Append(@, s)]
        BY <1>2, <3>1 DEF Chunk
      <4> QED
        BY <4>1, <4>2, ChunkLands DEF Landed
    <3>2. CASE ~(slot[s] <= Len(turns))
      BY <1>0, <1>2, <3>2 DEF Chunk, TypeOK
    <3> QED
      BY <3>1, <3>2
  <2>3. chunks' \in [Sends -> 0..MaxChunks]
    BY <1>0, <1>2, SendAssumption DEF Chunk, TypeOK
  <2>4. TypeOK'
    BY <1>0, <1>2, <2>2, <2>3 DEF Chunk, TypeOK
  <2>5. Placed'
    BY <1>0, <1>2 DEF Chunk, Placed, Reading
  <2>6. ResetEmpties'
    <3>1. turns = <<>> => turns' = <<>>
      BY <1>2, <2>1, EmptySeq DEF Chunk
    <3> QED
      BY <1>0, <1>2, <3>1 DEF Chunk, ResetEmpties
  <2> QED
    BY <2>4, <2>5, <2>6 DEF BaseInv
<1>3. ASSUME NEW s \in Sends, End(s) \/ Throw(s) PROVE BaseInv'
  <2>1. TypeOK'
    BY <1>0, <1>3 DEF End, Throw, Finally, TypeOK
  <2>2. Placed'
    BY <1>0, <1>3 DEF End, Throw, Finally, Placed, Reading, TypeOK
  <2>3. ResetEmpties'
    BY <1>0, <1>3 DEF End, Throw, Finally, ResetEmpties
  <2> QED
    BY <2>1, <2>2, <2>3 DEF BaseInv
<1>4. CASE Stop \/ Reset
  <2>1. turns' \in Seq(Turn)
    BY <1>0, <1>4, EmptySeq DEF Stop, Reset, TypeOK
  <2>2. aborted' \in SUBSET Sends /\ displaced' \in SUBSET Sends
    BY <1>0, <1>4 DEF Stop, Reset, Reading, TypeOK
  <2>3. TypeOK'
    BY <1>0, <1>4, <2>1, <2>2 DEF Stop, Reset, TypeOK
  <2> QED
    BY <1>0, <1>4, <2>3 DEF Stop, Reset, BaseInv, Placed, Reading, ResetEmpties
<1>5. CASE UNCHANGED vars
  BY <1>0, <1>5 DEF vars, BaseInv, TypeOK, Placed, Reading, ResetEmpties
<1> QED
  BY <1>1, <1>2, <1>3, <1>4, <1>5 DEF Next

LEMMA BaseInvCorrect == Spec => []BaseInv
  BY BaseInit, BaseStep, PTL DEF Spec

(* Every variable keeps its type.                                           *)
THEOREM TypeCorrect == Spec => []TypeOK
  BY BaseInvCorrect, PTL DEF BaseInv

(* After reset() the conversation stays empty until the next send(),        *)
(* whatever the streams that were being read still yield.                   *)
THEOREM ResetEmptiesCorrect == Spec => []ResetEmpties
  BY BaseInvCorrect, PTL DEF BaseInv

LEMMA FlagStep ==
    ASSUME BaseInv, FlagInv, [Next]_vars
    PROVE  FlagInv'
<1>0. /\ TypeOK /\ Fresh /\ Held /\ NoSend \notin Sends
      /\ ~hasty => NoneLingers
  BY SendAssumption DEF BaseInv, FlagInv
<1>1. ASSUME NEW s \in Sends, Send(s) PROVE FlagInv'
  <2>1. s \notin aborted /\ controller' = s /\ aborted' = aborted /\ streaming' = TRUE
    BY <1>0, <1>1 DEF Send, Fresh
  <2>2. Reading' = Reading \cup {s}
    BY <1>0, <1>1 DEF Send, Reading, TypeOK
  <2>3. Fresh'
    BY <1>0, <1>1 DEF Send, Fresh, TypeOK
  <2>4. ~hasty' => Reading = {}
    BY <1>1 DEF Send
  <2>5. Held'
    BY <2>1, <2>2 DEF Held
  <2>6. ~hasty' => NoneLingers'
    BY <2>1, <2>2, <2>4 DEF NoneLingers
  <2> QED
    BY <2>3, <2>5, <2>6 DEF FlagInv
<1>2. ASSUME NEW s \in Sends, Chunk(s) PROVE FlagInv'
  BY <1>0, <1>2 DEF Chunk, FlagInv, Fresh, Held, NoneLingers, Reading
<1>3. ASSUME NEW s \in Sends, End(s) \/ Throw(s) PROVE FlagInv'
  <2>1. /\ Reading' = Reading \ {s} /\ aborted' = aborted /\ hasty' = hasty
        /\ streaming' = FALSE
    BY <1>0, <1>3 DEF End, Throw, Finally, Reading, TypeOK
  <2>2. Fresh'
    BY <1>0, <1>3 DEF End, Throw, Finally, Fresh, TypeOK
  <2>3. ASSUME ~hasty PROVE Reading \ aborted \subseteq {s}
    <3>1. s \in Reading /\ NoneLingers
      BY <1>0, <1>3, <2>3 DEF End, Throw
    <3> QED
      BY <3>1 DEF NoneLingers
  <2>4. ~hasty' => NoneLingers'
    BY <2>1, <2>3 DEF NoneLingers
  <2> QED
    BY <2>1, <2>2, <2>4 DEF FlagInv, Held
<1>4. CASE Stop \/ Reset
  <2>1. Reading' = Reading /\ streaming' = FALSE /\ hasty' = hasty
    BY <1>4 DEF Stop, Reset, Reading
  <2>2. ~hasty => Reading \ aborted' = {}
    BY <1>0, <1>4 DEF Stop, Reset, NoneLingers, Reading
  <2>3. Fresh'
    BY <1>0, <1>4 DEF Stop, Reset, Fresh, TypeOK, Held, Reading
  <2> QED
    BY <2>1, <2>2, <2>3 DEF FlagInv, NoneLingers, Held
<1>5. CASE UNCHANGED vars
  BY <1>0, <1>5 DEF vars, FlagInv, Fresh, Held, NoneLingers, Reading
<1> QED
  BY <1>1, <1>2, <1>3, <1>4, <1>5 DEF Next

LEMMA FlagInit == Init => FlagInv
  BY SendAssumption DEF Init, FlagInv, Fresh, Held, NoneLingers, Reading

LEMMA FlagInvCorrect == Spec => [](BaseInv /\ FlagInv)
<1>1. Init => BaseInv /\ FlagInv
  BY BaseInit, FlagInit
<1>2. BaseInv /\ FlagInv /\ [Next]_vars => (BaseInv /\ FlagInv)'
  BY BaseStep, FlagStep
<1> QED
  BY <1>1, <1>2, PTL DEF Spec

(* The flag is only up while the reply it stands for is read and stop()     *)
(* would end it; and until a send() is made before an earlier one has       *)
(* settled it is up whenever there is such a reply.                         *)
THEOREM StreamingIsHeldCorrect == Spec => []StreamingIsHeld
<1>1. FlagInv => StreamingIsHeld
  BY DEF FlagInv, Held, NoneLingers, StreamingIsHeld
<1> QED
  BY <1>1, FlagInvCorrect, PTL

LEMMA TextStep ==
    ASSUME BaseInv, FlagInv, TextInv, [Next]_vars
    PROVE  TextInv'
<1>0. /\ TypeOK /\ Placed /\ OwnTurn /\ RepliesPure /\ Fresh
      /\ Len(turns) \in Nat /\ DOMAIN turns = 1..Len(turns)
  BY LenProperties DEF BaseInv, FlagInv, TextInv, TypeOK
<1>1. ASSUME NEW s \in Sends, Send(s) PROVE TextInv'
  <2>1. Reading' = Reading \cup {s} /\ displaced' = displaced
    BY <1>0, <1>1 DEF Send, Reading, TypeOK
  <2>2. /\ turns' \in Seq(Turn)
        /\ Len(turns') = Len(turns) + 1
        /\ \A i \in 1..Len(turns) : turns'[i] = turns[i]
        /\ turns'[Len(turns) + 1] = [of |-> s, text |-> <<>>]
    BY <1>0, <1>1, TurnAdded DEF Send, TypeOK
  <2>3. OwnTurn'
    <3> SUFFICES ASSUME NEW q \in Reading', q \notin displaced
                 PROVE  slot'[q] <= Len(turns') /\ turns'[slot'[q]].of = q
      BY <2>1 DEF OwnTurn
    <3>1. CASE q = s
      BY <1>0, <1>1, <2>2, <3>1 DEF Send, TypeOK
    <3>2. CASE q # s
      <4>1. q \in Reading /\ slot'[q] = slot[q] /\ slot[q] \in 1..Len(turns)
        BY <1>0, <1>1, <2>1, <3>2 DEF Send, OwnTurn, Placed, Reading, TypeOK
      <4> QED
        BY <1>0, <2>2, <4>1 DEF OwnTurn
    <3> QED
      BY <3>1, <3>2
  <2>4. DOMAIN turns' = 1..Len(turns) + 1
    BY <2>2, LenProperties
  <2>5. ASSUME NEW i \in DOMAIN turns', NEW k \in DOMAIN turns'[i].text
        PROVE  turns'[i].text[k] \in {turns'[i].of} \cup displaced
    <3>1. CASE i \in 1..Len(turns)
      BY <1>0, <2>2, <2>5, <3>1 DEF RepliesPure
    <3>2. CASE i = Len(turns) + 1
      BY <2>2, <2>5, <3>2
    <3> QED
      BY <1>0, <2>4, <3>1, <3>2
  <2> QED
    BY <2>1, <2>3, <2>5 DEF TextInv, RepliesPure
<1>2. ASSUME NEW s \in Sends, Chunk(s) PROVE TextInv'
  <2>1. s \in Reading /\ slot[s] \in Nat /\ slot[s] >= 1 /\ slot' = slot /\ Reading' = Reading
        /\ displaced' = displaced
    BY <1>0, <1>2 DEF Chunk, Placed, TypeOK, Reading
  <2>2. CASE ~(slot[s] <= Len(turns))
    BY <1>0, <1>2, <2>1, <2>2 DEF Chunk, TextInv, OwnTurn, RepliesPure
  <2>3. CASE slot[s] <= Len(turns)
    <3>1. /\ turns' \in Seq(Turn)
          /\ Len(turns') = Len(turns)
          /\ \A i \in 1..Len(turns) : turns'[i].of = turns[i].of
          /\ \A i \in 1..Len(turns) : i # slot[s] => turns'[i].text = turns[i].text
          /\ turns'[slot[s]].text = Append(turns[slot[s]].text, s)
      <4>1. turns \in Seq(Turn) /\ slot[s] \in 1..Len(turns)
        BY <1>0, <2>1, <2>3 DEF TypeOK
      <4>2. turns' = [turns EXCEPT ![slot[s]].text = Append(@, s)]
        BY <1>2, <2>3 DEF Chunk
      <4>3. Landed(turns, slot[s], s, turns')
        BY <4>1, <4>2, ChunkLands
      <4> QED
        BY <4>3 DEF Landed
    <3>2. DOMAIN turns' = 1..Len(turns)
      BY <3>1, LenProperties
    <3>3. OwnTurn'
      <4> SUFFICES ASSUME NEW r \in Reading, r \notin displaced
                   PROVE  slot[r] <= Len(turns') /\ turns'[slot[r]].of = r
        BY <2>1, <3>1 DEF OwnTurn
      <4>1. slot[r] \in 1..Len(turns) /\ turns[slot[r]].of = r
        BY <1>0 DEF OwnTurn, Placed, TypeOK, Reading
      <4> QED
        BY <3>1, <4>1
    <3>4. ASSUME NEW i \in DOMAIN turns', NEW k \in DOMAIN turns'[i].text
          PROVE  turns'[i].text[k] \in {turns'[i].of} \cup displaced
      <4>1. i \in 1..Len(turns) /\ turns[i].text \in Seq(Sends)
        <5>1. i \in 1..Len(turns) /\ turns \in Seq(Turn)
          BY <1>0, <3>2, <3>4 DEF TypeOK
        <5>2. turns[i] \in Turn
          BY <5>1, ElementOfSeq
        <5> QED
          BY <5>1, <5>2 DEF Turn
      <4>2. CASE i # slot[s]
        BY <1>0, <3>1, <3>4, <4>1, <4>2 DEF RepliesPure
      <4>3. CASE i = slot[s]
        <5> DEFINE text == turns[i].text
        <5>1. /\ Len(text) \in Nat /\ DOMAIN text = 1..Len(text)
              /\ DOMAIN Append(text, s) = 1..Len(text) + 1
              /\ \A j \in 1..Len(text) : Append(text, s)[j] = text[j]
              /\ Append(text, s)[Len(text) + 1] = s
          BY <4>1, LenProperties, AppendProperties
        <5>2. /\ turns'[i].text = Append(text, s) /\ turns'[i].of = turns[i].of
              /\ s \in {turns[i].of} \cup displaced
          BY <1>0, <2>1, <2>3, <3>1, <4>1, <4>3 DEF OwnTurn
        <5>3. \A j \in DOMAIN text : text[j] \in {turns[i].of} \cup displaced
          BY <1>0, <4>1 DEF RepliesPure
        <5> HIDE DEF text
        <5> QED
          BY <3>4, <5>1, <5>2, <5>3
      <4> QED
        BY <4>2, <4>3
    <3> QED
      BY <2>1, <3>3, <3>4 DEF TextInv, RepliesPure
  <2> QED
    BY <2>2, <2>3
<1>3. ASSUME NEW s \in Sends, End(s) \/ Throw(s) PROVE TextInv'
  <2>1. Reading' \subseteq Reading /\ turns' = turns /\ slot' = slot /\ displaced' = displaced
    BY <1>0, <1>3 DEF End, Throw, Finally, Reading, TypeOK
  <2> QED
    BY <1>0, <2>1 DEF TextInv, OwnTurn, RepliesPure
<1>4. CASE Stop
  BY <1>0, <1>4 DEF Stop, TextInv, OwnTurn, RepliesPure, Reading
<1>5. CASE Reset
  <2>1. turns' = <<>> /\ Len(turns') = 0 /\ DOMAIN turns' = {}
    BY <1>5, EmptySeq DEF Reset
  <2>2. Reading' = Reading /\ displaced' = displaced \cup Reading
    BY <1>5 DEF Reset, Reading
  <2> QED
    BY <2>1, <2>2 DEF TextInv, OwnTurn, RepliesPure
<1>6. CASE UNCHANGED vars
  BY <1>0, <1>6 DEF vars, TextInv, OwnTurn, RepliesPure, Reading
<1> QED
  BY <1>1, <1>2, <1>3, <1>4, <1>5, <1>6 DEF Next

(* The text of a reply is made of the chunks of its own send, and of no      *)
(* other but those whose turn reset() removed while they were read: however  *)
(* many streams are read at once after stop() and send().                    *)
THEOREM RepliesPureCorrect == Spec => []RepliesPure
<1> DEFINE Inv == BaseInv /\ FlagInv /\ TextInv
<1>1. Init => Inv
  <2>1. Init => TextInv
    BY DEF Init, TextInv, OwnTurn, RepliesPure, Reading
  <2> QED
    BY <2>1, BaseInit, FlagInit
<1>2. Inv /\ [Next]_vars => Inv'
  BY BaseStep, FlagStep, TextStep
<1>3. Inv => RepliesPure
  BY DEF TextInv
<1> QED
  BY <1>1, <1>2, <1>3, PTL DEF Spec
==============================================================================
