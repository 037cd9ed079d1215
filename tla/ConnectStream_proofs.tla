------------------------ MODULE ConnectStream_proofs -------------------------
(* Proofs about ConnectStream for any number of attempts, any consumer and  *)
(* any number of calls.                                                     *)
EXTENDS ConnectStream, SequenceTheorems, TLAPS

USE DEF IsCurrent, NewToken, CountUp, AbortController, Wanted, Drained, Silent,
        OwnToken, Retry

------------------------------------------------------------------------------
(* Frames that still have a run to carry on with, and where that run is.    *)

Work(f) == f.at \in {"open", "schedule", "arm"}
PhaseAt(at) == IF at = "open" THEN "opening" ELSE "failing"

Frames(s, p) ==
    /\ \A i \in 1..Len(s) : Work(s[i]) => /\ s[i].run \in Runs
                                          /\ p[s[i].run] = PhaseAt(s[i].at)
    /\ \A i, j \in 1..Len(s) :
           Work(s[i]) /\ Work(s[j]) /\ s[i].run = s[j].run => i = j

\* Runs that sit in no frame may move on.
Moves(p, q) == \A r \in Runs : p[r] \in {"opening", "failing"} => q[r] = p[r]

LEMMA PushType ==
    ASSUME NEW s \in Seq(Frame), NEW at, NEW r, NEW cb,
           [at |-> at, run |-> r, cb |-> cb] \in Frame
    PROVE  /\ Push(at, r, cb, s) \in Seq(Frame)
           /\ Push(at, r, cb, s) # <<>>
           /\ Len(Push(at, r, cb, s)) = Len(s) + 1
           /\ Push(at, r, cb, s)[1] = [at |-> at, run |-> r, cb |-> cb]
           /\ \A i \in 1..Len(s) : Push(at, r, cb, s)[i + 1] = s[i]
<1> DEFINE f == [at |-> at, run |-> r, cb |-> cb]
<1>1. /\ <<f>> \in Seq(Frame) /\ Len(<<f>>) = 1 /\ <<f>>[1] = f
  OBVIOUS
<1>2. Len(s) \in Nat
  BY LenProperties
<1>3. /\ <<f>> \o s \in Seq(Frame)
      /\ Len(<<f>> \o s) = Len(<<f>>) + Len(s)
      /\ \A i \in 1..Len(<<f>>) + Len(s) :
             (<<f>> \o s)[i] = IF i <= Len(<<f>>) THEN <<f>>[i] ELSE s[i - Len(<<f>>)]
  BY <1>1, ConcatProperties
<1> QED
  BY <1>1, <1>2, <1>3 DEF Push

LEMMA TailType ==
    ASSUME NEW s \in Seq(Frame), s # <<>>
    PROVE  /\ Head(s) \in Frame
           /\ Head(s) = s[1]
           /\ Len(s) \in Nat \ {0}
           /\ Tail(s) \in Seq(Frame)
           /\ Len(Tail(s)) = Len(s) - 1
           /\ \A i \in 1..Len(Tail(s)) : Tail(s)[i] = s[i + 1]
<1>1. Head(s) = s[1] /\ Len(s) \in Nat \ {0}
  BY EmptySeq
<1>2. /\ Head(s) \in Frame
      /\ Tail(s) \in Seq(Frame)
      /\ Len(Tail(s)) = Len(s) - 1
      /\ \A i \in 1..Len(Tail(s)) : Tail(s)[i] = s[i + 1]
  BY HeadTailProperties
<1> QED
  BY <1>1, <1>2

LEMMA KeepFrames ==
    ASSUME NEW s \in Seq(Frame), NEW p, NEW q, Frames(s, p), Moves(p, q)
    PROVE  Frames(s, q)
  BY DEF Frames, Moves, PhaseAt

LEMMA PopFrames ==
    ASSUME NEW s \in Seq(Frame), s # <<>>, NEW p, NEW q, Frames(s, p),
           \A r \in Runs : q[r] = p[r] \/ (Work(Head(s)) /\ r = Head(s).run)
    PROVE  Frames(Tail(s), q)
<1>1. \A i \in 1..Len(Tail(s)) : i + 1 \in 1..Len(s) /\ Tail(s)[i] = s[i + 1]
  BY TailType
<1>2. 1 \in 1..Len(s) /\ Head(s) = s[1]
  BY TailType
<1>3. ASSUME NEW i \in 1..Len(Tail(s)), Work(Tail(s)[i])
      PROVE  /\ Tail(s)[i].run \in Runs
             /\ q[Tail(s)[i].run] = PhaseAt(Tail(s)[i].at)
  <2>1. Work(s[i + 1]) /\ s[i + 1].run \in Runs /\ p[s[i + 1].run] = PhaseAt(s[i + 1].at)
    BY <1>1, <1>3 DEF Frames
  <2>2. ~(Work(Head(s)) /\ s[i + 1].run = Head(s).run)
    BY <1>1, <1>2, <2>1 DEF Frames
  <2> QED
    BY <1>1, <2>1, <2>2
<1>4. ASSUME NEW i \in 1..Len(Tail(s)), NEW j \in 1..Len(Tail(s)),
             Work(Tail(s)[i]), Work(Tail(s)[j]), Tail(s)[i].run = Tail(s)[j].run
      PROVE  i = j
  <2>1. i + 1 = j + 1
    BY <1>1, <1>4 DEF Frames
  <2> QED
    BY <2>1
<1> QED
  BY <1>3, <1>4 DEF Frames

LEMMA PushFrames ==
    ASSUME NEW s \in Seq(Frame), NEW at, NEW r, NEW cb,
           [at |-> at, run |-> r, cb |-> cb] \in Frame,
           NEW p, NEW q, Frames(s, p), Moves(p, q),
           at \in {"open", "schedule", "arm"} =>
               /\ r \in Runs
               /\ q[r] = PhaseAt(at)
               /\ \A i \in 1..Len(s) : Work(s[i]) => s[i].run # r
    PROVE  Frames(Push(at, r, cb, s), q)
<1> DEFINE t == Push(at, r, cb, s)
<1>1. /\ Len(t) = Len(s) + 1
      /\ t[1] = [at |-> at, run |-> r, cb |-> cb]
      /\ \A i \in 1..Len(s) : t[i + 1] = s[i]
  BY PushType
<1>2. Len(s) \in Nat
  BY LenProperties
<1>3. \A i \in 1..Len(t) : i = 1 \/ (i - 1 \in 1..Len(s) /\ t[i] = s[i - 1])
  <2> SUFFICES ASSUME NEW i \in 1..Len(t), i # 1
               PROVE  i - 1 \in 1..Len(s) /\ t[i] = s[i - 1]
    OBVIOUS
  <2>1. i - 1 \in 1..Len(s) /\ (i - 1) + 1 = i
    BY <1>1, <1>2
  <2> QED
    BY <1>1, <2>1
<1>4. Frames(s, q)
  BY KeepFrames
<1>5. Work(t[1]) => t[1].run \in Runs /\ q[t[1].run] = PhaseAt(t[1].at)
  BY <1>1 DEF Work
<1>6. ASSUME NEW i \in 1..Len(t), Work(t[i])
      PROVE  t[i].run \in Runs /\ q[t[i].run] = PhaseAt(t[i].at)
  BY <1>3, <1>4, <1>5, <1>6 DEF Frames
<1>7. ASSUME NEW i \in 1..Len(t), NEW j \in 1..Len(t),
             Work(t[i]), Work(t[j]), t[i].run = t[j].run, i # j
      PROVE  FALSE
  <2>1. CASE i # 1 /\ j # 1
    <3>1. i - 1 = j - 1
      BY <1>3, <1>4, <1>7, <2>1 DEF Frames
    <3> QED
      BY <1>7, <3>1
  <2>2. CASE i = 1
    BY <1>1, <1>3, <1>7, <2>2 DEF Work
  <2>3. CASE j = 1
    BY <1>1, <1>3, <1>7, <2>3 DEF Work
  <2> QED
    BY <2>1, <2>2, <2>3
<1> QED
  BY <1>6, <1>7 DEF Frames

------------------------------------------------------------------------------
(* Type correctness.  It needs to know that the frames on the stack belong   *)
(* to the runs they carry on with, and that a handle is of an armed timer.   *)

HandleOK == handle # NoRun => phase[handle] = "waiting"

TypeInv == TypeOK /\ Frames(stack, phase) /\ HandleOK

LEMMA TopIsRun ==
    ASSUME TypeInv, NEW at, At(at), at \in {"open", "schedule", "arm"}
    PROVE  /\ stack \in Seq(Frame) /\ stack # <<>>
           /\ Work(Head(stack))
           /\ Top \in Runs /\ phase[Top] = PhaseAt(at)
           /\ \A i \in 1..Len(Tail(stack)) :
                  Work(Tail(stack)[i]) => Tail(stack)[i].run # Top
<1>1. stack \in Seq(Frame) /\ stack # <<>> /\ Work(Head(stack))
  BY DEF TypeInv, TypeOK, At, Work
<1>2. 1 \in 1..Len(stack) /\ Head(stack) = stack[1]
  BY <1>1, TailType
<1>3. Top \in Runs /\ phase[Top] = PhaseAt(at)
  BY <1>1, <1>2 DEF TypeInv, Frames, At, Top
<1>4. ASSUME NEW i \in 1..Len(Tail(stack)), Work(Tail(stack)[i])
      PROVE  Tail(stack)[i].run # Top
  <2>1. i + 1 \in 1..Len(stack) /\ Tail(stack)[i] = stack[i + 1] /\ i + 1 # 1
    BY <1>1, TailType
  <2> QED
    BY <1>1, <1>2, <1>4, <2>1 DEF TypeInv, Frames, Top
<1> QED
  BY <1>1, <1>3, <1>4

(* setState keeps the types and the frames: shared by the actions that use it. *)
LEMMA SetStateInv ==
    ASSUME NEW next \in States, NEW at \in {"open", "closing", "schedule", "arm", "end"},
           NEW r \in Runs \cup {NoRun}, NEW rest \in Seq(Frame),
           SetState(next, at, r, rest),
           NEW p, Frames(rest, p), Moves(p, phase'),
           at \in {"open", "schedule", "arm"} =>
               /\ r \in Runs
               /\ phase'[r] = PhaseAt(at)
               /\ \A i \in 1..Len(rest) : Work(rest[i]) => rest[i].run # r
    PROVE  current' \in States /\ stack' \in Seq(Frame) /\ Frames(stack', phase')
<1> DEFINE cb == IF current = next THEN "none" ELSE "onStateChange"
<1>1. /\ current' = next /\ stack' = Push(at, r, cb, rest)
      /\ [at |-> at, run |-> r, cb |-> cb] \in Frame
  BY DEF SetState, Frame, CallbackNames
<1> HIDE DEF cb
<1>2. stack' \in Seq(Frame)
  BY <1>1, PushType
<1>3. Frames(stack', phase')
  BY <1>1, PushFrames
<1> QED
  BY <1>1, <1>2, <1>3

LEMMA CatchInv ==
    ASSUME TypeInv, NEW r \in Runs, NEW rest \in Seq(Frame), Catch(r, rest),
           NEW p, Frames(rest, p), Moves(p, phase'),
           \A i \in 1..Len(rest) : Work(rest[i]) => rest[i].run # r,
           phase[r] # "waiting"
    PROVE  TypeInv'
<1>1. CASE ~IsCurrent(r) \/ r \in aborted
  <2>1. phase' = [phase EXCEPT ![r] = "finished"] /\ stack' = rest
    BY <1>1 DEF Catch
  <2>2. Frames(stack', phase')
    BY <2>1, KeepFrames
  <2> QED
    BY <2>1, <2>2, RunAssumption DEF TypeInv, TypeOK, HandleOK, Catch, Phases
<1>2. CASE ~(~IsCurrent(r) \/ r \in aborted)
  <2>1. /\ phase' = [phase EXCEPT ![r] = "failing"]
        /\ stack' = Push("schedule", r, "onError", rest)
        /\ [at |-> "schedule", run |-> r, cb |-> "onError"] \in Frame
    BY <1>2 DEF Catch, Frame, CallbackNames
  <2>2. stack' \in Seq(Frame)
    BY <2>1, PushType
  <2>3. phase'[r] = PhaseAt("schedule")
    BY <2>1 DEF TypeInv, TypeOK, PhaseAt
  <2>4. Frames(stack', phase')
    BY <2>1, <2>3, PushFrames
  <2> QED
    BY <2>1, <2>2, <2>4, RunAssumption DEF TypeInv, TypeOK, HandleOK, Catch, Phases
<1> QED
  BY <1>1, <1>2

LEMMA InitTypeInv == Init => TypeInv
<1> SUFFICES ASSUME Init PROVE TypeInv
  OBVIOUS
<1>1. stack \in Seq(Frame) /\ Len(stack) = 0
  BY EmptySeq DEF Init
<1>2. Frames(stack, phase)
  BY <1>1 DEF Frames
<1> QED
  BY <1>1, <1>2 DEF Init, TypeInv, TypeOK, HandleOK, States, Phases

LEMMA NextTypeInv == TypeInv /\ [Next]_vars => TypeInv'
<1> SUFFICES ASSUME TypeInv, [Next]_vars PROVE TypeInv'
  OBVIOUS
<1> USE RunAssumption
<1>0. TypeOK /\ Frames(stack, phase) /\ HandleOK /\ stack \in Seq(Frame)
  BY DEF TypeInv, TypeOK
<1>1. CASE Start
  <2>1. PICK r \in Runs : /\ phase[r] = "unborn"
                          /\ phase' = [phase EXCEPT ![r] = "opening"]
                          /\ Consume(r, runToken + 1)
    BY <1>1 DEF Start
  <2>2. \A i \in 1..Len(stack) : Work(stack[i]) => stack[i].run # r
    BY <1>0, <2>1 DEF Frames, PhaseAt
  <2>3. phase'[r] = PhaseAt("open") /\ Moves(phase, phase')
    BY <1>0, <2>1 DEF TypeOK, PhaseAt, Moves
  <2>4. SetState("streaming", "open", r, stack)
    BY <2>1 DEF Consume
  <2>5. current' \in States /\ stack' \in Seq(Frame) /\ Frames(stack', phase')
    BY <1>0, <2>2, <2>3, <2>4, SetStateInv DEF States
  <2> QED
    BY <1>0, <1>1, <2>1, <2>5
    DEF Start, Consume, MayCall, TypeInv, TypeOK, HandleOK, Phases
<1>2. CASE Stop
  <2>1. Moves(phase, phase') /\ phase' \in [Runs -> Phases]
    BY <1>0, <1>2 DEF Stop, Moves, HandleOK, TypeOK, Phases
  <2>2. SetState("closed", "end", NoRun, stack)
    BY <1>2 DEF Stop
  <2>3. current' \in States /\ stack' \in Seq(Frame) /\ Frames(stack', phase')
    BY <1>0, <2>1, <2>2, SetStateInv DEF States
  <2> QED
    BY <1>0, <1>2, <2>1, <2>3 DEF Stop, MayCall, TypeInv, TypeOK, HandleOK
<1>3. CASE Open
  <2>1. Top \in Runs /\ phase[Top] = "opening" /\ stack # <<>> /\ Work(Head(stack))
    BY <1>3, TopIsRun DEF Open, PhaseAt
  <2>2. phase' = [phase EXCEPT ![Top] = "draining"] /\ stack' = Tail(stack)
    BY <1>3 DEF Open
  <2>3. \A r \in Runs : phase'[r] = phase[r] \/ (Work(Head(stack)) /\ r = Head(stack).run)
    BY <1>0, <2>1, <2>2 DEF TypeOK, Top
  <2>4. Frames(Tail(stack), phase')
    BY <1>0, <2>1, <2>3, PopFrames
  <2>5. Tail(stack) \in Seq(Frame)
    BY <1>0, <2>1, TailType
  <2> QED
    BY <1>0, <1>3, <2>1, <2>2, <2>4, <2>5 DEF Open, TypeInv, TypeOK, HandleOK, Phases
<1>4. CASE OpenThrows
  <2>1. /\ Top \in Runs /\ phase[Top] = "opening" /\ stack # <<>> /\ Work(Head(stack))
        /\ \A i \in 1..Len(Tail(stack)) :
               Work(Tail(stack)[i]) => Tail(stack)[i].run # Top
    BY <1>4, TopIsRun DEF OpenThrows, PhaseAt
  <2>2. Catch(Top, Tail(stack)) /\ Tail(stack) \in Seq(Frame)
    BY <1>4, <1>0, <2>1, TailType DEF OpenThrows
  <2>3. \A r \in Runs : phase'[r] = phase[r] \/ (Work(Head(stack)) /\ r = Head(stack).run)
    BY <1>0, <2>1, <2>2 DEF Catch, TypeOK, Top
  <2>4. Frames(Tail(stack), phase')
    BY <1>0, <2>1, <2>3, PopFrames
  <2> QED
    BY <2>1, <2>2, <2>4, CatchInv DEF Moves
<1>5. CASE ScheduleReconnect
  <2>1. /\ Top \in Runs /\ phase[Top] = "failing" /\ stack # <<>> /\ Work(Head(stack))
        /\ \A i \in 1..Len(Tail(stack)) :
               Work(Tail(stack)[i]) => Tail(stack)[i].run # Top
    BY <1>5, TopIsRun DEF ScheduleReconnect, PhaseAt
  <2>2. /\ SetState("streaming", "arm", Top, Tail(stack)) /\ phase' = phase
        /\ Tail(stack) \in Seq(Frame) /\ Frames(Tail(stack), phase)
    BY <1>5, <1>0, <2>1, TailType, PopFrames DEF ScheduleReconnect
  <2>3. current' \in States /\ stack' \in Seq(Frame) /\ Frames(stack', phase')
    BY <2>1, <2>2, SetStateInv DEF States, Moves, PhaseAt
  <2> QED
    BY <1>0, <1>5, <2>2, <2>3 DEF ScheduleReconnect, TypeInv, TypeOK, HandleOK
<1>6. CASE Arm
  <2>1. Top \in Runs /\ phase[Top] = "failing" /\ stack # <<>> /\ Work(Head(stack))
    BY <1>6, TopIsRun DEF Arm, PhaseAt
  <2>2. phase' = [phase EXCEPT ![Top] = "waiting"] /\ stack' = Tail(stack)
    BY <1>6 DEF Arm
  <2>3. \A r \in Runs : phase'[r] = phase[r] \/ (Work(Head(stack)) /\ r = Head(stack).run)
    BY <1>0, <2>1, <2>2 DEF TypeOK, Top
  <2>4. Frames(Tail(stack), phase')
    BY <1>0, <2>1, <2>3, PopFrames
  <2>5. Tail(stack) \in Seq(Frame)
    BY <1>0, <2>1, TailType
  <2> QED
    BY <1>0, <1>6, <2>1, <2>2, <2>4, <2>5 DEF Arm, TypeInv, TypeOK, HandleOK, Phases
<1>7. CASE AnnounceClose
  <2>1. /\ stack # <<>> /\ phase' = phase
        /\ stack' = Push("end", NoRun, "onClose", Tail(stack))
        /\ [at |-> "end", run |-> NoRun, cb |-> "onClose"] \in Frame
    BY <1>7 DEF AnnounceClose, At, Frame, CallbackNames
  <2>2. Tail(stack) \in Seq(Frame) /\ Frames(Tail(stack), phase)
    BY <1>0, <2>1, TailType, PopFrames
  <2>3. stack' \in Seq(Frame)
    BY <2>1, <2>2, PushType
  <2>4. \A rest \in Seq(Frame) : Frames(rest, phase)
            => Frames(Push("end", NoRun, "onClose", rest), phase)
    BY <2>1, PushFrames DEF Moves
  <2> QED
    BY <1>0, <1>7, <2>1, <2>2, <2>3, <2>4 DEF AnnounceClose, TypeInv, TypeOK, HandleOK
<1>8. CASE Return
  <2>1. stack # <<>> /\ phase' = phase /\ stack' = Tail(stack)
    BY <1>8 DEF Return, At
  <2>2. stack' \in Seq(Frame) /\ Frames(stack', phase')
    BY <1>0, <2>1, TailType, PopFrames
  <2> QED
    BY <1>0, <1>8, <2>1, <2>2 DEF Return, TypeInv, TypeOK, HandleOK
<1>9. ASSUME NEW r \in Runs, Deliver(r) PROVE TypeInv'
  <2>1. CASE IsCurrent(r)
    <3>1. /\ phase' = phase
          /\ stack' = Push("end", NoRun, "onMessage", stack)
          /\ [at |-> "end", run |-> NoRun, cb |-> "onMessage"] \in Frame
      BY <1>9, <2>1 DEF Deliver, Frame, CallbackNames
    <3>2. stack' \in Seq(Frame)
      BY <1>0, <3>1, PushType
    <3>3. Frames(Push("end", NoRun, "onMessage", stack), phase)
      BY <1>0, <3>1, PushFrames DEF Moves
    <3> QED
      BY <1>0, <1>9, <2>1, <3>1, <3>2, <3>3 DEF Deliver, TypeInv, TypeOK, HandleOK
  <2>2. CASE ~IsCurrent(r)
    <3>1. /\ phase' = [phase EXCEPT ![r] = "finished"] /\ stack' = stack
          /\ Moves(phase, phase')
      BY <1>0, <1>9, <2>2 DEF Deliver, Moves, TypeOK
    <3>2. Frames(stack', phase')
      BY <1>0, <3>1, KeepFrames
    <3> QED
      BY <1>0, <1>9, <2>2, <3>1, <3>2 DEF Deliver, TypeInv, TypeOK, HandleOK, Phases
  <2> QED
    BY <2>1, <2>2
<1>10. ASSUME NEW r \in Runs, Complete(r) PROVE TypeInv'
  <2>1. stack' = stack /\ Moves(phase, phase')
    BY <1>0, <1>10 DEF Complete, Moves, TypeOK
  <2>2. Frames(stack', phase')
    BY <1>0, <2>1, KeepFrames
  <2> QED
    BY <1>0, <1>10, <2>1, <2>2 DEF Complete, TypeInv, TypeOK, HandleOK, Phases
<1>11. ASSUME NEW r \in Runs, Close(r) PROVE TypeInv'
  <2>1. SetState("closed", "closing", r, stack) /\ Moves(phase, phase')
    BY <1>0, <1>11 DEF Close, Moves, TypeOK
  <2>2. current' \in States /\ stack' \in Seq(Frame) /\ Frames(stack', phase')
    BY <1>0, <2>1, SetStateInv DEF States
  <2> QED
    BY <1>0, <1>11, <2>2 DEF Close, TypeInv, TypeOK, HandleOK, Phases
<1>12. ASSUME NEW r \in Runs, Fail(r) PROVE TypeInv'
  <2>1. Catch(r, stack) /\ phase[r] = "draining" /\ stack = <<>>
    BY <1>12 DEF Fail, Idle
  <2>2. Moves(phase, phase') /\ \A i \in 1..Len(stack) : Work(stack[i]) => stack[i].run # r
    BY <1>0, <2>1 DEF Catch, Moves, TypeOK, Frames, PhaseAt
  <2> QED
    BY <1>0, <2>1, <2>2, CatchInv
<1>13. ASSUME NEW r \in Runs, Fire(r) PROVE TypeInv'
  <2>1. CASE IsCurrent(r)
    <3>1. PICK s \in Runs :
              /\ phase[s] = "unborn"
              /\ phase' = [phase EXCEPT ![r] = "finished", ![s] = "opening"]
              /\ Consume(s, token[r])
      BY <1>13, <2>1 DEF Fire
    <3>2. \A i \in 1..Len(stack) : Work(stack[i]) => stack[i].run # s
      BY <1>0, <3>1 DEF Frames, PhaseAt
    <3>3. phase'[s] = PhaseAt("open") /\ Moves(phase, phase')
      BY <1>0, <1>13, <3>1 DEF Fire, TypeOK, PhaseAt, Moves
    <3>4. SetState("streaming", "open", s, stack)
      BY <3>1 DEF Consume
    <3>5. current' \in States /\ stack' \in Seq(Frame) /\ Frames(stack', phase')
      BY <1>0, <3>2, <3>3, <3>4, SetStateInv DEF States
    <3> QED
      BY <1>0, <1>13, <3>1, <3>5
      DEF Fire, Consume, TypeInv, TypeOK, HandleOK, Phases
  <2>2. CASE ~IsCurrent(r)
    <3>1. /\ phase' = [phase EXCEPT ![r] = "finished"] /\ stack' = stack
          /\ Moves(phase, phase')
      BY <1>0, <1>13, <2>2 DEF Fire, Moves, TypeOK
    <3>2. Frames(stack', phase')
      BY <1>0, <3>1, KeepFrames
    <3> QED
      BY <1>0, <1>13, <2>2, <3>1, <3>2 DEF Fire, TypeInv, TypeOK, HandleOK, Phases
  <2> QED
    BY <2>1, <2>2
<1>14. CASE UNCHANGED vars
  BY <1>0, <1>14 DEF vars, TypeInv, TypeOK, HandleOK, Frames
<1> QED
  BY <1>1, <1>2, <1>3, <1>4, <1>5, <1>6, <1>7, <1>8, <1>9, <1>10, <1>11, <1>12,
     <1>13, <1>14 DEF Next, Resume

(* Every reachable state is well typed, and the stack only ever carries on   *)
(* with runs that are waiting for it: no frame of a run that was replaced,   *)
(* and no two frames of one run, whatever the callbacks did re-entrantly.    *)
THEOREM TypeCorrect == Spec => [](TypeOK /\ Frames(stack, phase))
<1>1. TypeInv => TypeOK /\ Frames(stack, phase)
  BY DEF TypeInv
<1> QED
  BY <1>1, InitTypeInv, NextTypeInv, PTL DEF Spec

------------------------------------------------------------------------------
(* Tokens.                                                                   *)

(* Unless start() was the consumer's last word, no attempt still in flight  *)
(* is current: after stop() neither a late message, a late failure nor a    *)
(* timer that was not cancelled acts.                                       *)
StoppedIsSuperseded ==
    asked # "start" => \A r \in Runs : Active(r) => token[r] < runToken

TokenInv ==
    /\ TypeInv
    /\ \A r \in Runs : Active(r) => token[r] <= runToken
    /\ OneRunPerToken
    /\ StoppedIsSuperseded

Streams(r) == phase[r] \in {"opening", "draining"}

\* A step that takes no run up and changes no token.
Quiet ==
    /\ UNCHANGED <<runToken, token, controller, aborted, asked>>
    /\ \A r \in Runs : /\ Active(r)' => Active(r)
                       /\ Streams(r)' => Streams(r)
                       /\ phase[r] = "unborn" <=> phase'[r] = "unborn"

LEMMA QuietSteps ==
    ASSUME TypeInv, [Next]_vars
    PROVE  \/ Quiet \/ Start \/ Stop
           \/ \E r \in Runs : Fire(r) /\ IsCurrent(r)
<1> USE DEF TypeInv, TypeOK, Quiet, Active, Streams
<1>1. CASE Open
  BY <1>1, TopIsRun DEF Open, PhaseAt
<1>2. CASE OpenThrows
  BY <1>2, TopIsRun DEF OpenThrows, Catch, PhaseAt
<1>3. CASE ScheduleReconnect
  BY <1>3 DEF ScheduleReconnect
<1>4. CASE Arm
  BY <1>4, TopIsRun DEF Arm, PhaseAt
<1>5. CASE AnnounceClose \/ Return
  BY <1>5 DEF AnnounceClose, Return
<1>6. ASSUME NEW r \in Runs, Deliver(r) \/ Complete(r) \/ Close(r) \/ Fail(r)
      PROVE  Quiet
  BY <1>6 DEF Deliver, Complete, Close, Fail, Catch
<1>7. ASSUME NEW r \in Runs, Fire(r), ~IsCurrent(r)
      PROVE  Quiet
  BY <1>7 DEF Fire
<1>8. CASE UNCHANGED vars
  BY <1>8 DEF vars
<1> QED
  BY <1>1, <1>2, <1>3, <1>4, <1>5, <1>6, <1>7, <1>8 DEF Next, Resume

LEMMA NextTokenInv == TokenInv /\ [Next]_vars => TokenInv'
<1> SUFFICES ASSUME TokenInv, [Next]_vars PROVE TokenInv'
  OBVIOUS
<1>0. TypeInv /\ TypeOK /\ TypeInv'
  BY NextTypeInv DEF TokenInv, TypeInv
<1>1. CASE Quiet
  BY <1>0, <1>1 DEF Quiet, TokenInv, OneRunPerToken, StoppedIsSuperseded
<1>2. CASE Start
  <2>1. PICK r \in Runs : /\ phase[r] = "unborn"
                          /\ phase' = [phase EXCEPT ![r] = "opening"]
                          /\ token' = [token EXCEPT ![r] = runToken + 1]
    BY <1>2 DEF Start, Consume
  <2>2. runToken' = runToken + 1 /\ asked' = "start" /\ runToken \in Nat
    BY <1>0, <1>2 DEF Start, TypeOK
  <2>3. \A s \in Runs : s # r => (Active(s)' <=> Active(s)) /\ token'[s] = token[s]
    BY <1>0, <2>1 DEF TypeOK, Active
  <2>4. token'[r] = runToken + 1 /\ \A s \in Runs : Active(s) => token[s] <= runToken
    BY <1>0, <2>1 DEF TypeOK, TokenInv
  <2> QED
    BY <1>0, <2>2, <2>3, <2>4 DEF TokenInv, TypeOK, OneRunPerToken, StoppedIsSuperseded
<1>3. CASE Stop
  <2>1. /\ runToken' = runToken + 1 /\ token' = token /\ runToken \in Nat
        /\ \A r \in Runs : Active(r)' => Active(r)
    BY <1>0, <1>3 DEF Stop, TypeOK, Active
  <2> QED
    BY <1>0, <2>1 DEF TokenInv, TypeOK, OneRunPerToken, StoppedIsSuperseded
<1>4. ASSUME NEW r \in Runs, Fire(r), IsCurrent(r)
      PROVE  TokenInv'
  <2>1. PICK s \in Runs :
            /\ phase[s] = "unborn"
            /\ phase' = [phase EXCEPT ![r] = "finished", ![s] = "opening"]
            /\ token' = [token EXCEPT ![s] = token[r]]
    BY <1>4 DEF Fire, Consume
  <2>2. Active(r) /\ r # s /\ token[r] = runToken /\ runToken' = runToken /\ asked' = asked
    BY <1>4, <2>1 DEF Fire, Active, IsCurrent
  <2>3. \A q \in Runs : q # s => token'[q] = token[q] /\ (Active(q)' => Active(q) /\ q # r)
    BY <1>0, <2>1 DEF TypeOK, Active
  <2>4. token'[s] = token[r]
    BY <1>0, <2>1 DEF TypeOK
  <2>5. asked = "start"
    BY <1>0, <2>2 DEF TokenInv, StoppedIsSuperseded, TypeOK
  <2>6. OneRunPerToken'
    BY <2>2, <2>3, <2>4 DEF TokenInv, OneRunPerToken
  <2> QED
    BY <1>0, <2>2, <2>3, <2>4, <2>5, <2>6 DEF TokenInv, TypeOK, StoppedIsSuperseded
<1> QED
  BY <1>0, <1>1, <1>2, <1>3, <1>4, QuietSteps

LEMMA InitTokenInv == Init => TokenInv
  BY InitTypeInv DEF Init, TokenInv, Active, OneRunPerToken, StoppedIsSuperseded

LEMMA AlwaysTokenInv == Spec => []TokenInv
  BY InitTokenInv, NextTokenInv, PTL DEF Spec

(* For every consumer and every number of attempts: an attempt, the retry    *)
(* that follows it and the loops they superseded never make two current runs *)
(* of one start().                                                           *)
THEOREM OneRunPerTokenCorrect == Spec => []OneRunPerToken
<1>1. TokenInv => OneRunPerToken
  BY DEF TokenInv
<1> QED
  BY <1>1, AlwaysTokenInv, PTL

(* stop() supersedes everything that is in flight, also when it is called    *)
(* from a callback and when the timer it cancels is not the one armed last.  *)
THEOREM StoppedIsSupersededCorrect == Spec => []StoppedIsSuperseded
<1>1. TokenInv => StoppedIsSuperseded
  BY DEF TokenInv
<1> QED
  BY <1>1, AlwaysTokenInv, PTL

(* The stream of the current attempt is the one the machine could cancel,    *)
(* and none of those that were cancelled is current.                         *)
DeliverInv ==
    /\ TokenInv
    /\ controller # NoRun => phase[controller] # "unborn"
    /\ \A r \in Runs : phase[r] # "unborn" => token[r] <= runToken
    /\ \A r \in aborted : phase[r] # "unborn" /\ token[r] < runToken
    /\ \A r \in Runs : Streams(r) /\ IsCurrent(r) => controller = r

LEMMA NextDeliverInv == DeliverInv /\ [Next]_vars => DeliverInv'
<1> SUFFICES ASSUME DeliverInv, [Next]_vars PROVE DeliverInv'
  OBVIOUS
<1>0. TypeInv /\ TypeOK /\ TokenInv' /\ TokenInv
  BY NextTokenInv DEF DeliverInv, TokenInv, TypeInv
<1>1. CASE Quiet
  <2>1. \A r \in Runs : /\ Streams(r)' => Streams(r)
                        /\ phase[r] = "unborn" <=> phase'[r] = "unborn"
    BY <1>1 DEF Quiet
  <2>2. UNCHANGED <<runToken, token, controller, aborted>>
    BY <1>1 DEF Quiet
  <2> QED
    BY <1>0, <2>1, <2>2 DEF DeliverInv, TypeOK
<1>2. CASE Start
  <2>1. PICK r \in Runs : /\ phase[r] = "unborn"
                          /\ phase' = [phase EXCEPT ![r] = "opening"]
                          /\ token' = [token EXCEPT ![r] = runToken + 1]
                          /\ controller' = r
    BY <1>2 DEF Start, Consume
  <2>2. runToken' = runToken + 1 /\ aborted' = aborted /\ runToken \in Nat
    BY <1>0, <1>2 DEF Start, TypeOK
  <2>3. \A s \in Runs : s # r => phase'[s] = phase[s] /\ token'[s] = token[s]
    BY <1>0, <2>1 DEF TypeOK
  <2>4. phase'[r] = "opening" /\ token'[r] = runToken + 1
    BY <1>0, <2>1 DEF TypeOK
  <2>5. \A s \in Runs : s # r /\ phase[s] # "unborn" => token[s] \in Nat /\ token[s] # runToken + 1
    BY <1>0, <2>2 DEF DeliverInv, TypeOK
  <2>6. \A s \in Runs : Streams(s)' /\ IsCurrent(s)' => s = r
    BY <2>2, <2>3, <2>5 DEF Streams
  <2>7. \A s \in Runs : phase'[s] # "unborn" => token'[s] <= runToken + 1
    BY <1>0, <2>2, <2>3, <2>4 DEF DeliverInv, TypeOK
  <2>8. \A s \in aborted : s \in Runs /\ s # r /\ token[s] < runToken + 1
    BY <1>0, <2>1, <2>2 DEF DeliverInv, TypeOK
  <2> QED
    BY <1>0, <2>1, <2>2, <2>3, <2>4, <2>6, <2>7, <2>8 DEF DeliverInv
<1>3. CASE Stop
  <2>1. /\ runToken' = runToken + 1 /\ token' = token /\ runToken \in Nat
        /\ aborted' = aborted \cup ({controller} \ {NoRun}) /\ controller' = NoRun
    BY <1>0, <1>3 DEF Stop, TypeOK
  <2>2. \A r \in Runs : phase[r] = "unborn" <=> phase'[r] = "unborn"
    BY <1>0, <1>3, RunAssumption DEF Stop, TypeInv, HandleOK, TypeOK
  <2>3. \A r \in Runs : phase'[r] # "unborn" => token[r] \in Nat /\ token[r] < runToken + 1
    BY <1>0, <2>1, <2>2 DEF DeliverInv, TypeOK
  <2>4. \A r \in aborted' : r \in Runs /\ phase'[r] # "unborn"
    BY <1>0, <2>1, <2>2 DEF DeliverInv, TypeOK
  <2>5. \A r \in Runs : ~(Streams(r)' /\ IsCurrent(r)')
    BY <2>1, <2>3 DEF Streams
  <2> QED
    BY <1>0, <2>1, <2>3, <2>4, <2>5 DEF DeliverInv, TypeOK
<1>4. ASSUME NEW r \in Runs, Fire(r), IsCurrent(r)
      PROVE  DeliverInv'
  <2>1. PICK s \in Runs :
            /\ phase[s] = "unborn"
            /\ phase' = [phase EXCEPT ![r] = "finished", ![s] = "opening"]
            /\ token' = [token EXCEPT ![s] = token[r]]
            /\ controller' = s
    BY <1>4 DEF Fire, Consume
  <2>2. /\ Active(r) /\ phase[r] = "waiting" /\ r # s /\ token[r] = runToken
        /\ runToken' = runToken /\ aborted' = aborted /\ runToken \in Nat
    BY <1>0, <1>4, <2>1 DEF Fire, Active, IsCurrent, TypeOK
  <2>3. ASSUME NEW q \in Runs, q # s
        PROVE  /\ token'[q] = token[q]
               /\ Streams(q)' => Streams(q)
               /\ phase'[q] # "unborn" => phase[q] # "unborn"
               /\ phase[q] # "unborn" => phase'[q] # "unborn"
    BY <1>0, <2>1, <2>2, <2>3 DEF TypeOK, Streams
  <2>4. phase'[s] = "opening" /\ token'[s] = runToken
    BY <1>0, <2>1, <2>2 DEF TypeOK
  <2>5. \A q \in Runs : Streams(q) => ~IsCurrent(q)
    BY <1>0, <2>2 DEF TokenInv, OneRunPerToken, IsCurrent, Streams, Active
  <2>6. \A q \in aborted : q \in Runs /\ q # s
    BY <1>0, <2>1 DEF DeliverInv, TypeOK
  <2>7. \A q \in Runs : phase'[q] # "unborn" => token'[q] <= runToken
    BY <1>0, <2>2, <2>3, <2>4 DEF DeliverInv, TypeOK
  <2>8. \A q \in aborted : phase'[q] # "unborn" /\ token'[q] < runToken
    BY <2>3, <2>6 DEF DeliverInv
  <2>9. \A q \in Runs : Streams(q)' /\ IsCurrent(q)' => q = s
    <3> SUFFICES ASSUME NEW q \in Runs, Streams(q)', IsCurrent(q)', q # s PROVE FALSE
      OBVIOUS
    <3>1. Streams(q) /\ token[q] = runToken
      BY <2>2, <2>3
    <3> QED
      BY <2>5, <3>1
  <2> QED
    BY <1>0, <2>1, <2>2, <2>4, <2>7, <2>8, <2>9 DEF DeliverInv
<1> QED
  BY <1>0, <1>1, <1>2, <1>3, <1>4, QuietSteps

(* Whatever the server yields, and whenever the machine is stopped, started  *)
(* or retries: a message that is handed over comes from the attempt begun    *)
(* last, not told to cancel, with no stop() since.                           *)
THEOREM DeliveryCorrect == Spec => DeliversCurrent
<1>1. Init => DeliverInv
  BY InitTokenInv DEF Init, DeliverInv, Streams
<1>2. DeliverInv /\ [Next]_vars => DeliverInv'
  BY NextDeliverInv
<1> DEFINE A == \A r \in Runs : Deliver(r) /\ Delivering
                    => asked = "start" /\ controller = r /\ r \notin aborted
<1>3. DeliverInv => A
  <2> SUFFICES ASSUME DeliverInv, NEW r \in Runs, Deliver(r), Delivering
               PROVE  asked = "start" /\ controller = r /\ r \notin aborted
    OBVIOUS
  <2>0. TypeOK /\ TokenInv
    BY DEF DeliverInv, TokenInv, TypeInv
  <2>1. phase[r] = "draining" /\ token[r] = runToken
    BY DEF Deliver, Delivering, Wanted, IsCurrent
  <2>2. Active(r) /\ Streams(r) /\ token[r] \in Nat
    BY <2>0, <2>1 DEF Active, Streams, TypeOK
  <2>3. asked = "start"
    BY <2>0, <2>1, <2>2 DEF TokenInv, StoppedIsSuperseded
  <2>4. controller = r
    BY <2>1, <2>2 DEF DeliverInv, IsCurrent
  <2>5. r \notin aborted
    BY <2>1, <2>2 DEF DeliverInv
  <2> QED
    BY <2>3, <2>4, <2>5
<1>4. DeliverInv => [A]_vars
  BY <1>3
<1> QED
  BY <1>1, <1>2, <1>4, PTL DEF Spec, DeliversCurrent

------------------------------------------------------------------------------
(* stop() is final, as long as the consumer does not call the machine from   *)
(* onError (StopIsFinal fails otherwise: see the run connect_stop_in_error). *)

\* No frame but the innermost is about to schedule a retry.
ScheduleOnTop ==
    \A i \in 1..Len(stack) :
        stack[i].at = "schedule" => i = 1 /\ IsCurrent(stack[i].run)
                                     /\ stack[i].cb = "onError"

StopInv == /\ TokenInv
           /\ ScheduleOnTop
           /\ asked = "stop" => current = "closed"

LEMMA PushOnTop ==
    ASSUME NEW s \in Seq(Frame), NEW at, NEW r, NEW cb,
           [at |-> at, run |-> r, cb |-> cb] \in Frame,
           \A i \in 1..Len(s) : s[i].at # "schedule",
           stack' = Push(at, r, cb, s),
           at = "schedule" => IsCurrent(r)' /\ cb = "onError"
    PROVE  ScheduleOnTop'
<1> DEFINE t == Push(at, r, cb, s)
<1>1. /\ Len(t) = Len(s) + 1 /\ Len(s) \in Nat
      /\ t[1] = [at |-> at, run |-> r, cb |-> cb]
      /\ \A i \in 1..Len(s) : t[i + 1] = s[i]
  BY PushType, LenProperties
<1>2. \A i \in 1..Len(t) : i # 1 => t[i].at # "schedule"
  <2> SUFFICES ASSUME NEW i \in 1..Len(t), i # 1 PROVE t[i].at # "schedule"
    OBVIOUS
  <2>1. i - 1 \in 1..Len(s) /\ (i - 1) + 1 = i
    BY <1>1
  <2> QED
    BY <1>1, <2>1
<1> QED
  BY <1>1, <1>2 DEF ScheduleOnTop, IsCurrent

LEMMA TailHasNoSchedule ==
    ASSUME TypeInv, ScheduleOnTop, stack # <<>>
    PROVE  \A i \in 1..Len(Tail(stack)) : Tail(stack)[i].at # "schedule"
<1> SUFFICES ASSUME NEW i \in 1..Len(Tail(stack)) PROVE Tail(stack)[i].at # "schedule"
  OBVIOUS
<1>1. stack \in Seq(Frame)
  BY DEF TypeInv, TypeOK
<1>2. i + 1 \in 1..Len(stack) /\ Tail(stack)[i] = stack[i + 1] /\ i + 1 # 1
  BY <1>1, TailType
<1> QED
  BY <1>2 DEF ScheduleOnTop

LEMMA SetStateOnTop ==
    ASSUME NEW next, NEW at \in {"open", "closing", "arm", "end"},
           NEW r \in Runs \cup {NoRun}, NEW rest \in Seq(Frame),
           SetState(next, at, r, rest),
           \A i \in 1..Len(rest) : rest[i].at # "schedule"
    PROVE  ScheduleOnTop' /\ current' = next
<1> DEFINE cb == IF current = next THEN "none" ELSE "onStateChange"
<1>1. /\ current' = next /\ stack' = Push(at, r, cb, rest)
      /\ [at |-> at, run |-> r, cb |-> cb] \in Frame
  BY DEF SetState, Frame, CallbackNames
<1> QED
  BY <1>1, PushOnTop

LEMMA CallerHasNoSchedule ==
    ASSUME TypeInv, ScheduleOnTop, MayCall, "onError" \notin Callbacks
    PROVE  \A i \in 1..Len(stack) : stack[i].at # "schedule"
<1> SUFFICES ASSUME NEW i \in 1..Len(stack), stack[i].at = "schedule" PROVE FALSE
  OBVIOUS
<1>1. stack \in Seq(Frame)
  BY DEF TypeInv, TypeOK
<1>2. i = 1 /\ stack[i].cb = "onError"
  BY DEF ScheduleOnTop
<1>3. stack # <<>> /\ Head(stack) = stack[1]
  BY <1>1, EmptySeq
<1> QED
  BY <1>2, <1>3 DEF MayCall, Idle

LEMMA NextStopInv ==
    ASSUME "onError" \notin Callbacks, StopInv, [Next]_vars
    PROVE  StopInv'
<1>0. /\ TypeInv /\ TypeOK /\ ScheduleOnTop /\ stack \in Seq(Frame)
      /\ TokenInv' /\ TypeInv' /\ TypeOK'
  BY NextTokenInv DEF StopInv, TokenInv, TypeInv, TypeOK
<1>1. CASE Start
  <2>1. PICK r \in Runs : SetState("streaming", "open", r, stack)
    BY <1>1 DEF Start, Consume
  <2>2. \A i \in 1..Len(stack) : stack[i].at # "schedule"
    BY <1>0, <1>1, CallerHasNoSchedule DEF Start
  <2>3. ScheduleOnTop'
    BY <1>0, <2>1, <2>2, SetStateOnTop
  <2> QED
    BY <1>0, <1>1, <2>3 DEF Start, StopInv
<1>2. CASE Stop
  <2>1. SetState("closed", "end", NoRun, stack)
    BY <1>2 DEF Stop
  <2>2. \A i \in 1..Len(stack) : stack[i].at # "schedule"
    BY <1>0, <1>2, CallerHasNoSchedule DEF Stop
  <2>3. ScheduleOnTop' /\ current' = "closed"
    BY <1>0, <2>1, <2>2, SetStateOnTop
  <2> QED
    BY <1>0, <2>3 DEF StopInv
<1>3. ASSUME stack # <<>>, stack' = Tail(stack), UNCHANGED <<current, asked>>
      PROVE  StopInv'
  <2>1. \A i \in 1..Len(stack') : stack'[i].at # "schedule"
    BY <1>0, <1>3, TailHasNoSchedule
  <2> QED
    BY <1>0, <1>3, <2>1 DEF StopInv, ScheduleOnTop
<1>4. CASE Open \/ Arm \/ Return
  BY <1>3, <1>4 DEF Open, Arm, Return, At
<1>5. ASSUME NEW r \in Runs, NEW rest \in Seq(Frame), Catch(r, rest),
             \A i \in 1..Len(rest) : rest[i].at # "schedule"
      PROVE  StopInv'
  <2>1. CASE ~IsCurrent(r) \/ r \in aborted
    BY <1>0, <1>5, <2>1 DEF Catch, StopInv, ScheduleOnTop
  <2>2. CASE ~(~IsCurrent(r) \/ r \in aborted)
    <3>1. /\ stack' = Push("schedule", r, "onError", rest) /\ IsCurrent(r)'
          /\ [at |-> "schedule", run |-> r, cb |-> "onError"] \in Frame
      BY <1>5, <2>2 DEF Catch, Frame, CallbackNames, IsCurrent
    <3>2. ScheduleOnTop'
      BY <1>5, <3>1, PushOnTop
    <3> QED
      BY <1>0, <1>5, <3>2 DEF Catch, StopInv
  <2> QED
    BY <2>1, <2>2
<1>6. CASE OpenThrows
  <2>1. Top \in Runs /\ stack # <<>> /\ Catch(Top, Tail(stack))
    BY <1>0, <1>6, TopIsRun DEF OpenThrows
  <2>2. Tail(stack) \in Seq(Frame)
    BY <1>0, <2>1, TailType
  <2>3. \A i \in 1..Len(Tail(stack)) : Tail(stack)[i].at # "schedule"
    BY <1>0, <2>1, TailHasNoSchedule
  <2> QED
    BY <1>5, <2>1, <2>2, <2>3
<1>7. CASE ScheduleReconnect
  <2>1. Top \in Runs /\ phase[Top] = "failing" /\ stack # <<>>
    BY <1>0, <1>7, TopIsRun DEF ScheduleReconnect, PhaseAt
  <2>2. 1 \in 1..Len(stack) /\ stack[1].at = "schedule" /\ Top = stack[1].run
    BY <1>0, <1>7, <2>1, TailType DEF ScheduleReconnect, At, Top
  <2>3. IsCurrent(Top) /\ Active(Top)
    BY <1>0, <2>1, <2>2 DEF ScheduleOnTop, Active
  <2>4. asked # "stop"
    BY <1>0, <2>1, <2>3 DEF StopInv, TokenInv, StoppedIsSuperseded, IsCurrent, TypeOK
  <2>5. Tail(stack) \in Seq(Frame)
    BY <1>0, <2>1, TailType
  <2>6. \A i \in 1..Len(Tail(stack)) : Tail(stack)[i].at # "schedule"
    BY <1>0, <2>1, TailHasNoSchedule
  <2>7. ScheduleOnTop'
    BY <1>7, <2>1, <2>5, <2>6, SetStateOnTop DEF ScheduleReconnect
  <2> QED
    BY <1>0, <1>7, <2>4, <2>7 DEF ScheduleReconnect, StopInv
<1>8. CASE AnnounceClose
  <2>1. /\ stack # <<>> /\ stack' = Push("end", NoRun, "onClose", Tail(stack))
        /\ [at |-> "end", run |-> NoRun, cb |-> "onClose"] \in Frame
    BY <1>8 DEF AnnounceClose, At, Frame, CallbackNames
  <2>2. Tail(stack) \in Seq(Frame)
    BY <1>0, <2>1, TailType
  <2>3. \A i \in 1..Len(Tail(stack)) : Tail(stack)[i].at # "schedule"
    BY <1>0, <2>1, TailHasNoSchedule
  <2>4. ScheduleOnTop'
    BY <2>1, <2>2, <2>3, PushOnTop
  <2> QED
    BY <1>0, <1>8, <2>4 DEF AnnounceClose, StopInv
<1>9. ASSUME stack = <<>> PROVE \A i \in 1..Len(stack) : stack[i].at # "schedule"
  BY <1>0, <1>9, EmptySeq
<1>10. ASSUME NEW r \in Runs, Deliver(r) PROVE StopInv'
  <2>1. CASE IsCurrent(r)
    <3>1. /\ stack' = Push("end", NoRun, "onMessage", stack) /\ stack = <<>>
          /\ [at |-> "end", run |-> NoRun, cb |-> "onMessage"] \in Frame
      BY <1>10, <2>1 DEF Deliver, Idle, Frame, CallbackNames
    <3>2. ScheduleOnTop'
      BY <1>0, <1>9, <3>1, PushOnTop
    <3> QED
      BY <1>0, <1>10, <3>2 DEF Deliver, StopInv
  <2>2. CASE ~IsCurrent(r)
    BY <1>0, <1>10, <2>2 DEF Deliver, StopInv, ScheduleOnTop, IsCurrent
  <2> QED
    BY <2>1, <2>2
<1>11. ASSUME NEW r \in Runs, Complete(r) PROVE StopInv'
  BY <1>0, <1>11 DEF Complete, StopInv, ScheduleOnTop, IsCurrent
<1>12. ASSUME NEW r \in Runs, Close(r) PROVE StopInv'
  <2>1. ScheduleOnTop' /\ current' = "closed"
    BY <1>0, <1>9, <1>12, SetStateOnTop DEF Close
  <2> QED
    BY <1>0, <2>1 DEF StopInv
<1>13. ASSUME NEW r \in Runs, Fail(r) PROVE StopInv'
  BY <1>0, <1>5, <1>9, <1>13 DEF Fail, Idle
<1>14. ASSUME NEW r \in Runs, Fire(r) PROVE StopInv'
  <2>1. CASE IsCurrent(r)
    <3>1. PICK s \in Runs : SetState("streaming", "open", s, stack)
      BY <1>14, <2>1 DEF Fire, Consume
    <3>2. Active(r) /\ stack = <<>>
      BY <1>14 DEF Fire, Active, Idle
    <3>3. asked # "stop"
      BY <1>0, <2>1, <3>2 DEF StopInv, TokenInv, StoppedIsSuperseded, IsCurrent, TypeOK
    <3>4. ScheduleOnTop'
      BY <1>0, <1>9, <3>1, <3>2, SetStateOnTop
    <3> QED
      BY <1>0, <1>14, <3>3, <3>4 DEF Fire, StopInv
  <2>2. CASE ~IsCurrent(r)
    BY <1>0, <1>14, <2>2 DEF Fire, StopInv, ScheduleOnTop, IsCurrent
  <2> QED
    BY <2>1, <2>2
<1>15. CASE UNCHANGED vars
  BY <1>0, <1>15 DEF vars, StopInv, ScheduleOnTop, IsCurrent
<1> QED
  BY <1>1, <1>2, <1>4, <1>6, <1>7, <1>8, <1>10, <1>11, <1>12, <1>13, <1>14, <1>15
  DEF Next, Resume

(* "Cancel the active stream + any pending reconnect; transition to closed": *)
(* true of every consumer that leaves the machine alone inside onError.      *)
THEOREM StopIsFinalCorrect ==
    ASSUME "onError" \notin Callbacks
    PROVE  Spec => []StopIsFinal
<1>1. Init => StopInv
  <2> SUFFICES ASSUME Init PROVE StopInv
    OBVIOUS
  <2>1. \A i \in 1..Len(stack) : FALSE
    BY EmptySeq DEF Init
  <2> QED
    BY <2>1, InitTokenInv DEF Init, StopInv, ScheduleOnTop
<1>2. StopInv /\ [Next]_vars => StopInv'
  BY NextStopInv
<1>3. StopInv => StopIsFinal
  BY DEF StopInv, StopIsFinal
<1> QED
  BY <1>1, <1>2, <1>3, PTL DEF Spec

------------------------------------------------------------------------------
(* Superseded streams are cancelled, as long as nothing runs between the end *)
(* of drainStream and the rest of runAttempt.                                *)

LeakInv ==
    /\ TokenInv
    /\ \A r \in Runs : phase[r] = "completed" => IsCurrent(r) /\ stack = <<>>
    /\ \A r \in Runs : Streams(r) /\ IsCurrent(r)
                            => controller = r /\ current = "streaming"
    /\ NoLeakedStream

\* A step that opens no stream, announces no end and leaves the controller.
LEMMA LeakQuiet ==
    ASSUME LeakInv, TokenInv',
           UNCHANGED <<runToken, token, controller>>,
           aborted \subseteq aborted',
           current' = current \/ current' = "streaming"
               \/ \A r \in Runs : Streams(r)' => ~IsCurrent(r),
           \A r \in Runs : Streams(r)' => Streams(r),
           \A r \in Runs : phase'[r] = "completed" => IsCurrent(r) /\ stack' = <<>>
    PROVE  LeakInv'
  BY DEF LeakInv, NoLeakedStream, IsCurrent, Streams

LEMMA NextLeakInv ==
    ASSUME ~MicrotaskCalls, LeakInv, [Next]_vars
    PROVE  LeakInv'
<1>0. TypeInv /\ TypeOK /\ TokenInv' /\ TypeOK' /\ stack \in Seq(Frame)
  BY NextTokenInv DEF LeakInv, TokenInv, TypeInv, TypeOK
<1>1. MayCall => \A r \in Runs : phase[r] # "completed"
  BY DEF MayCall, Idle, LeakInv
<1>2. stack # <<>> => \A r \in Runs : phase[r] # "completed"
  BY DEF LeakInv
<1>3. CASE Start
  <2>1. PICK r \in Runs : /\ phase[r] = "unborn"
                          /\ phase' = [phase EXCEPT ![r] = "opening"]
                          /\ token' = [token EXCEPT ![r] = runToken + 1]
                          /\ controller' = r /\ current' = "streaming"
    BY <1>3 DEF Start, Consume, SetState
  <2>2. /\ runToken' = runToken + 1 /\ current # "streaming" /\ aborted' = aborted
        /\ \A s \in Runs : Active(s) => token[s] <= runToken
    BY <1>0, <1>3 DEF Start, LeakInv, TokenInv
  <2>3. \A s \in Runs : s # r => phase'[s] = phase[s] /\ token'[s] = token[s]
    BY <1>0, <2>1 DEF TypeOK
  <2>4. phase'[r] = "opening" /\ token'[r] = runToken'
    BY <1>0, <2>1, <2>2 DEF TypeOK
  <2>5. \A s \in Runs : phase'[s] # "completed"
    BY <1>1, <1>3, <2>3, <2>4 DEF Start
  <2>6. \A s \in Runs : Streams(s) => s \in aborted
    BY <2>2 DEF LeakInv, NoLeakedStream, Streams
  <2>7. \A s \in Runs : Streams(s) => token[s] # runToken + 1
    BY <1>0, <2>2 DEF Streams, Active, TypeOK
  <2> QED
    BY <1>0, <2>1, <2>2, <2>3, <2>4, <2>5, <2>6, <2>7
    DEF LeakInv, NoLeakedStream, Streams, IsCurrent
<1>4. CASE Stop
  <2>1. /\ runToken' = runToken + 1 /\ token' = token
        /\ aborted' = aborted \cup ({controller} \ {NoRun})
        /\ \A r \in Runs : phase'[r] = phase[r] \/ phase'[r] = "finished"
        /\ \A r \in Runs : Active(r) => token[r] <= runToken
    BY <1>0, <1>4 DEF Stop, TypeOK, LeakInv, TokenInv
  <2>2. \A r \in Runs : phase'[r] # "completed"
    BY <1>1, <1>4, <2>1 DEF Stop
  <2>3. \A r \in Runs : Streams(r)' => Streams(r) /\ token[r] # runToken + 1
    BY <1>0, <2>1 DEF Streams, Active, TypeOK
  <2>4. \A r \in Runs : Streams(r) => r \in aborted'
    BY <2>1, RunAssumption DEF LeakInv, NoLeakedStream, Streams
  <2> QED
    BY <1>0, <2>1, <2>2, <2>3, <2>4 DEF LeakInv, NoLeakedStream, Streams, IsCurrent
<1>5. CASE Open
  <2>1. Top \in Runs /\ phase[Top] = "opening" /\ stack # <<>>
    BY <1>0, <1>5, TopIsRun DEF Open, PhaseAt
  <2> QED
    BY <1>0, <1>2, <1>5, <2>1, LeakQuiet DEF Open, Streams, TypeOK
<1>6. ASSUME NEW r \in Runs, NEW rest, Catch(r, rest),
             \A s \in Runs : phase[s] # "completed"
      PROVE  LeakInv'
  BY <1>0, <1>6, LeakQuiet DEF Catch, Streams, TypeOK
<1>7. CASE OpenThrows
  <2>1. Top \in Runs /\ stack # <<>>
    BY <1>0, <1>7, TopIsRun DEF OpenThrows
  <2> QED
    BY <1>2, <1>6, <1>7, <2>1 DEF OpenThrows
<1>8. CASE ScheduleReconnect
  BY <1>0, <1>2, <1>8, LeakQuiet DEF ScheduleReconnect, SetState, At, Streams
<1>9. CASE Arm
  <2>1. Top \in Runs /\ stack # <<>>
    BY <1>0, <1>9, TopIsRun DEF Arm
  <2> QED
    BY <1>0, <1>2, <1>9, <2>1, LeakQuiet DEF Arm, Streams, TypeOK
<1>10. CASE AnnounceClose \/ Return
  BY <1>0, <1>2, <1>10, LeakQuiet DEF AnnounceClose, Return, At, Streams
<1>11. ASSUME NEW r \in Runs, Deliver(r) PROVE LeakInv'
  <2>1. \A s \in Runs : phase[s] # "completed"
    BY <1>11 DEF Deliver, Idle
  <2> QED
    BY <1>0, <1>11, <2>1, LeakQuiet DEF Deliver, Streams, TypeOK
<1>12. ASSUME NEW r \in Runs, Complete(r) PROVE LeakInv'
  <2>1. stack = <<>> /\ \A s \in Runs : phase[s] # "completed"
    BY <1>12 DEF Complete, Idle
  <2> QED
    BY <1>0, <1>12, <2>1, LeakQuiet DEF Complete, Streams, TypeOK
<1>13. ASSUME NEW r \in Runs, Close(r) PROVE LeakInv'
  <2>1. IsCurrent(r) /\ Active(r)
    BY <1>13 DEF Close, LeakInv, Active
  <2>2. \A s \in Runs : Active(s) /\ IsCurrent(s) => s = r
    BY <2>1 DEF LeakInv, TokenInv, OneRunPerToken, IsCurrent
  <2>3. \A s \in Runs : phase'[s] # "completed"
    BY <1>0, <1>13, <2>2 DEF Close, LeakInv, Active, TypeOK
  <2>4. \A s \in Runs : Streams(s)' => Streams(s) /\ ~IsCurrent(s)
    BY <1>0, <1>13, <2>2 DEF Close, Streams, Active, TypeOK
  <2> QED
    BY <1>0, <1>13, <2>3, <2>4, LeakQuiet DEF Close
<1>14. ASSUME NEW r \in Runs, Fail(r) PROVE LeakInv'
  BY <1>6, <1>14 DEF Fail, Idle
<1>15. ASSUME NEW r \in Runs, Fire(r) PROVE LeakInv'
  <2>0. \A s \in Runs : phase[s] # "completed"
    BY <1>15 DEF Fire, Idle
  <2>1. CASE IsCurrent(r)
    <3>1. PICK s \in Runs :
              /\ phase[s] = "unborn"
              /\ phase' = [phase EXCEPT ![r] = "finished", ![s] = "opening"]
              /\ token' = [token EXCEPT ![s] = token[r]]
              /\ controller' = s /\ current' = "streaming"
      BY <1>15, <2>1 DEF Fire, Consume, SetState
    <3>2. /\ Active(r) /\ phase[r] = "waiting" /\ r # s
          /\ runToken' = runToken /\ aborted' = aborted
      BY <1>15, <3>1 DEF Fire, Active
    <3>3. \A q \in Runs : q # s => token'[q] = token[q] /\ (Streams(q)' => Streams(q))
      BY <1>0, <3>1 DEF TypeOK, Streams
    <3>4. \A q \in Runs : Streams(q) => ~IsCurrent(q)
      BY <2>1, <3>2 DEF LeakInv, TokenInv, OneRunPerToken, IsCurrent, Streams, Active
    <3>5. token'[s] = runToken
      BY <1>0, <2>1, <3>1 DEF TypeOK, IsCurrent
    <3>6. \A q \in Runs : phase'[q] # "completed"
      BY <1>0, <2>0, <3>1 DEF TypeOK
    <3> QED
      BY <1>0, <3>1, <3>2, <3>3, <3>4, <3>5, <3>6
      DEF LeakInv, NoLeakedStream, IsCurrent, Streams
  <2>2. CASE ~IsCurrent(r)
    BY <1>0, <1>15, <2>0, <2>2, LeakQuiet DEF Fire, Streams, TypeOK
  <2> QED
    BY <2>1, <2>2
<1>16. CASE UNCHANGED vars
  BY <1>0, <1>16 DEF vars, LeakInv, NoLeakedStream, IsCurrent, Streams
<1> QED
  BY <1>3, <1>4, <1>5, <1>7, <1>8, <1>9, <1>10, <1>11, <1>12, <1>13, <1>14, <1>15, <1>16
  DEF Next, Resume

(* A stream nobody reads any more has been told to cancel, whichever         *)
(* callbacks stopped and restarted the machine.                              *)
THEOREM NoLeakedStreamCorrect ==
    ASSUME ~MicrotaskCalls
    PROVE  Spec => []NoLeakedStream
<1>1. Init => LeakInv
  BY InitTokenInv DEF Init, LeakInv, NoLeakedStream, Streams
<1>2. LeakInv /\ [Next]_vars => LeakInv'
  BY NextLeakInv
<1>3. LeakInv => NoLeakedStream
  BY DEF LeakInv
<1> QED
  BY <1>1, <1>2, <1>3, PTL DEF Spec
==============================================================================
