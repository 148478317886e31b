-------------------------- MODULE Behaviours_proofs --------------------------
(***************************************************************************)
(* Proofs about Behaviours, for every set of threads and of callers: calls *)
(* may overlap here, where the runs make them one at a time, but for the   *)
(* two theorems that assume OneAtATime.                                    *)
(***************************************************************************)
EXTENDS Behaviours, TLAPS, WellFoundedInduction

(* The slot of an ended thread carries no kind: without this a new thread  *)
(* could inherit the setpoint of the one that had the slot before.         *)
EndedIsBlank == \A t \in Threads : pc[t] = "done" => kind[t] = "none"

(* Past its check a turn still has a setpoint to issue. *)
Budget == \A t \in Threads : pc[t] = "twist" => twists[t] < MaxTwists

Rest == Budget /\ EndedIsBlank /\ HolderIsMoving
IInv == TypeOK /\ Rest

-----------------------------------------------------------------------------
LEMMA InitTypeOK == Init => TypeOK
  BY ConstantsAssumption
  DEF Init, TypeOK, MaxTurns, PCs, Ops, StartOps, StopOps, MotionOps,
      Behaviour, Foreground

(* The end of a thread keeps the types of the fields it writes. *)
LEMMA EndType ==
  ASSUME TypeOK, NEW t \in Threads, NEW held \in Threads \cup {Still, Adrift},
         End(t, held)
  PROVE  /\ kind' \in [Threads -> Behaviour \cup Foreground \cup {"none"}]
         /\ pc' \in [Threads -> PCs]
         /\ turns' \in [Threads -> 0..MaxTurns]
         /\ twists' \in [Threads -> 0..MaxTwists]
         /\ seen' \in [Threads -> BOOLEAN]
         /\ ref' \in [Behaviour -> Threads \cup {NoThread}]
         /\ setpoint' \in Threads \cup {Still, Adrift}
<1>1. 0 \in 0..MaxTurns /\ 0 \in 0..MaxTwists
  BY ConstantsAssumption DEF MaxTurns
<1>2. ref' \in [Behaviour -> Threads \cup {NoThread}]
  BY DEF TypeOK, End
<1>3. kind' \in [Threads -> Behaviour \cup Foreground \cup {"none"}]
  BY DEF TypeOK, End
<1>4. pc' \in [Threads -> PCs]
  BY DEF TypeOK, End, Goto, PCs
<1>5. turns' \in [Threads -> 0..MaxTurns] /\ twists' \in [Threads -> 0..MaxTwists]
  BY <1>1 DEF TypeOK, End
<1>6. seen' \in [Threads -> BOOLEAN]
  BY DEF TypeOK, End
<1>7. setpoint' \in Threads \cup {Still, Adrift}
  BY DEF TypeOK, End
<1>8. QED
  BY <1>2, <1>3, <1>4, <1>5, <1>6, <1>7

(* A tool call's step keeps the types. *)
LEMMA CallerType ==
  ASSUME TypeOK, NEW c \in Callers, CallerStep(c)
  PROVE  TypeOK'
<1> USE ConstantsAssumption
    DEF TypeOK, MaxTurns, PCs, Ops, StartOps, StopOps, MotionOps,
        Behaviour, Foreground, Stopped, threadVars, flagVars, callVars
<1> up' = up
  BY DEF CallerStep
<1>1. CASE Skip(c)
  BY <1>1 DEF Skip
<1>2. CASE Signal(c)
  <2>1. ref[Yielding(c)] \in Threads \cup {NoThread}
    BY <1>2 DEF Signal, Pending, Yielding, Yields
  <2>2. QED
    BY <1>2, <2>1 DEF Signal
<1>3. CASE Join(c)
  <2>1. ref' \in [Behaviour -> Threads \cup {NoThread}]
    BY <1>3 DEF Join
  <2>2. setpoint' \in Threads \cup {Still, Adrift}
    BY <1>3 DEF Join
  <2>3. findState' \in {"idle", "searching", "found", "not_found", "stopped", "error"}
    BY <1>3 DEF Join
  <2>4. /\ at' \in [Callers -> Nat \ {0}]
        /\ phase' \in [Callers -> {"next", "join", "run"}]
        /\ awaited' \in [Callers -> Threads \cup {NoThread}]
    BY <1>3 DEF Join
  <2>5. QED
    BY <1>3, <2>1, <2>2, <2>3, <2>4 DEF Join
<1>4. CASE Return(c)
  BY <1>4 DEF Return, Returned
<1>5. ASSUME NEW t \in Threads, Spawn(c, t)
      PROVE  TypeOK'
  <2>1. KindOf[op[c]] \in Behaviour
    BY <1>5 DEF Spawn, KindOf
  <2>2. QED
    BY <1>5, <2>1 DEF Spawn, Returned, Goto
<1>6. ASSUME NEW t \in Threads, RunMotion(c, t)
      PROVE  TypeOK'
  <2>1. KindOf[op[c]] \in Foreground
    BY <1>6 DEF RunMotion, KindOf
  <2>2. QED
    BY <1>6, <2>1 DEF RunMotion, Goto
<1>7. CASE MotionReturns(c)
  BY <1>7 DEF MotionReturns, Returned
<1>8. CASE StopMoving(c)
  BY <1>8 DEF StopMoving, Returned
<1>9. QED
  BY <1>1, <1>2, <1>3, <1>4, <1>5, <1>6, <1>7, <1>8 DEF CallerStep

(* A thread's step keeps the types. *)
LEMMA ThreadType ==
  ASSUME TypeOK, Budget, NEW t \in Threads, ThreadStep(t)
  PROVE  TypeOK'
<1> USE ConstantsAssumption
    DEF TypeOK, PCs, Behaviour, Foreground,
        threadVars, flagVars, callVars, Goto, Continue
<1> /\ setpoint \in Threads \cup {Still, Adrift}
    /\ Stopped \in Threads \cup {Still, Adrift}
    /\ Driven(t) \subseteq Threads \cup {Still, Adrift}
  BY DEF Stopped, Driven
<1> up' = up
  BY DEF ThreadStep
<1>1. CASE TrackTop(t)
  <2>1. CASE End(t, setpoint)
    BY <1>1, <2>1, EndType DEF TrackTop
  <2>2. CASE ~End(t, setpoint)
    BY <1>1, <2>2 DEF TrackTop
  <2>3. QED
    BY <2>1, <2>2
<1>2. CASE TrackDrive(t)
  BY <1>2 DEF TrackDrive
<1>3. CASE Walk(t)
  <2>1. CASE End(t, setpoint)
    BY <1>3, <2>1, EndType DEF Walk
  <2>2. CASE ~End(t, setpoint)
    BY <1>3, <2>2 DEF Walk
  <2>3. QED
    BY <2>1, <2>2
<1>4. CASE TurnCheck(t)
  BY <1>4 DEF TurnCheck
<1>5. CASE Twist(t)
  BY <1>5 DEF Twist, Budget
<1>6. CASE TurnEnds(t)
  BY <1>6 DEF TurnEnds
<1>7. CASE Settle(t)
  <2>1. CASE End(t, Stopped)
    BY <1>7, <2>1, EndType DEF Settle
  <2>2. CASE ~End(t, Stopped)
    BY <1>7, <2>2 DEF Settle
  <2>3. QED
    BY <2>1, <2>2
<1>8. CASE FaceTurn(t)
  BY <1>8 DEF FaceTurn, MaxTurns
<1>9. CASE FaceEnds(t)
  BY <1>9 DEF FaceEnds, MaxTurns
<1>10. CASE GreetTop(t)
  BY <1>10 DEF GreetTop
<1>11. CASE AwaitPerson(t)
  <2>1. CASE End(t, setpoint)
    BY <1>11, <2>1, EndType DEF AwaitPerson
  <2>2. CASE ~End(t, setpoint)
    BY <1>11, <2>2 DEF AwaitPerson
  <2>3. QED
    BY <2>1, <2>2
<1>12. CASE Wave(t)
  <2>1. CASE End(t, setpoint)
    BY <1>12, <2>1, EndType DEF Wave
  <2>2. CASE ~End(t, setpoint)
    BY <1>12, <2>2 DEF Wave
  <2>3. QED
    BY <2>1, <2>2
<1>13. CASE Halt(t)
  BY <1>13, EndType DEF Halt
<1>14. CASE Confirm(t)
  <2>1. PICK found \in BOOLEAN : seen' = [seen EXCEPT ![t] = found]
    BY <1>14 DEF Confirm
  <2>2. seen' \in [Threads -> BOOLEAN]
    BY <2>1
  <2>3. QED
    BY <1>14, <2>2 DEF Confirm
<1>15. CASE FindStopped(t)
  BY <1>15 DEF FindStopped
<1>16. CASE FindSeen(t)
  BY <1>16 DEF FindSeen, MaxTurns
<1>17. CASE FindNotFound(t)
  BY <1>17 DEF FindNotFound
<1>18. CASE SweepTurn(t)
  BY <1>18 DEF SweepTurn
<1>19. CASE SweepStalled(t)
  BY <1>19 DEF SweepStalled
<1>20. CASE SweepAdvanced(t)
  BY <1>20 DEF SweepAdvanced, MaxTurns
<1>21. CASE Approach(t)
  BY <1>21 DEF Approach
<1>22. CASE Approached(t)
  BY <1>22 DEF Approached
<1>23. CASE Report(t)
  BY <1>23 DEF Report
<1>24. QED
  BY <1>1, <1>2, <1>3, <1>4, <1>5, <1>6, <1>7, <1>8, <1>9, <1>10, <1>11, <1>12,
     <1>13, <1>14, <1>15, <1>16, <1>17, <1>18, <1>19, <1>20, <1>21, <1>22, <1>23
  DEF ThreadStep

-----------------------------------------------------------------------------
(* Whatever the robot does when a thread ends, no thread holds it that is  *)
(* not moving it.                                                          *)
LEMMA EndRest ==
  ASSUME IInv, NEW t \in Threads, End(t, setpoint) \/ End(t, Stopped), up' = up
  PROVE  Rest'
<1> USE DEF IInv, Rest, TypeOK, End, Goto, Stopped
<1>1. Budget' /\ EndedIsBlank'
  BY DEF Budget, EndedIsBlank
<1>2. setpoint' # t
  BY ConstantsAssumption
<1>3. HolderIsMoving'
  BY <1>2, ConstantsAssumption DEF HolderIsMoving
<1>4. QED
  BY <1>1, <1>3

LEMMA ThreadRest ==
  ASSUME IInv, NEW t \in Threads, ThreadStep(t)
  PROVE  Rest'
<1> USE ConstantsAssumption
    DEF IInv, Rest, TypeOK, Budget, EndedIsBlank, HolderIsMoving,
        Stopped, Driven, threadVars, flagVars, callVars, Goto, Continue
<1> up' = up
  BY DEF ThreadStep
<1>1. CASE TrackTop(t)
  <2>1. CASE End(t, setpoint)
    BY <2>1, EndRest
  <2>2. CASE ~End(t, setpoint)
    BY <1>1, <2>2 DEF TrackTop
  <2>3. QED
    BY <2>1, <2>2
<1>2. CASE TrackDrive(t)
  BY <1>2 DEF TrackDrive
<1>3. CASE Walk(t)
  <2>1. CASE End(t, setpoint)
    BY <2>1, EndRest
  <2>2. CASE ~End(t, setpoint)
    BY <1>3, <2>2 DEF Walk
  <2>3. QED
    BY <2>1, <2>2
<1>4. CASE TurnCheck(t)
  BY <1>4 DEF TurnCheck
<1>5. CASE Twist(t)
  BY <1>5 DEF Twist
<1>6. CASE TurnEnds(t)
  BY <1>6 DEF TurnEnds
<1>7. CASE Settle(t)
  <2>1. CASE End(t, Stopped)
    BY <2>1, EndRest
  <2>2. CASE ~End(t, Stopped)
    BY <1>7, <2>2 DEF Settle
  <2>3. QED
    BY <2>1, <2>2
<1>8. CASE FaceTurn(t)
  BY <1>8 DEF FaceTurn
<1>9. CASE FaceEnds(t)
  BY <1>9 DEF FaceEnds
<1>10. CASE GreetTop(t)
  BY <1>10 DEF GreetTop
<1>11. CASE AwaitPerson(t)
  <2>1. CASE End(t, setpoint)
    BY <2>1, EndRest
  <2>2. CASE ~End(t, setpoint)
    BY <1>11, <2>2 DEF AwaitPerson
  <2>3. QED
    BY <2>1, <2>2
<1>12. CASE Wave(t)
  <2>1. CASE End(t, setpoint)
    BY <2>1, EndRest
  <2>2. CASE ~End(t, setpoint)
    BY <1>12, <2>2 DEF Wave
  <2>3. QED
    BY <2>1, <2>2
<1>13. CASE Halt(t)
  BY <1>13, EndRest DEF Halt
<1>14. CASE Confirm(t)
  BY <1>14 DEF Confirm
<1>15. CASE FindStopped(t)
  BY <1>15 DEF FindStopped
<1>16. CASE FindSeen(t)
  BY <1>16 DEF FindSeen
<1>17. CASE FindNotFound(t)
  BY <1>17 DEF FindNotFound
<1>18. CASE SweepTurn(t)
  BY <1>18 DEF SweepTurn
<1>19. CASE SweepStalled(t)
  BY <1>19 DEF SweepStalled
<1>20. CASE SweepAdvanced(t)
  BY <1>20 DEF SweepAdvanced
<1>21. CASE Approach(t)
  BY <1>21 DEF Approach
<1>22. CASE Approached(t)
  BY <1>22 DEF Approached
<1>23. CASE Report(t)
  BY <1>23 DEF Report
<1>24. QED
  BY <1>1, <1>2, <1>3, <1>4, <1>5, <1>6, <1>7, <1>8, <1>9, <1>10, <1>11, <1>12,
     <1>13, <1>14, <1>15, <1>16, <1>17, <1>18, <1>19, <1>20, <1>21, <1>22, <1>23
  DEF ThreadStep

LEMMA CallerRest ==
  ASSUME IInv, NEW c \in Callers, CallerStep(c)
  PROVE  Rest'
<1> USE ConstantsAssumption
    DEF IInv, Rest, TypeOK, Budget, EndedIsBlank, HolderIsMoving,
        Stopped, threadVars, flagVars, callVars
<1> up' = up
  BY DEF CallerStep
<1>1. CASE Skip(c) \/ Signal(c) \/ Return(c) \/ MotionReturns(c)
  BY <1>1 DEF Skip, Signal, Return, MotionReturns
<1>2. CASE Join(c)
  BY <1>2 DEF Join
<1>3. CASE StopMoving(c)
  BY <1>3 DEF StopMoving
<1>4. ASSUME NEW t \in Threads, Spawn(c, t)
      PROVE  Rest'
  <2>1. KindOf[op[c]] \in Behaviour
    BY <1>4 DEF Spawn, KindOf, StartOps, Behaviour
  <2>2. up => setpoint # t
    BY <1>4 DEF Spawn, Free, Live
  <2>3. QED
    BY <1>4, <2>1, <2>2 DEF Spawn, Goto, Behaviour
<1>5. ASSUME NEW t \in Threads, RunMotion(c, t)
      PROVE  Rest'
  <2>1. KindOf[op[c]] \in Foreground
    BY <1>5 DEF RunMotion, KindOf, MotionOps, Foreground
  <2>2. up => setpoint # t
    BY <1>5 DEF RunMotion, Free, Live
  <2>3. QED
    BY <1>5, <2>1, <2>2 DEF RunMotion, Goto, Foreground
<1>6. QED
  BY <1>1, <1>2, <1>3, <1>4, <1>5 DEF CallerStep

(* IInv is inductive. *)
LEMMA Inductive == IInv /\ [Next]_vars => IInv'
<1> SUFFICES ASSUME IInv, [Next]_vars
             PROVE  IInv'
  OBVIOUS
<1>1. ASSUME NEW c \in Callers, NEW o \in Calls, Call(c, o)
      PROVE  IInv'
  <2>1. o \in Ops
    BY ConstantsAssumption
  <2>2. QED
    BY <1>1, <2>1
    DEF Call, IInv, Rest, TypeOK, Budget, EndedIsBlank, HolderIsMoving,
        threadVars, flagVars
<1>2. ASSUME NEW c \in Callers, CallerStep(c)
      PROVE  IInv'
  BY <1>2, CallerType, CallerRest DEF IInv
<1>3. ASSUME NEW t \in Threads, ThreadStep(t)
      PROVE  IInv'
  BY <1>3, ThreadType, ThreadRest DEF IInv, Rest
<1>4. CASE Watchdog \/ SocketCloses
  BY <1>4, ConstantsAssumption
  DEF Watchdog, SocketCloses, IInv, Rest, TypeOK, Budget, EndedIsBlank, HolderIsMoving,
      threadVars, flagVars, callVars
<1>5. CASE UNCHANGED vars
  BY <1>5
  DEF vars, IInv, Rest, TypeOK, Budget, EndedIsBlank, HolderIsMoving,
      threadVars, flagVars, callVars
<1>6. QED
  BY <1>1, <1>2, <1>3, <1>4, <1>5 DEF Next

LEMMA Initial == Init => IInv
  BY InitTypeOK, ConstantsAssumption
  DEF Init, IInv, Rest, Budget, EndedIsBlank, HolderIsMoving

LEMMA Invariant == Spec => []IInv
  BY Initial, Inductive, PTL DEF Spec

(* Fields hold what their writers put there, and no budget is overrun. *)
THEOREM TypeCorrect == Spec => []TypeOK
<1>1. IInv => TypeOK
  BY DEF IInv
<1>2. QED
  BY <1>1, Invariant, PTL

(* A greeting, a search or a measured turn holds the robot only while it   *)
(* is turning or approaching, whatever runs beside it and however many     *)
(* calls overlap, as long as the websocket is up.                          *)
THEOREM HolderMoves == Spec => []HolderIsMoving
<1>1. IInv => HolderIsMoving
  BY DEF IInv, Rest
<1>2. QED
  BY <1>1, Invariant, PTL

(* Only the tracker and move() leave the robot executing a setpoint nobody *)
(* is behind any more, as long as the websocket is up.                     *)
THEOREM NothingLeft == Spec => NothingLeftMoving
<1> DEFINE LeftByTwist ==
        up /\ setpoint' = Adrift /\ setpoint # Adrift =>
            setpoint \in Threads /\ kind[setpoint] \in {"track", "walk"}
<1>1. IInv /\ [Next]_vars => [LeftByTwist]_vars
  <2> SUFFICES ASSUME IInv, Next, up, setpoint' = Adrift, setpoint # Adrift
               PROVE  LeftByTwist
    OBVIOUS
  <2> USE ConstantsAssumption DEF Stopped, Driven, threadVars, flagVars, callVars
  <2>1. ASSUME NEW c \in Callers, NEW o \in Calls, Call(c, o)
        PROVE  LeftByTwist
    BY <2>1 DEF Call
  <2>2. ASSUME NEW c \in Callers, CallerStep(c)
        PROVE  LeftByTwist
    BY <2>2 DEF CallerStep, Skip, Signal, Join, Return, Spawn, RunMotion,
                MotionReturns, StopMoving
  <2>3. ASSUME NEW t \in Threads, ThreadStep(t)
        PROVE  LeftByTwist
    <3>1. CASE TrackTop(t)
      BY <2>3, <3>1 DEF TrackTop, End, Continue, Goto, IInv, Rest, HolderIsMoving
    <3>2. CASE TrackDrive(t)
      BY <2>3, <3>2 DEF TrackDrive, End, Continue, Goto, IInv, Rest, HolderIsMoving
    <3>3. CASE Walk(t)
      BY <2>3, <3>3 DEF Walk, End, Continue, Goto, IInv, Rest, HolderIsMoving
    <3>4. CASE TurnCheck(t)
      BY <2>3, <3>4 DEF TurnCheck, End, Continue, Goto, IInv, Rest, HolderIsMoving
    <3>5. CASE Twist(t)
      BY <2>3, <3>5 DEF Twist, End, Continue, Goto, IInv, Rest, HolderIsMoving
    <3>6. CASE TurnEnds(t)
      BY <2>3, <3>6 DEF TurnEnds, End, Continue, Goto, IInv, Rest, HolderIsMoving
    <3>7. CASE Settle(t)
      BY <2>3, <3>7 DEF Settle, End, Continue, Goto, IInv, Rest, HolderIsMoving
    <3>8. CASE FaceTurn(t)
      BY <2>3, <3>8 DEF FaceTurn, End, Continue, Goto, IInv, Rest, HolderIsMoving
    <3>9. CASE FaceEnds(t)
      BY <2>3, <3>9 DEF FaceEnds, End, Continue, Goto, IInv, Rest, HolderIsMoving
    <3>10. CASE GreetTop(t)
      BY <2>3, <3>10 DEF GreetTop, End, Continue, Goto, IInv, Rest, HolderIsMoving
    <3>11. CASE AwaitPerson(t)
      BY <2>3, <3>11 DEF AwaitPerson, End, Continue, Goto, IInv, Rest, HolderIsMoving
    <3>12. CASE Wave(t)
      BY <2>3, <3>12 DEF Wave, End, Continue, Goto, IInv, Rest, HolderIsMoving
    <3>13. CASE Halt(t)
      BY <2>3, <3>13 DEF Halt, End, Continue, Goto, IInv, Rest, HolderIsMoving
    <3>14. CASE Confirm(t)
      BY <2>3, <3>14 DEF Confirm, End, Continue, Goto, IInv, Rest, HolderIsMoving
    <3>15. CASE FindStopped(t)
      BY <2>3, <3>15 DEF FindStopped, End, Continue, Goto, IInv, Rest, HolderIsMoving
    <3>16. CASE FindSeen(t)
      BY <2>3, <3>16 DEF FindSeen, End, Continue, Goto, IInv, Rest, HolderIsMoving
    <3>17. CASE FindNotFound(t)
      BY <2>3, <3>17 DEF FindNotFound, End, Continue, Goto, IInv, Rest, HolderIsMoving
    <3>18. CASE SweepTurn(t)
      BY <2>3, <3>18 DEF SweepTurn, End, Continue, Goto, IInv, Rest, HolderIsMoving
    <3>19. CASE SweepStalled(t)
      BY <2>3, <3>19 DEF SweepStalled, End, Continue, Goto, IInv, Rest, HolderIsMoving
    <3>20. CASE SweepAdvanced(t)
      BY <2>3, <3>20 DEF SweepAdvanced, End, Continue, Goto, IInv, Rest, HolderIsMoving
    <3>21. CASE Approach(t)
      BY <2>3, <3>21 DEF Approach, End, Continue, Goto, IInv, Rest, HolderIsMoving
    <3>22. CASE Approached(t)
      BY <2>3, <3>22 DEF Approached, End, Continue, Goto, IInv, Rest, HolderIsMoving
    <3>23. CASE Report(t)
      BY <2>3, <3>23 DEF Report, End, Continue, Goto, IInv, Rest, HolderIsMoving
    <3>24. QED
      BY <2>3, <3>1, <3>2, <3>3, <3>4, <3>5, <3>6, <3>7, <3>8, <3>9, <3>10, <3>11,
         <3>12, <3>13, <3>14, <3>15, <3>16, <3>17, <3>18, <3>19, <3>20, <3>21, <3>22, <3>23
      DEF ThreadStep
  <2>4. CASE Watchdog \/ SocketCloses
    BY <2>4 DEF Watchdog, SocketCloses
  <2>5. QED
    BY <2>1, <2>2, <2>3, <2>4 DEF Next
<1>2. QED
  BY <1>1, Invariant, PTL DEF Spec, NothingLeftMoving

-----------------------------------------------------------------------------
(* A search that is left without a verdict is still running: a thread's    *)
(* step that ends a search, or sends it to its last halt, writes one.      *)
LEMMA ThreadSearch ==
  ASSUME TypeOK, SearchingHasSearcher, NEW t \in Threads, ThreadStep(t)
  PROVE  SearchingHasSearcher'
<1> SUFFICES ASSUME findState' = "searching"
             PROVE  \E u \in Threads :
                        kind'[u] = "find" /\ pc'[u] \notin {"done", "halt"}
  BY DEF SearchingHasSearcher
<1>1. findState = "searching"
  BY DEF ThreadStep, TrackTop, TrackDrive, Walk, TurnCheck, Twist, TurnEnds,
         Settle, FaceTurn, FaceEnds, GreetTop, AwaitPerson, Wave, Halt,
         Confirm, FindStopped, FindSeen, FindNotFound, SweepTurn,
         SweepStalled, SweepAdvanced, Approach, Approached, Report
<1>2. PICK u \in Threads : kind[u] = "find" /\ pc[u] \notin {"done", "halt"}
  BY <1>1 DEF SearchingHasSearcher
<1> USE <1>1, <1>2 DEF TypeOK, End, Continue, Goto
<1>3. CASE TrackTop(t) \/ TrackDrive(t)
  BY <1>3 DEF TrackTop, TrackDrive
<1>4. CASE Walk(t)
  BY <1>4 DEF Walk
<1>5. CASE TurnCheck(t) \/ Twist(t) \/ TurnEnds(t)
  BY <1>5 DEF TurnCheck, Twist, TurnEnds
<1>6. CASE Settle(t)
  BY <1>6 DEF Settle
<1>7. CASE FaceTurn(t) \/ FaceEnds(t)
  BY <1>7 DEF FaceTurn, FaceEnds
<1>8. CASE GreetTop(t) \/ AwaitPerson(t)
  BY <1>8 DEF GreetTop, AwaitPerson
<1>9. CASE Wave(t)
  BY <1>9 DEF Wave
<1>10. CASE Halt(t)
  BY <1>10 DEF Halt
<1>11. CASE Confirm(t) \/ FindStopped(t) \/ FindSeen(t)
  BY <1>11 DEF Confirm, FindStopped, FindSeen
<1>12. CASE FindNotFound(t) \/ SweepTurn(t) \/ SweepStalled(t)
  BY <1>12 DEF FindNotFound, SweepTurn, SweepStalled
<1>13. CASE SweepAdvanced(t)
  BY <1>13 DEF SweepAdvanced
<1>14. CASE Approach(t)
  BY <1>14 DEF Approach
<1>15. CASE Approached(t) \/ Report(t)
  BY <1>15 DEF Approached, Report
<1>16. QED
  BY <1>3, <1>4, <1>5, <1>6, <1>7, <1>8, <1>9, <1>10, <1>11, <1>12, <1>13,
     <1>14, <1>15
  DEF ThreadStep

LEMMA CallerSearch ==
  ASSUME TypeOK, SearchingHasSearcher, NEW c \in Callers, CallerStep(c)
  PROVE  SearchingHasSearcher'
<1> USE DEF TypeOK, SearchingHasSearcher, threadVars, flagVars, callVars
<1>1. CASE Skip(c) \/ Signal(c) \/ Return(c) \/ MotionReturns(c) \/ StopMoving(c)
  BY <1>1 DEF Skip, Signal, Return, MotionReturns, StopMoving
<1>2. CASE Join(c)
  BY <1>2 DEF Join
<1>3. ASSUME NEW t \in Threads, Spawn(c, t)
      PROVE  SearchingHasSearcher'
  BY <1>3 DEF Spawn, Free, Live, Goto
<1>4. ASSUME NEW t \in Threads, RunMotion(c, t)
      PROVE  SearchingHasSearcher'
  BY <1>4 DEF RunMotion, Free, Live, Goto
<1>5. QED
  BY <1>1, <1>2, <1>3, <1>4 DEF CallerStep

(* get_find_status says "searching" only while a search is running that    *)
(* has yet to reach its verdict.                                           *)
THEOREM SearchIsReal == Spec => []SearchingHasSearcher
<1>1. Init => SearchingHasSearcher
  BY DEF Init, SearchingHasSearcher
<1>2. TypeOK /\ SearchingHasSearcher /\ [Next]_vars => SearchingHasSearcher'
  <2> SUFFICES ASSUME TypeOK, SearchingHasSearcher, [Next]_vars
               PROVE  SearchingHasSearcher'
    OBVIOUS
  <2>1. ASSUME NEW c \in Callers, CallerStep(c)
        PROVE  SearchingHasSearcher'
    BY <2>1, CallerSearch
  <2>2. ASSUME NEW t \in Threads, ThreadStep(t)
        PROVE  SearchingHasSearcher'
    BY <2>2, ThreadSearch
  <2>3. CASE \/ \E c \in Callers, o \in Calls : Call(c, o)
             \/ Watchdog \/ SocketCloses
             \/ UNCHANGED vars
    BY <2>3 DEF Call, Watchdog, SocketCloses, vars, SearchingHasSearcher,
                threadVars, flagVars, callVars
  <2>4. QED
    BY <2>1, <2>2, <2>3 DEF Next
<1>3. QED
  BY <1>1, <1>2, TypeCorrect, PTL DEF Spec

-----------------------------------------------------------------------------
(* The tracker yields, when calls do not overlap.                          *)

Joining(c) == phase[c] = "join" /\ Yielding(c) = "track"

(* The call has been through stop_tracking, or saw no need of it. *)
PastTracker(c) ==
    \/ op[c] \in {"start_tracking", "start_greeter", "stop_tracking"} /\ at[c] > 1
    \/ op[c] = "find_object" /\ at[c] > 2

Progress ==
    \A c \in Callers :
        /\ op[c] = "none" => at[c] = 1 /\ phase[c] = "next"
        /\ phase[c] = "join" => op[c] # "none" /\ at[c] <= Len(Yields[op[c]])
        /\ phase[c] = "run" => op[c] \in MotionOps

(* From the signal of stop_tracking to the end of the call that made it,   *)
(* nothing is to be tracked: whatever loop is left sees that at its top.   *)
Told ==
    \A c \in Callers : Joining(c) \/ PastTracker(c) => ~wanted["track"]

Yielded == Progress /\ Told

OneAtATime == \A c, d \in Callers : c = d

(* Where in a call the tracker is what is being stopped. *)
LEMMA TracksTurn ==
  ASSUME TypeOK, NEW c \in Callers, op[c] # "none", at[c] <= Len(Yields[op[c]])
  PROVE  Yielding(c) = "track" <=>
             \/ op[c] \in {"start_tracking", "start_greeter", "stop_tracking"}
             \/ op[c] = "find_object" /\ at[c] = 2
<1>1. op[c] \in Ops /\ at[c] \in Nat \ {0}
  BY DEF TypeOK
<1>2. CASE op[c] \in {"start_tracking", "start_greeter", "stop_tracking"}
  <2>1. Yields[op[c]] = <<"track">>
    BY <1>2 DEF Yields
  <2>2. at[c] = 1
    BY <1>1, <2>1
  <2>3. QED
    BY <1>2, <2>1, <2>2 DEF Yielding
<1>3. CASE op[c] = "find_object"
  <2>1. Yields[op[c]] = <<"greet", "track", "find">>
    BY <1>3 DEF Yields
  <2>2. at[c] \in 1..3
    BY <1>1, <2>1
  <2>3. QED
    BY <1>3, <2>1, <2>2 DEF Yielding
<1>4. CASE op[c] = "stop_greeter"
  <2>1. Yields[op[c]] = <<"greet">>
    BY <1>4 DEF Yields
  <2>2. at[c] = 1
    BY <1>1, <2>1
  <2>3. QED
    BY <1>4, <2>1, <2>2 DEF Yielding
<1>5. CASE op[c] = "stop_find"
  <2>1. Yields[op[c]] = <<"find">>
    BY <1>5 DEF Yields
  <2>2. at[c] = 1
    BY <1>1, <2>1
  <2>3. QED
    BY <1>5, <2>1, <2>2 DEF Yielding
<1>6. CASE op[c] \in MotionOps \cup {"stop_moving"}
  <2>1. Yields[op[c]] = << >>
    BY <1>6 DEF Yields, MotionOps
  <2>2. QED
    BY <1>1, <2>1
<1>7. QED
  BY <1>1, <1>2, <1>3, <1>4, <1>5, <1>6 DEF Ops, StartOps, StopOps

(* No step of a thread changes what is wanted, or moves a call. *)
LEMMA ThreadWants ==
  ASSUME NEW t \in Threads, ThreadStep(t)
  PROVE  UNCHANGED <<wanted, callVars>>
  BY DEF ThreadStep, TrackTop, TrackDrive, Walk, TurnCheck, Twist, TurnEnds,
         Settle, FaceTurn, FaceEnds, GreetTop, AwaitPerson, Wave, Halt, Confirm,
         FindStopped, FindSeen, FindNotFound, SweepTurn, SweepStalled,
         SweepAdvanced, Approach, Approached, Report, flagVars

(* A call that goes past what it is at either was at the tracker, or stays *)
(* on the same side of it.                                                 *)
LEMMA PastOrNot ==
  ASSUME TypeOK, NEW c \in Callers, op[c] # "none", at[c] <= Len(Yields[op[c]]),
         op'[c] = op[c], at'[c] = at[c] + 1, Yielding(c) # "track"
  PROVE  PastTracker(c)' => PastTracker(c)
<1>1. /\ op[c] \notin {"start_tracking", "start_greeter", "stop_tracking"}
      /\ op[c] = "find_object" => at[c] # 2
  BY TracksTurn
<1>2. at[c] \in Nat \ {0}
  BY DEF TypeOK
<1>3. QED
  BY <1>1, <1>2 DEF PastTracker

(* A call in progress keeps it, the only one there is. *)
LEMMA CallYields ==
  ASSUME TypeOK, Yielded, OneAtATime, NEW c \in Callers, CallerStep(c)
  PROVE  Yielded'
<1> USE DEF Yielded
<1>a. \A d \in Callers : d = c
  BY DEF OneAtATime
<1>b. /\ op[c] \in Ops \cup {"none"} /\ at[c] \in Nat \ {0}
      /\ phase[c] \in {"next", "join", "run"}
  BY DEF TypeOK
<1>1. CASE Skip(c)
  <2>1. /\ op[c] # "none" /\ phase[c] = "next" /\ at[c] <= Len(Yields[op[c]])
        /\ at'[c] = at[c] + 1 /\ op'[c] = op[c] /\ ~Engaged(Yielding(c))
        /\ UNCHANGED <<wanted, op, phase>>
    BY <1>1 DEF Skip, Pending, TypeOK, flagVars
  <2>2. ~Joining(c)'
    BY <2>1 DEF Joining
  <2>3. PastTracker(c)' => ~wanted["track"]
    <3>1. CASE Yielding(c) = "track"
      BY <2>1, <3>1 DEF Engaged
    <3>2. CASE Yielding(c) # "track"
      BY <2>1, <3>2, PastOrNot DEF Told
    <3>3. QED
      BY <3>1, <3>2
  <2>4. Progress' /\ Told'
    BY <1>a, <2>1, <2>2, <2>3 DEF Progress, Told
  <2>5. QED
    BY <2>4
<1>2. CASE Signal(c)
  <2>1. /\ op[c] # "none" /\ phase[c] = "next" /\ at[c] <= Len(Yields[op[c]])
        /\ phase'[c] = "join"
        /\ wanted' = [wanted EXCEPT ![Yielding(c)] = FALSE]
        /\ UNCHANGED <<op, at>>
    BY <1>2 DEF Signal, Pending, TypeOK
  <2>2. Joining(c)' <=> Yielding(c) = "track"
    BY <2>1 DEF Joining, Yielding
  <2>3. PastTracker(c)' <=> PastTracker(c)
    BY <2>1 DEF PastTracker
  <2>4. wanted["track"] = FALSE => wanted'["track"] = FALSE
    BY <2>1 DEF TypeOK, Behaviour
  <2>5. Yielding(c) = "track" => ~wanted'["track"]
    BY <2>1 DEF TypeOK, Behaviour
  <2>6. Told'
    BY <1>a, <2>2, <2>3, <2>4, <2>5 DEF Told, TypeOK, Behaviour
  <2>7. Progress'
    BY <1>a, <2>1 DEF Progress
  <2>8. QED
    BY <2>6, <2>7
<1>3. CASE Join(c)
  <2>1. /\ phase[c] = "join" /\ phase'[c] = "next" /\ at'[c] = at[c] + 1
        /\ op'[c] = op[c]
        /\ UNCHANGED <<wanted, op>>
    BY <1>3 DEF Join, TypeOK
  <2>2. op[c] # "none" /\ at[c] <= Len(Yields[op[c]])
    BY <2>1 DEF Progress
  <2>3. ~Joining(c)'
    BY <2>1 DEF Joining
  <2>4. PastTracker(c)' => ~wanted["track"]
    <3>1. CASE Yielding(c) = "track"
      BY <2>1, <3>1 DEF Told, Joining
    <3>2. CASE Yielding(c) # "track"
      BY <2>1, <2>2, <3>2, PastOrNot DEF Told
    <3>3. QED
      BY <3>1, <3>2
  <2>5. Progress' /\ Told'
    BY <1>a, <2>1, <2>2, <2>3, <2>4 DEF Progress, Told
  <2>6. QED
    BY <2>5
<1>4. CASE Return(c) \/ MotionReturns(c) \/ StopMoving(c)
                     \/ \E t \in Threads : Spawn(c, t)
  <2>1. /\ op'[c] = "none" /\ at'[c] = 1 /\ phase'[c] = "next"
    BY <1>4 DEF Return, MotionReturns, StopMoving, Spawn, Returned, Ready, TypeOK
  <2>2. ~Joining(c)' /\ ~PastTracker(c)'
    BY <2>1 DEF Joining, PastTracker
  <2>3. QED
    BY <1>a, <2>1, <2>2 DEF Progress, Told
<1>5. ASSUME NEW t \in Threads, RunMotion(c, t)
      PROVE  Yielded'
  <2>1. /\ op[c] \in MotionOps /\ phase'[c] = "run" /\ UNCHANGED <<op, at>>
    BY <1>5 DEF RunMotion, Ready, TypeOK
  <2>2. ~Joining(c)' /\ ~PastTracker(c)'
    BY <2>1 DEF Joining, PastTracker, MotionOps
  <2>3. op[c] # "none"
    BY <2>1 DEF MotionOps
  <2>4. QED
    BY <1>a, <2>1, <2>2, <2>3 DEF Progress, Told
<1>6. QED
  BY <1>1, <1>2, <1>3, <1>4, <1>5 DEF CallerStep

LEMMA YieldedInductive ==
  ASSUME TypeOK, Yielded, OneAtATime, [Next]_vars
  PROVE  Yielded'
<1>1. ASSUME NEW c \in Callers, NEW o \in Calls, Call(c, o)
      PROVE  Yielded'
  <2> USE DEF Yielded
  <2>1. /\ op[c] = "none" /\ op'[c] = o /\ \A d \in Callers : d = c
        /\ UNCHANGED <<wanted, at, phase>>
    BY <1>1 DEF Call, TypeOK, OneAtATime, flagVars
  <2>2. at[c] = 1 /\ phase[c] = "next" /\ o \in Ops /\ o # "none"
    BY <2>1, ConstantsAssumption DEF Progress, Ops, StartOps, StopOps, MotionOps
  <2>3. ~Joining(c)' /\ ~PastTracker(c)'
    BY <2>1, <2>2 DEF Joining, PastTracker
  <2>4. QED
    BY <2>1, <2>2, <2>3 DEF Progress, Told
<1>2. ASSUME NEW c \in Callers, CallerStep(c)
      PROVE  Yielded'
  BY <1>2, CallYields
<1>3. ASSUME NEW t \in Threads, ThreadStep(t)
      PROVE  Yielded'
  BY <1>3, ThreadWants
  DEF Yielded, Progress, Told, Joining, Yielding, PastTracker, callVars
<1>4. CASE Watchdog \/ SocketCloses \/ UNCHANGED vars
  BY <1>4 DEF Watchdog, SocketCloses, vars, flagVars, callVars, Yielded,
              Progress, Told, Joining, Yielding, PastTracker
<1>5. QED
  BY <1>1, <1>2, <1>3, <1>4 DEF Next

(* When a greeter or a search starts, every tracking loop that outlived    *)
(* the join of stop_tracking has been told to stop, however many threads   *)
(* there are and however long their publishes block, when the tool calls   *)
(* come one at a time.  Two that overlap break it: a start_tracking        *)
(* overtakes a find_object that has stopped the tracker.                   *)
THEOREM TrackerHasYielded ==
  ASSUME OneAtATime
  PROVE  Spec => TrackerYields
<1> DEFINE Starting == \A t \in Threads :
        ~Live(t) /\ Live(t)' /\ kind'[t] \in {"greet", "find"} =>
            \A u \in Threads :
                kind[u] = "track" /\ Live(u) => stop["track"] \/ ~wanted["track"]
<1>1. Init => Yielded
  BY ConstantsAssumption
  DEF Init, Yielded, Progress, Told, Joining, PastTracker
<1>2. TypeOK /\ Yielded /\ [Next]_vars => Yielded'
  BY YieldedInductive
<1>3. TypeOK /\ Yielded /\ [Next]_vars => [Starting]_vars
  <2> SUFFICES ASSUME TypeOK, Yielded, Next, NEW t \in Threads,
                      ~Live(t), Live(t)', kind'[t] \in {"greet", "find"}
               PROVE  ~wanted["track"]
    OBVIOUS
  <2>1. ASSUME NEW s \in Threads, ThreadStep(s)
        PROVE  FALSE
    BY <2>1 DEF ThreadStep, TypeOK, Live, TrackTop, TrackDrive, Walk, TurnCheck,
         Twist, TurnEnds, Settle, FaceTurn, FaceEnds, GreetTop, AwaitPerson, Wave,
         Halt, Confirm, FindStopped, FindSeen, FindNotFound, SweepTurn,
         SweepStalled, SweepAdvanced, Approach, Approached, Report, End, Continue,
         Goto
  <2>2. PICK c \in Callers : CallerStep(c) \/ \E o \in Calls : Call(c, o)
    BY <2>1 DEF Next, Watchdog, SocketCloses, Live, threadVars
  <2>3. PICK s \in Threads : Spawn(c, s) \/ RunMotion(c, s)
    BY <2>2 DEF CallerStep, Call, Skip, Signal, Join, Return, MotionReturns,
                StopMoving, Live, threadVars
  <2>4. s = t
    BY <2>3 DEF Spawn, RunMotion, Goto, Live, TypeOK
  <2>5. Spawn(c, t)
    BY <2>3, <2>4 DEF RunMotion, TypeOK, KindOf, MotionOps
  <2>6. op[c] \in StartOps /\ at[c] > Len(Yields[op[c]]) /\ at[c] \in Nat
    BY <2>5 DEF Spawn, Ready, TypeOK
  <2>7. PastTracker(c)
    <3>1. CASE op[c] = "find_object"
      <4>1. Len(Yields[op[c]]) = 3
        BY <3>1 DEF Yields
      <4> QED BY <2>6, <3>1, <4>1 DEF PastTracker
    <3>2. CASE op[c] \in {"start_tracking", "start_greeter"}
      <4>1. Len(Yields[op[c]]) = 1
        BY <3>2 DEF Yields
      <4> QED BY <2>6, <3>2, <4>1 DEF PastTracker
    <3> QED BY <2>6, <3>1, <3>2 DEF StartOps
  <2>8. QED
    BY <2>7 DEF Yielded, Told
<1>4. QED
  BY <1>1, <1>2, <1>3, TypeCorrect, PTL DEF Spec, TrackerYields

-----------------------------------------------------------------------------
(* Whatever a thread does brings it nearer to its end, but for a loop that *)
(* nobody has told to stop.                                                *)

(* Where a thread of each kind can be. *)
Route ==
    [none |-> {"done"}, track |-> {"top", "drive"}, walk |-> {"drive"},
     rotate |-> {"turn", "twist", "settle"},
     greet |-> {"top", "face", "turn", "twist", "settle", "wave", "halt"},
     visit |-> {"confirm", "face", "turn", "twist", "settle", "wave"},
     find |-> PCs \ {"done", "top", "drive", "wave"}]

Turning(t)  == pc[t] \in {"turn", "twist", "settle"}
Sweeping(t) == Turning(t) /\ kind[t] = "find" /\ ~seen[t]

(* A search that turns or has turned for the sweep has some of the circle  *)
(* left, and one that faces its target has seen it.                        *)
Swept(t) ==
    /\ kind[t] = "find" /\ pc[t] \in {"confirm", "decide"} => turns[t] <= MaxSweep
    /\ pc[t] = "turned" \/ Sweeping(t) => turns[t] < MaxSweep
    /\ kind[t] = "find" /\ pc[t] = "face" => seen[t]

OnRoute(t) == (Live(t) => pc[t] \in Route[kind[t]]) /\ Swept(t)
Itinerary == \A t \in Threads : OnRoute(t)

(* How far a thread is from its end: the stage of its program, the turns   *)
(* left, its place in an iteration, the setpoints left in a turn.          *)
StageOf ==
    [confirm |-> 6, decide |-> 6, turned |-> 6, face |-> 5, turn |-> 5, twist |-> 5,
     settle |-> 5, approach |-> 4, approached |-> 3, wave |-> 3, drive |-> 3,
     report |-> 2, top |-> 2, halt |-> 1, done |-> 0]
Stage(t) == IF Sweeping(t) THEN 6 ELSE StageOf[pc[t]]

PlaceOf ==
    [confirm |-> 4, decide |-> 3, turn |-> 2, twist |-> 2, settle |-> 1,
     turned |-> 0, face |-> 0, approach |-> 0, approached |-> 0, wave |-> 0,
     drive |-> 0, report |-> 0, top |-> 0, halt |-> 0, done |-> 0]
Place(t) == PlaceOf[pc[t]]

Rank(t) ==
    << Stage(t), MaxTurns - turns[t], Place(t), MaxTwists - twists[t],
       IF pc[t] = "turn" THEN 1 ELSE 0 >>

Ranks   == [1..5 -> Nat]
Less    == {ss \in Nat \X Nat : ss[1] < ss[2]}
Descent == LexProductOrdering(Less, Nat, 5)

Record(t) == <<kind[t], pc[t], turns[t], twists[t], seen[t]>>

(* The head of a loop that nobody has told to stop. *)
KeptOn(t) ==
    /\ pc[t] = "top"
    /\ IF kind[t] = "track" THEN wanted["track"] /\ ~stop["track"] ELSE ~stop["greet"]

WindsDown(t) ==
    Live(t) => IF ThreadStep(t)
               THEN KeptOn(t) \/ <<Rank(t)', Rank(t)>> \in Descent
               ELSE UNCHANGED Record(t)

(* What a thread's steps ask for. *)
MayStep(t) ==
    \/ pc[t] = "top" /\ kind[t] \in {"track", "greet"}
    \/ pc[t] = "drive" /\ kind[t] \in {"track", "walk"}
    \/ pc[t] = "turn" /\ ~MotionAborted /\ twists[t] < MaxTwists
    \/ pc[t] = "turn" /\ (MotionAborted \/ twists[t] > 0)
    \/ pc[t] \in {"twist", "settle", "face", "halt"}
    \/ pc[t] = "confirm" /\ kind[t] \in {"visit", "find"}
    \/ pc[t] = "wave" /\ kind[t] \in {"greet", "visit"}
    \/ pc[t] = "decide" /\ (stop["find"] \/ seen[t])
    \/ pc[t] = "decide" /\ (turns[t] = MaxSweep \/ turns[t] < MaxSweep)
    \/ pc[t] = "turned" /\ (ClosedLoop \/ (turns[t] + 1)..MaxSweep # {})
    \/ pc[t] \in {"approach", "approached", "report"}

NeverStuck == \A t \in Threads : Live(t) => MayStep(t)

(* The order of the ranks has no infinite descent. *)
THEOREM DescentEnds == IsWellFoundedOn(Descent, Ranks)
<1>1. Less = OpToRel(<, Nat)
  BY DEF Less, OpToRel
<1>2. IsWellFoundedOn(Less, Nat)
  BY <1>1, NatLessThanWellFounded
<1> QED BY <1>2, WFLexProductOrdering DEF Descent, Ranks

LEMMA Descends ==
  ASSUME NEW r \in Ranks, NEW s \in Ranks,
         \/ r[1] < s[1]
         \/ r[1] = s[1] /\ r[2] < s[2]
         \/ r[1] = s[1] /\ r[2] = s[2] /\ r[3] < s[3]
         \/ r[1] = s[1] /\ r[2] = s[2] /\ r[3] = s[3] /\ r[4] < s[4]
         \/ r[1] = s[1] /\ r[2] = s[2] /\ r[3] = s[3] /\ r[4] = s[4] /\ r[5] < s[5]
  PROVE  <<r, s>> \in Descent
<1>1. \A j \in 1..5 : r[j] \in Nat /\ s[j] \in Nat
  BY DEF Ranks
<1>2. PICK j \in 1..5 : r[j] < s[j] /\ \A i \in 1..(j - 1) : r[i] = s[i]
  <2>1. CASE r[1] < s[1]
    <3>1. 1 \in 1..5 /\ \A i \in 1..(1 - 1) : r[i] = s[i]
      OBVIOUS
    <3> QED BY <2>1, <3>1
  <2>2. CASE r[1] = s[1] /\ r[2] < s[2]
    <3>1. 2 \in 1..5 /\ \A i \in 1..(2 - 1) : r[i] = s[i]
      BY <2>2
    <3> QED BY <2>2, <3>1
  <2>3. CASE r[1] = s[1] /\ r[2] = s[2] /\ r[3] < s[3]
    <3>1. 3 \in 1..5 /\ \A i \in 1..(3 - 1) : r[i] = s[i]
      BY <2>3
    <3> QED BY <2>3, <3>1
  <2>4. CASE r[1] = s[1] /\ r[2] = s[2] /\ r[3] = s[3] /\ r[4] < s[4]
    <3>1. 4 \in 1..5 /\ \A i \in 1..(4 - 1) : r[i] = s[i]
      BY <2>4
    <3> QED BY <2>4, <3>1
  <2>5. CASE r[1] = s[1] /\ r[2] = s[2] /\ r[3] = s[3] /\ r[4] = s[4] /\ r[5] < s[5]
    <3>1. 5 \in 1..5 /\ \A i \in 1..(5 - 1) : r[i] = s[i]
      BY <2>5
    <3> QED BY <2>5, <3>1
  <2> QED BY <2>1, <2>2, <2>3, <2>4, <2>5
<1>3. <<r[j], s[j]>> \in Less
  BY <1>1, <1>2 DEF Less
<1> QED BY <1>2, <1>3 DEF Descent, LexProductOrdering, Ranks

(* What is left to a thread are numbers. *)
Numbers ==
    \A t \in Threads :
        /\ Stage(t) \in Nat /\ Place(t) \in Nat /\ Rank(t) \in Ranks
        /\ MaxTurns - turns[t] \in Nat /\ MaxTwists - twists[t] \in Nat

LEMMA RankType == TypeOK => Numbers
<1> SUFFICES ASSUME TypeOK, NEW t \in Threads
             PROVE  /\ Stage(t) \in Nat /\ Place(t) \in Nat /\ Rank(t) \in Ranks
                    /\ MaxTurns - turns[t] \in Nat /\ MaxTwists - twists[t] \in Nat
  BY DEF Numbers
<1>1. Stage(t) \in Nat /\ Place(t) \in Nat
  <2>1. pc[t] \in PCs
    BY DEF TypeOK
  <2> QED BY <2>1 DEF Stage, Place, StageOf, PlaceOf, PCs
<1>2. turns[t] \in 0..MaxTurns /\ MaxTurns \in Nat
  BY ConstantsAssumption DEF TypeOK, MaxTurns
<1>3. twists[t] \in 0..MaxTwists /\ MaxTwists \in Nat
  BY ConstantsAssumption DEF TypeOK
<1>4. (IF pc[t] = "turn" THEN 1 ELSE 0) \in Nat
  OBVIOUS
<1> HIDE DEF MaxTurns
<1>5. MaxTurns - turns[t] \in Nat /\ MaxTwists - twists[t] \in Nat
  BY <1>2, <1>3
<1>6. \A a, b, c, d, e \in Nat : <<a, b, c, d, e>> \in [1..5 -> Nat]
  OBVIOUS
<1> QED BY <1>1, <1>4, <1>5, <1>6 DEF Rank, Ranks

(* A thread's step leaves the records of the others alone. *)
LEMMA OnlyItself ==
  ASSUME TypeOK, NEW t \in Threads, NEW u \in Threads, u # t, ThreadStep(t)
  PROVE  UNCHANGED Record(u)
<1> USE DEF TypeOK, End, Continue, Goto, Record
<1>1. CASE TrackTop(t) \/ TrackDrive(t)
  BY <1>1 DEF TrackTop, TrackDrive
<1>2. CASE Walk(t)
  BY <1>2 DEF Walk
<1>3. CASE TurnCheck(t) \/ Twist(t) \/ TurnEnds(t)
  BY <1>3 DEF TurnCheck, Twist, TurnEnds
<1>4. CASE Settle(t)
  BY <1>4 DEF Settle
<1>5. CASE FaceTurn(t) \/ FaceEnds(t)
  BY <1>5 DEF FaceTurn, FaceEnds
<1>6. CASE GreetTop(t) \/ AwaitPerson(t)
  BY <1>6 DEF GreetTop, AwaitPerson
<1>7. CASE Wave(t) \/ Halt(t)
  BY <1>7 DEF Wave, Halt
<1>8. CASE Confirm(t) \/ FindStopped(t) \/ FindSeen(t)
  BY <1>8 DEF Confirm, FindStopped, FindSeen
<1>9. CASE FindNotFound(t) \/ SweepTurn(t) \/ SweepStalled(t)
  BY <1>9 DEF FindNotFound, SweepTurn, SweepStalled
<1>10. CASE SweepAdvanced(t)
  BY <1>10 DEF SweepAdvanced
<1>11. CASE Approach(t)
  BY <1>11 DEF Approach
<1>12. CASE Approached(t) \/ Report(t)
  BY <1>12 DEF Approached, Report
<1> QED
  BY <1>1, <1>2, <1>3, <1>4, <1>5, <1>6, <1>7, <1>8, <1>9, <1>10, <1>11, <1>12
  DEF ThreadStep

Closer(t) ==
    \/ Stage(t)' < Stage(t)
    \/ /\ Stage(t)' = Stage(t)
       /\ \/ turns[t] < turns'[t]
          \/ turns[t] = turns'[t] /\ Place(t)' < Place(t)
          \/ turns[t] = turns'[t] /\ Place(t)' = Place(t) /\ twists[t] < twists'[t]
          \/ /\ turns[t] = turns'[t] /\ Place(t)' = Place(t) /\ twists[t] = twists'[t]
             /\ pc[t] = "turn" /\ pc'[t] = "twist"

LEMMA CloserDescends ==
  ASSUME TypeOK, TypeOK', NEW t \in Threads, Closer(t)
  PROVE  <<Rank(t)', Rank(t)>> \in Descent
<1>1. /\ Stage(t) \in Nat /\ Place(t) \in Nat /\ Rank(t) \in Ranks
      /\ Stage(t)' \in Nat /\ Place(t)' \in Nat /\ Rank(t)' \in Ranks
  <2>1. Numbers /\ Numbers'
    BY RankType, PTL
  <2> QED BY <2>1 DEF Numbers
<1>2. /\ turns[t] \in Nat /\ turns'[t] \in Nat /\ MaxTurns \in Nat
      /\ twists[t] \in Nat /\ twists'[t] \in Nat /\ MaxTwists \in Nat
  BY ConstantsAssumption DEF TypeOK, MaxTurns
<1> DEFINE r == Rank(t)'
           s == Rank(t)
<1>3. /\ s[1] = Stage(t) /\ s[2] = MaxTurns - turns[t] /\ s[3] = Place(t)
      /\ s[4] = MaxTwists - twists[t] /\ s[5] = IF pc[t] = "turn" THEN 1 ELSE 0
      /\ r[1] = Stage(t)' /\ r[2] = MaxTurns - turns'[t] /\ r[3] = Place(t)'
      /\ r[4] = MaxTwists - twists'[t] /\ r[5] = IF pc'[t] = "turn" THEN 1 ELSE 0
  BY DEF Rank, MaxTurns
<1> HIDE DEF r, s, MaxTurns
<1>4. \/ r[1] < s[1]
      \/ r[1] = s[1] /\ r[2] < s[2]
      \/ r[1] = s[1] /\ r[2] = s[2] /\ r[3] < s[3]
      \/ r[1] = s[1] /\ r[2] = s[2] /\ r[3] = s[3] /\ r[4] < s[4]
      \/ r[1] = s[1] /\ r[2] = s[2] /\ r[3] = s[3] /\ r[4] = s[4] /\ r[5] < s[5]
  BY <1>1, <1>2, <1>3 DEF Closer
<1>5. r \in Ranks /\ s \in Ranks
  BY <1>1 DEF r, s
<1>6. <<r, s>> \in Descent
  BY <1>4, <1>5, Descends
<1> QED BY <1>6 DEF r, s

(* The end of a thread is the end of its way. *)
LEMMA Ended ==
  ASSUME TypeOK, NEW t \in Threads, Live(t), pc'[t] = "done", kind'[t] = "none"
  PROVE  OnRoute(t)' /\ Closer(t)
<1>1. ~Sweeping(t)'
  BY DEF Sweeping, Turning
<1>2. OnRoute(t)'
  BY <1>1 DEF OnRoute, Live, Swept
<1>3. Stage(t)' = 0
  BY <1>1 DEF Stage, StageOf
<1>4. pc[t] \in PCs \ {"done"}
  BY DEF TypeOK, Live
<1>5. Stage(t) > 0
  BY <1>4 DEF Stage, StageOf, PCs
<1> QED BY <1>2, <1>3, <1>5 DEF Closer

(* A thread's step keeps it on its way and brings it nearer to the end. *)
LEMMA Nearer ==
  ASSUME TypeOK, Budget, NEW t \in Threads, OnRoute(t), Live(t), ThreadStep(t)
  PROVE  OnRoute(t)' /\ (KeptOn(t) \/ Closer(t))
<1>1. /\ kind[t] \in {"track", "greet", "find", "visit", "rotate", "walk", "none"}
      /\ pc[t] \in PCs /\ turns[t] \in Nat /\ twists[t] \in Nat /\ seen[t] \in BOOLEAN
      /\ MaxSweep \in Nat \ {0}
  BY ConstantsAssumption DEF TypeOK, Behaviour, Foreground
<1>2. CASE pc'[t] = "done" /\ kind'[t] = "none"
  BY <1>2, Ended
<1>3. CASE ~(pc'[t] = "done" /\ kind'[t] = "none")
  <2> USE <1>1, <1>3 DEF OnRoute, Live, Route, Swept, Sweeping, Turning, Closer, Stage,
          StageOf, Place, PlaceOf, PCs
  <2>1. CASE TrackTop(t)
    <3>1. /\ pc[t] = "top" /\ pc'[t] = "drive" /\ kind'[t] = kind[t]
          /\ turns'[t] = turns[t] /\ twists'[t] = twists[t] /\ seen'[t] = seen[t]
          /\ KeptOn(t) /\ kind[t] = "track"
      BY <2>1 DEF TrackTop, TypeOK, Goto, End, Continue, KeptOn
    <3> QED BY <3>1
  <2>2. CASE TrackDrive(t)
    <3>1. /\ pc[t] = "drive" /\ pc'[t] = "top" /\ kind'[t] = kind[t]
          /\ turns'[t] = turns[t] /\ twists'[t] = twists[t] /\ seen'[t] = seen[t]
          /\ kind[t] = "track"
      BY <2>2 DEF TrackDrive, TypeOK, Goto
    <3> QED BY <3>1
  <2>3. CASE Walk(t)
    <3>1. /\ pc[t] = "drive" /\ pc'[t] = "drive" /\ kind'[t] = kind[t]
          /\ turns'[t] = turns[t] /\ twists[t] < twists'[t] /\ seen'[t] = seen[t]
          /\ kind[t] = "walk"
      BY <2>3 DEF Walk, TypeOK, Goto, End
    <3> QED BY <3>1
  <2>4. CASE TurnCheck(t)
    <3>1. /\ pc[t] = "turn" /\ pc'[t] = "twist" /\ kind'[t] = kind[t]
          /\ turns'[t] = turns[t] /\ twists'[t] = twists[t] /\ seen'[t] = seen[t]
      BY <2>4 DEF TurnCheck, TypeOK, Goto
    <3> QED BY <3>1
  <2>5. CASE Twist(t)
    <3>1. /\ pc[t] = "twist" /\ pc'[t] = "turn" /\ kind'[t] = kind[t]
          /\ turns'[t] = turns[t] /\ twists[t] < twists'[t] /\ seen'[t] = seen[t]
      BY <2>5 DEF Twist, TypeOK, Goto
    <3> QED BY <3>1
  <2>6. CASE TurnEnds(t)
    <3>1. /\ pc[t] = "turn" /\ pc'[t] = "settle" /\ kind'[t] = kind[t]
          /\ turns'[t] = turns[t] /\ twists'[t] = twists[t] /\ seen'[t] = seen[t]
      BY <2>6 DEF TurnEnds, TypeOK, Goto
    <3> QED BY <3>1
  <2>7. CASE Settle(t)
    <3>1. /\ pc[t] = "settle" /\ pc'[t] = (IF Sweeping(t) THEN "turned" ELSE "face")
          /\ kind'[t] = kind[t]
          /\ turns'[t] = turns[t] /\ seen'[t] = seen[t]
          /\ kind[t] # "rotate"
      BY <2>7 DEF Settle, TypeOK, Goto, End, Continue, Sweeping, Turning
    <3> QED BY <3>1
  <2>8. CASE FaceTurn(t)
    <3>1. /\ pc[t] = "face" /\ pc'[t] = "turn" /\ kind'[t] = kind[t]
          /\ turns[t] < turns'[t] /\ twists'[t] = twists[t] /\ seen'[t] = seen[t]
      BY <2>8 DEF FaceTurn, TypeOK, Goto
    <3> QED BY <3>1
  <2>9. CASE FaceEnds(t)
    <3>1. /\ pc[t] = "face"
          /\ pc'[t] \in (IF kind[t] = "find" THEN {"report", "approach"} ELSE {"wave"})
          /\ kind'[t] = kind[t]
          /\ twists'[t] = twists[t] /\ seen'[t] = seen[t]
      BY <2>9 DEF FaceEnds, TypeOK, Goto
    <3> QED BY <3>1
  <2>10. CASE GreetTop(t)
    <3>1. /\ pc[t] = "top" /\ pc'[t] = (IF stop["greet"] THEN "halt" ELSE "face")
          /\ kind'[t] = kind[t]
          /\ turns'[t] = turns[t] /\ twists'[t] = twists[t] /\ seen'[t] = seen[t]
          /\ kind[t] = "greet" /\ (stop["greet"] \/ KeptOn(t))
      BY <2>10 DEF GreetTop, TypeOK, Goto, KeptOn
    <3> QED BY <3>1
  <2>11. CASE AwaitPerson(t)
    <3>1. /\ pc[t] = "confirm" /\ pc'[t] = "face" /\ kind'[t] = kind[t]
          /\ turns'[t] = turns[t] /\ twists'[t] = twists[t] /\ seen'[t] = seen[t]
          /\ kind[t] = "visit"
      BY <2>11 DEF AwaitPerson, TypeOK, Goto, End, Continue
    <3> QED BY <3>1
  <2>12. CASE Wave(t)
    <3>1. /\ pc[t] = "wave" /\ pc'[t] = "top" /\ kind'[t] = kind[t]
          /\ turns'[t] = turns[t] /\ twists'[t] = twists[t] /\ seen'[t] = seen[t]
          /\ kind[t] = "greet"
      BY <2>12 DEF Wave, TypeOK, Goto, End, Continue
    <3> QED BY <3>1
  <2>13. CASE Halt(t)
    <3>1. FALSE
      BY <2>13 DEF Halt, TypeOK, Goto, End
    <3> QED BY <3>1
  <2>14. CASE Confirm(t)
    <3>1. /\ pc[t] = "confirm" /\ pc'[t] = "decide" /\ kind'[t] = kind[t]
          /\ turns'[t] = turns[t] /\ twists'[t] = twists[t]
          /\ kind[t] = "find"
      BY <2>14 DEF Confirm, TypeOK, Goto
    <3> QED BY <3>1
  <2>15. CASE FindStopped(t)
    <3>1. /\ pc[t] = "decide" /\ pc'[t] = "halt" /\ kind'[t] = kind[t]
          /\ turns'[t] = turns[t] /\ twists'[t] = twists[t] /\ seen'[t] = seen[t]
      BY <2>15 DEF FindStopped, TypeOK, Goto
    <3> QED BY <3>1
  <2>16. CASE FindSeen(t)
    <3>1. /\ pc[t] = "decide" /\ pc'[t] = "face" /\ kind'[t] = kind[t]
          /\ twists'[t] = twists[t] /\ seen'[t] = seen[t]
          /\ seen[t]
      BY <2>16 DEF FindSeen, TypeOK, Goto
    <3> QED BY <3>1
  <2>17. CASE FindNotFound(t)
    <3>1. /\ pc[t] = "decide" /\ pc'[t] = "halt" /\ kind'[t] = kind[t]
          /\ turns'[t] = turns[t] /\ twists'[t] = twists[t] /\ seen'[t] = seen[t]
      BY <2>17 DEF FindNotFound, TypeOK, Goto
    <3> QED BY <3>1
  <2>18. CASE SweepTurn(t)
    <3>1. /\ pc[t] = "decide" /\ pc'[t] = "turn" /\ kind'[t] = kind[t]
          /\ turns'[t] = turns[t] /\ twists'[t] = twists[t] /\ seen'[t] = seen[t]
          /\ ~seen[t] /\ turns[t] < MaxSweep
      BY <2>18 DEF SweepTurn, TypeOK, Goto
    <3> QED BY <3>1
  <2>19. CASE SweepStalled(t)
    <3>1. /\ pc[t] = "turned" /\ pc'[t] = "halt" /\ kind'[t] = kind[t]
          /\ turns'[t] = turns[t] /\ twists'[t] = twists[t] /\ seen'[t] = seen[t]
      BY <2>19 DEF SweepStalled, TypeOK, Goto
    <3> QED BY <3>1
  <2>20. CASE SweepAdvanced(t)
    <3>1. /\ pc[t] = "turned" /\ pc'[t] \in {"decide", "confirm"} /\ kind'[t] = kind[t]
          /\ seen'[t] = seen[t]
          /\ turns[t] < turns'[t] /\ turns'[t] <= MaxSweep
      BY <2>20 DEF SweepAdvanced, TypeOK, Goto
    <3> QED BY <3>1
  <2>21. CASE Approach(t)
    <3>1. /\ pc[t] = "approach" /\ pc'[t] \in {"approached", "halt"} /\ kind'[t] = kind[t]
          /\ turns'[t] = turns[t] /\ twists'[t] = twists[t] /\ seen'[t] = seen[t]
      BY <2>21 DEF Approach, TypeOK, Goto
    <3> QED BY <3>1
  <2>22. CASE Approached(t)
    <3>1. /\ pc[t] = "approached" /\ pc'[t] \in {"report", "halt"} /\ kind'[t] = kind[t]
          /\ turns'[t] = turns[t] /\ twists'[t] = twists[t] /\ seen'[t] = seen[t]
      BY <2>22 DEF Approached, TypeOK, Goto
    <3> QED BY <3>1
  <2>23. CASE Report(t)
    <3>1. /\ pc[t] = "report" /\ pc'[t] = "halt" /\ kind'[t] = kind[t]
          /\ turns'[t] = turns[t] /\ twists'[t] = twists[t] /\ seen'[t] = seen[t]
      BY <2>23 DEF Report, TypeOK, Goto
    <3> QED BY <3>1
  <2> QED
    BY <2>1, <2>2, <2>3, <2>4, <2>5, <2>6, <2>7, <2>8, <2>9, <2>10, <2>11, <2>12,
       <2>13, <2>14, <2>15, <2>16, <2>17, <2>18, <2>19, <2>20, <2>21, <2>22, <2>23
    DEF ThreadStep
<1> QED BY <1>2, <1>3

LEMMA OnlyTheLive ==
  ASSUME NEW t \in Threads, ThreadStep(t)
  PROVE  Live(t)
  BY DEF ThreadStep, Live, TrackTop, TrackDrive, Walk, TurnCheck, Twist, TurnEnds, Settle,
         FaceTurn, FaceEnds, GreetTop, AwaitPerson, Wave, Halt, Confirm, FindStopped,
         FindSeen, FindNotFound, SweepTurn, SweepStalled, SweepAdvanced, Approach,
         Approached, Report

(* A call starts a thread in the slot of one that has ended, or none. *)
LEMMA CallsStartThreads ==
  ASSUME TypeOK, NEW c \in Callers, CallerStep(c), NEW u \in Threads
  PROVE  UNCHANGED Record(u) \/ (~Live(u) /\ OnRoute(u)')
<1> USE DEF TypeOK, Record
<1>1. CASE Skip(c) \/ Signal(c) \/ Join(c) \/ Return(c) \/ MotionReturns(c) \/ StopMoving(c)
  BY <1>1 DEF Skip, Signal, Join, Return, MotionReturns, StopMoving, threadVars
<1>2. ASSUME NEW t \in Threads, Spawn(c, t)
      PROVE  UNCHANGED Record(u) \/ (~Live(u) /\ OnRoute(u)')
  <2>1. CASE u # t
    BY <1>2, <2>1 DEF Spawn, Goto
  <2>2. CASE u = t
    <3>1. /\ ~Live(u) /\ kind'[u] \in Behaviour /\ turns'[u] = 0
          /\ pc'[u] = IF kind'[u] = "find" THEN "confirm" ELSE "top"
      BY <1>2, <2>2 DEF Spawn, Free, Goto, KindOf, StartOps, Behaviour
    <3>2. MaxSweep \in Nat
      BY ConstantsAssumption
    <3> QED BY <3>1, <3>2 DEF OnRoute, Route, Swept, Sweeping, Turning, Behaviour, PCs
  <2> QED BY <2>1, <2>2
<1>3. ASSUME NEW t \in Threads, RunMotion(c, t)
      PROVE  UNCHANGED Record(u) \/ (~Live(u) /\ OnRoute(u)')
  <2>1. CASE u # t
    BY <1>3, <2>1 DEF RunMotion, Goto
  <2>2. CASE u = t
    <3>1. /\ ~Live(u) /\ kind'[u] \in Foreground
          /\ pc'[u] = CASE kind'[u] = "visit" -> "confirm" [] kind'[u] = "rotate" -> "turn"
                        [] OTHER -> "drive"
      BY <1>3, <2>2 DEF RunMotion, Free, Goto, KindOf, MotionOps, Foreground
    <3> QED BY <3>1 DEF OnRoute, Route, Swept, Sweeping, Turning, Foreground
  <2> QED BY <2>1, <2>2
<1> QED BY <1>1, <1>2, <1>3 DEF CallerStep

LEMMA SameRoute ==
  ASSUME NEW u \in Threads, OnRoute(u), UNCHANGED Record(u)
  PROVE  OnRoute(u)'
  BY DEF OnRoute, Live, Swept, Sweeping, Turning, Record

LEMMA KeepsItinerary ==
  ASSUME TypeOK, Budget, Itinerary, [Next]_vars
  PROVE  Itinerary'
<1> SUFFICES ASSUME NEW u \in Threads PROVE OnRoute(u)'
  BY DEF Itinerary
<1>1. OnRoute(u)
  BY DEF Itinerary
<1>2. ASSUME NEW c \in Callers, CallerStep(c) PROVE OnRoute(u)'
  BY <1>1, <1>2, CallsStartThreads, SameRoute
<1>3. ASSUME NEW t \in Threads, ThreadStep(t) PROVE OnRoute(u)'
  <2>1. CASE u = t
    BY <1>1, <1>3, <2>1, OnlyTheLive, Nearer
  <2>2. CASE u # t
    BY <1>1, <1>3, <2>2, OnlyItself, SameRoute
  <2> QED BY <2>1, <2>2
<1>4. CASE \/ \E c \in Callers, o \in Calls : Call(c, o)
           \/ Watchdog \/ SocketCloses \/ UNCHANGED vars
  <2>1. UNCHANGED Record(u)
    BY <1>4 DEF Call, Watchdog, SocketCloses, vars, threadVars, Record
  <2> QED BY <1>1, <2>1, SameRoute
<1> QED BY <1>2, <1>3, <1>4 DEF Next

LEMMA ItineraryKept == Spec => []Itinerary
<1>1. Init => Itinerary
  BY DEF Init, Itinerary, OnRoute, Live, Swept, Sweeping, Turning
<1>2. TypeOK /\ Budget /\ Itinerary /\ [Next]_vars => Itinerary'
  BY KeepsItinerary
<1>3. IInv => TypeOK /\ Budget
  BY DEF IInv, Rest
<1> QED BY <1>1, <1>2, <1>3, Invariant, PTL DEF Spec

(* A thread that has not ended has something to do: no turn is out of      *)
(* setpoints without having made one, no search between two turns is       *)
(* without either a next look or the verdict that the sweep is over.       *)
THEOREM NoThreadIsStuck == Spec => []NeverStuck
<1>1. TypeOK /\ Itinerary => NeverStuck
  <2> SUFFICES ASSUME TypeOK, Itinerary, NEW t \in Threads, Live(t)
               PROVE  MayStep(t)
    BY DEF NeverStuck
  <2>1. /\ kind[t] \in {"track", "greet", "find", "visit", "rotate", "walk", "none"}
        /\ pc[t] \in PCs /\ turns[t] \in Nat /\ twists[t] \in 0..MaxTwists
        /\ seen[t] \in BOOLEAN /\ MaxSweep \in Nat \ {0} /\ MaxTwists \in Nat \ {0}
    BY ConstantsAssumption DEF TypeOK, Behaviour, Foreground, MaxTurns
  <2>2. pc[t] \in Route[kind[t]] /\ Swept(t)
    BY DEF Itinerary, OnRoute
  <2>3. pc[t] = "decide" => kind[t] = "find"
    BY <2>1, <2>2 DEF Route
  <2>4. pc[t] = "turned" => (turns[t] + 1)..MaxSweep # {}
    <3>1. pc[t] = "turned" => turns[t] < MaxSweep
      BY <2>2 DEF Swept
    <3>2. turns[t] < MaxSweep => turns[t] + 1 \in (turns[t] + 1)..MaxSweep
      BY <2>1
    <3> QED BY <3>1, <3>2
  <2>5. pc[t] = "turn" => \/ ~MotionAborted /\ twists[t] < MaxTwists
                          \/ MotionAborted \/ twists[t] > 0
    BY <2>1
  <2>6. pc[t] = "decide" => turns[t] = MaxSweep \/ turns[t] < MaxSweep
    BY <2>1, <2>2, <2>3 DEF Swept
  <2>7. /\ pc[t] = "top" => kind[t] \in {"track", "greet"}
        /\ pc[t] = "drive" => kind[t] \in {"track", "walk"}
        /\ pc[t] = "confirm" => kind[t] \in {"visit", "find"}
        /\ pc[t] = "wave" => kind[t] \in {"greet", "visit"}
    BY <2>1, <2>2 DEF Route
  <2> QED BY <2>1, <2>4, <2>5, <2>6, <2>7 DEF MayStep, PCs, Live
<1> QED BY <1>1, TypeCorrect, ItineraryKept, PTL

(* Whatever a thread does brings it nearer to its end, in an order that    *)
(* has no infinite descent (DescentEnds), except at the head of a tracking *)
(* or greeting loop that nobody has told to stop; and nobody else's step   *)
(* throws it back.  This is why a search ends and calls return.            *)
THEOREM ThreadsWindDown == Spec => [][\A t \in Threads : WindsDown(t)]_vars
<1>1. IInv /\ IInv' /\ Itinerary /\ [Next]_vars => [\A t \in Threads : WindsDown(t)]_vars
  <2> SUFFICES ASSUME IInv, IInv', Itinerary, Next, NEW t \in Threads, Live(t)
               PROVE  IF ThreadStep(t)
                      THEN KeptOn(t) \/ <<Rank(t)', Rank(t)>> \in Descent
                      ELSE UNCHANGED Record(t)
    BY DEF WindsDown
  <2>1. TypeOK /\ TypeOK' /\ Budget /\ OnRoute(t)
    BY DEF IInv, Rest, Itinerary
  <2>2. CASE ThreadStep(t)
    <3>1. KeptOn(t) \/ Closer(t)
      BY <2>1, <2>2, Nearer
    <3> QED BY <2>1, <2>2, <3>1, CloserDescends
  <2>3. CASE ~ThreadStep(t)
    <3>1. ASSUME NEW u \in Threads, ThreadStep(u) PROVE UNCHANGED Record(t)
      <4>1. u # t
        BY <2>3, <3>1
      <4> QED BY <2>1, <3>1, <4>1, OnlyItself
    <3>2. ASSUME NEW c \in Callers, CallerStep(c) PROVE UNCHANGED Record(t)
      BY <2>1, <3>2, CallsStartThreads
    <3>3. ASSUME (\E c \in Callers, o \in Calls : Call(c, o)) \/ Watchdog \/ SocketCloses
          PROVE  UNCHANGED Record(t)
      BY <3>3 DEF Call, Watchdog, SocketCloses, threadVars, Record
    <3> QED BY <2>3, <3>1, <3>2, <3>3 DEF Next
  <2> QED BY <2>2, <2>3
<1> QED BY <1>1, Invariant, ItineraryKept, PTL DEF Spec

-----------------------------------------------------------------------------
(* Nobody waits for a loop that has not been told to stop, when calls do   *)
(* not overlap.                                                            *)

(* The client's references are to live threads of their kind. *)
Refs == \A b \in Behaviour :
            ref[b] # NoThread => Live(ref[b]) /\ kind[ref[b]] = b

(* A call waits for a thread it has told to stop, or for its own motion. *)
WaitsFor(c, t) ==
    \/ phase[c] = "join" /\ kind[t] = Yielding(c) /\ stop[Yielding(c)]
    \/ phase[c] = "run" /\ kind[t] \in Foreground

Waiting ==
    \A c \in Callers :
        /\ op[c] = "none" => phase[c] = "next"
        /\ phase[c] = "next" => awaited[c] = NoThread
        /\ \A t \in Threads : awaited[c] = t /\ Live(t) => WaitsFor(c, t)

AwaitedEnds ==
    \A c \in Callers, t \in Threads : awaited[c] = t /\ Live(t) => ~KeptOn(t)

(* A thread's step keeps its kind, or ends it and forgets it. *)
LEMMA KindKept ==
  ASSUME TypeOK, NEW t \in Threads, ThreadStep(t)
  PROVE  /\ \/ kind'[t] = kind[t] /\ Live(t)' /\ UNCHANGED ref
            \/ /\ ~Live(t)'
               /\ ref' = [b \in Behaviour |-> IF ref[b] = t THEN NoThread ELSE ref[b]]
         /\ UNCHANGED <<stop, callVars>>
<1> USE DEF TypeOK, End, Continue, Goto, Live, flagVars
<1>1. CASE TrackTop(t) \/ TrackDrive(t)
  BY <1>1 DEF TrackTop, TrackDrive
<1>2. CASE Walk(t)
  BY <1>2 DEF Walk
<1>3. CASE TurnCheck(t) \/ Twist(t) \/ TurnEnds(t)
  BY <1>3 DEF TurnCheck, Twist, TurnEnds
<1>4. CASE Settle(t)
  BY <1>4 DEF Settle
<1>5. CASE FaceTurn(t) \/ FaceEnds(t)
  BY <1>5 DEF FaceTurn, FaceEnds
<1>6. CASE GreetTop(t) \/ AwaitPerson(t)
  BY <1>6 DEF GreetTop, AwaitPerson
<1>7. CASE Wave(t) \/ Halt(t)
  BY <1>7 DEF Wave, Halt
<1>8. CASE Confirm(t) \/ FindStopped(t) \/ FindSeen(t)
  BY <1>8 DEF Confirm, FindStopped, FindSeen
<1>9. CASE FindNotFound(t) \/ SweepTurn(t) \/ SweepStalled(t)
  BY <1>9 DEF FindNotFound, SweepTurn, SweepStalled
<1>10. CASE SweepAdvanced(t)
  BY <1>10 DEF SweepAdvanced
<1>11. CASE Approach(t)
  BY <1>11 DEF Approach
<1>12. CASE Approached(t) \/ Report(t)
  BY <1>12 DEF Approached, Report
<1> QED
  BY <1>1, <1>2, <1>3, <1>4, <1>5, <1>6, <1>7, <1>8, <1>9, <1>10, <1>11, <1>12
  DEF ThreadStep

LEMMA ThreadKeepsWaiting ==
  ASSUME TypeOK, Refs, Waiting, NEW t \in Threads, ThreadStep(t)
  PROVE  Refs' /\ Waiting'
<1>1. /\ \/ kind'[t] = kind[t] /\ Live(t)' /\ UNCHANGED ref
         \/ /\ ~Live(t)'
            /\ ref' = [b \in Behaviour |-> IF ref[b] = t THEN NoThread ELSE ref[b]]
      /\ UNCHANGED <<stop, op, at, phase, awaited>>
  BY KindKept DEF callVars
<1>2. \A u \in Threads : u # t => kind'[u] = kind[u] /\ Live(u)' = Live(u)
  BY OnlyItself DEF Record, Live
<1>3. Live(t)
  BY OnlyTheLive
<1>4. Refs'
  <2> SUFFICES ASSUME NEW b \in Behaviour, ref'[b] # NoThread
               PROVE  pc'[ref'[b]] # "done" /\ kind'[ref'[b]] = b
    BY DEF Refs, Live
  <2>1. ref'[b] = ref[b] /\ ref[b] \in Threads /\ (Live(t)' \/ ref[b] # t)
    BY <1>1 DEF TypeOK
  <2>2. Live(ref[b]) /\ kind[ref[b]] = b
    BY <2>1 DEF Refs
  <2>3. kind'[ref[b]] = b /\ pc'[ref[b]] # "done"
    BY <1>1, <1>2, <2>1, <2>2 DEF Live
  <2> QED BY <2>1, <2>3 DEF Live
<1>5. Waiting'
  <2> SUFFICES ASSUME NEW c \in Callers, NEW u \in Threads, awaited[c] = u, Live(u)'
               PROVE  WaitsFor(c, u)'
    BY <1>1 DEF Waiting
  <2>1. Live(u) /\ kind'[u] = kind[u]
    BY <1>1, <1>2, <1>3
  <2>2. WaitsFor(c, u)
    BY <2>1 DEF Waiting
  <2>3. Yielding(c)' = Yielding(c)
    BY <1>1 DEF Yielding
  <2> QED BY <1>1, <2>1, <2>2, <2>3 DEF WaitsFor
<1> QED BY <1>4, <1>5

LEMMA CallKeepsWaiting ==
  ASSUME TypeOK, Refs, Waiting, OneAtATime, NEW c \in Callers, CallerStep(c)
  PROVE  Refs' /\ Waiting'
<1>a. \A d \in Callers : d = c
  BY DEF OneAtATime
<1>1. CASE Skip(c) \/ Return(c) \/ MotionReturns(c) \/ StopMoving(c)
  <2>1. /\ UNCHANGED <<kind, pc, ref>>
        /\ phase'[c] = "next" /\ awaited'[c] = NoThread
    BY <1>1 DEF Skip, Return, MotionReturns, StopMoving, Returned, Pending, Ready,
                Waiting, TypeOK, threadVars, flagVars
  <2>2. Refs'
    BY <2>1 DEF Refs, Live
  <2> QED BY <1>a, <2>1, <2>2, ConstantsAssumption DEF Waiting
<1>2. CASE Signal(c)
  <2>1. /\ UNCHANGED <<kind, pc, ref, op, at>> /\ op[c] # "none"
        /\ phase'[c] = "join" /\ awaited'[c] = ref[Yielding(c)]
        /\ stop' = [stop EXCEPT ![Yielding(c)] = TRUE]
    BY <1>2 DEF Signal, Pending, TypeOK, threadVars
  <2>2. Refs'
    BY <2>1 DEF Refs, Live
  <2>3. Yielding(c)' = Yielding(c)
    BY <2>1 DEF Yielding
  <2>4. Yielding(c) \in Behaviour
    <3>1. op[c] \in Ops /\ at[c] \in 1..Len(Yields[op[c]])
      BY <1>2 DEF Signal, Pending, TypeOK
    <3>2. \A o \in Ops : Yields[o] \in Seq(Behaviour)
      <4>1. /\ << >> \in Seq(Behaviour) /\ <<"track">> \in Seq(Behaviour)
            /\ <<"greet">> \in Seq(Behaviour) /\ <<"find">> \in Seq(Behaviour)
            /\ <<"greet", "track", "find">> \in Seq(Behaviour)
        BY DEF Behaviour
      <4>2. \A o \in Ops :
                \/ Yields[o] = << >> \/ Yields[o] = <<"track">> \/ Yields[o] = <<"greet">>
                \/ Yields[o] = <<"find">> \/ Yields[o] = <<"greet", "track", "find">>
        BY DEF Yields, Ops, StartOps, StopOps, MotionOps
      <4> QED BY <4>1, <4>2
    <3> QED BY <3>1, <3>2 DEF Yielding
  <2>5. stop'[Yielding(c)]
    BY <2>1, <2>4 DEF TypeOK
  <2>6. \A t \in Threads : awaited'[c] = t => kind[t] = Yielding(c)
    BY <2>1, <2>4, ConstantsAssumption DEF Refs
  <2> QED BY <1>a, <2>1, <2>2, <2>3, <2>5, <2>6 DEF Waiting, WaitsFor
<1>3. CASE Join(c)
  <2>1. /\ UNCHANGED <<kind, pc>>
        /\ phase'[c] = "next" /\ awaited'[c] = NoThread
        /\ ref' = [ref EXCEPT ![Yielding(c)] = NoThread]
    BY <1>3 DEF Join, TypeOK, threadVars
  <2>2. Refs'
    BY <2>1 DEF Refs, Live, TypeOK
  <2> QED BY <1>a, <2>1, <2>2, ConstantsAssumption DEF Waiting
<1>4. ASSUME NEW t \in Threads, Spawn(c, t)
      PROVE  Refs' /\ Waiting'
  <2> DEFINE b == KindOf[op[c]]
  <2>1. /\ ~Live(t) /\ b \in Behaviour
        /\ phase'[c] = "next" /\ awaited'[c] = NoThread
        /\ ref' = [ref EXCEPT ![b] = t]
        /\ kind'[t] = b /\ pc'[t] # "done"
        /\ \A u \in Threads : u # t => kind'[u] = kind[u] /\ pc'[u] = pc[u]
    BY <1>4 DEF Spawn, Free, Ready, Goto, KindOf, StartOps, Behaviour, Waiting, TypeOK
  <2> HIDE DEF b
  <2>2. Refs'
    <3> SUFFICES ASSUME NEW d \in Behaviour, ref'[d] # NoThread
                 PROVE  pc'[ref'[d]] # "done" /\ kind'[ref'[d]] = d
      BY DEF Refs, Live
    <3>1. CASE d = b
      BY <2>1, <3>1 DEF TypeOK
    <3>2. CASE d # b
      <4>1. ref'[d] = ref[d] /\ ref[d] \in Threads
        BY <2>1, <3>2 DEF TypeOK
      <4>2. Live(ref[d]) /\ kind[ref[d]] = d
        BY <4>1 DEF Refs
      <4> QED BY <2>1, <4>1, <4>2 DEF Live
    <3> QED BY <3>1, <3>2
  <2> QED BY <1>a, <2>1, <2>2, ConstantsAssumption DEF Waiting
<1>5. ASSUME NEW t \in Threads, RunMotion(c, t)
      PROVE  Refs' /\ Waiting'
  <2>1. /\ ~Live(t) /\ phase'[c] = "run" /\ awaited'[c] = t
        /\ kind'[t] \in Foreground /\ UNCHANGED <<ref, op>> /\ op[c] # "none"
        /\ \A u \in Threads : u # t => kind'[u] = kind[u] /\ pc'[u] = pc[u]
    BY <1>5 DEF RunMotion, Free, Ready, Goto, KindOf, MotionOps, Foreground, TypeOK, flagVars
  <2>2. Refs'
    <3> SUFFICES ASSUME NEW d \in Behaviour, ref[d] # NoThread
                 PROVE  pc'[ref[d]] # "done" /\ kind'[ref[d]] = d
      BY <2>1 DEF Refs, Live
    <3>1. ref[d] \in Threads /\ Live(ref[d]) /\ kind[ref[d]] = d
      BY DEF Refs, TypeOK
    <3> QED BY <2>1, <3>1 DEF Live
  <2> QED BY <1>a, <2>1, <2>2 DEF Waiting, WaitsFor
<1> QED BY <1>1, <1>2, <1>3, <1>4, <1>5 DEF CallerStep

LEMMA KeepsWaiting ==
  ASSUME TypeOK, Refs, Waiting, OneAtATime, [Next]_vars
  PROVE  Refs' /\ Waiting'
<1>1. ASSUME NEW c \in Callers, NEW o \in Calls, Call(c, o)
      PROVE  Refs' /\ Waiting'
  <2>1. /\ UNCHANGED <<kind, pc, ref, phase, awaited>> /\ phase[c] = "next"
    BY <1>1 DEF Call, Waiting, threadVars, flagVars
  <2>2. \A d \in Callers : phase[d] = "next" /\ awaited[d] = NoThread
    BY <2>1 DEF OneAtATime, Waiting
  <2> QED BY <2>1, <2>2, ConstantsAssumption DEF Refs, Live, Waiting
<1>2. CASE Watchdog \/ SocketCloses \/ UNCHANGED vars
  BY <1>2 DEF Watchdog, SocketCloses, vars, threadVars, flagVars, callVars, Refs, Live,
              Waiting, WaitsFor, Yielding
<1> QED BY <1>1, <1>2, ThreadKeepsWaiting, CallKeepsWaiting DEF Next

(* Whom a call waits for - in a join, or while a motion runs on the        *)
(* caller's thread - is on its way to its end: it is never a loop that     *)
(* goes on because nobody told it to stop.  With ThreadsWindDown and       *)
(* NoThreadIsStuck this is why the calls return.                           *)
THEOREM AwaitedHaveBeenTold ==
  ASSUME OneAtATime
  PROVE  Spec => []AwaitedEnds
<1>1. Init => Refs /\ Waiting
  BY ConstantsAssumption DEF Init, Refs, Waiting
<1>2. TypeOK /\ Refs /\ Waiting /\ [Next]_vars => Refs' /\ Waiting'
  BY KeepsWaiting
<1>3. TypeOK /\ Itinerary /\ Waiting => AwaitedEnds
  <2> SUFFICES ASSUME TypeOK, Itinerary, Waiting, NEW c \in Callers, NEW t \in Threads,
                      awaited[c] = t, Live(t), KeptOn(t)
               PROVE  FALSE
    BY DEF AwaitedEnds
  <2>1. WaitsFor(c, t)
    BY DEF Waiting
  <2>2. pc[t] = "top" /\ "top" \in Route[kind[t]]
    BY DEF Itinerary, OnRoute, KeptOn
  <2>3. kind[t] \in Behaviour \cup Foreground \cup {"none"}
    BY DEF TypeOK
  <2> QED BY <2>1, <2>2, <2>3 DEF WaitsFor, KeptOn, Route, Foreground, Behaviour
<1> QED BY <1>1, <1>2, <1>3, TypeCorrect, ItineraryKept, PTL DEF Spec

=============================================================================
