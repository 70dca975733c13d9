------------------------- MODULE EbpfMonitor_proofs -------------------------
(***************************************************************************)
(* What the eBPF monitor promises for any tasks, operations, policies and  *)
(* sizes of its maps, whatever step of its start fails.                    *)
(***************************************************************************)
EXTENDS EbpfMonitor, FiniteSetTheorems, SequenceTheorems, WellFoundedInduction, TLAPS

Places == {"cli", "open", "flag", "seed", "paths", "attach", "ring", "check",
           "poll", "wait", "consume", "detach", "ended"}
LoaderStates == [pc : Places, line : Nat \ {0}, err : Nat \union {-1}]
MapStates == [enforce : BOOLEAN, execs : SUBSET DefaultExecs, paths : SUBSET Seq(STRING)]
ProgramNames == {"execve", "openat", "connect", "file_open", "bprm_check"}

-----------------------------------------------------------------------------
(* Facts the cases below share.                                            *)

LEMMA ProgramsNamed ==
    /\ Range(Programs) = ProgramNames
    /\ \A i \in DOMAIN Programs : Programs[i] \in ProgramNames
<1>1. DOMAIN Programs = 1..5
    BY DEF Programs
<1>2. /\ Programs[1] = "execve" /\ Programs[2] = "openat" /\ Programs[3] = "connect"
      /\ Programs[4] = "file_open" /\ Programs[5] = "bprm_check"
    BY DEF Programs
<1>3. 1..5 = {1, 2, 3, 4, 5}
    OBVIOUS
<1> QED
    BY <1>1, <1>2, <1>3 DEF Range, ProgramNames

LEMMA LineTyped ==
    ASSUME policy \in Policies, NEW i \in DOMAIN policy
    PROVE  policy[i] \in Seq(STRING)
<1>1. policy \in Seq(Seq(STRING))
    BY PoliciesAssumption
<1> QED
    BY <1>1

\* A step of the loader that moves nothing but its place.
LEMMA LoaderMoves ==
    ASSUME TypeOK, loader' \in LoaderStates,
           UNCHANGED <<mode, policy, maps, attached, kernel, printed>>,
           exiting' \in BOOLEAN
    PROVE  TypeOK'
    BY DEF TypeOK, kernel, OnTheWay, LoaderStates, Places

LEMMA GotoTyped ==
    ASSUME TypeOK, NEW pc \in Places, Goto(pc)
    PROVE  loader' \in LoaderStates
    BY DEF TypeOK, Goto, LoaderStates, Places

LEMMA FailTyped ==
    ASSUME TypeOK, Fail
    PROVE  loader' \in LoaderStates
    BY DEF TypeOK, Fail, LoaderStates, Places

LEMMA RefuseTyped ==
    ASSUME TypeOK, Refuse
    PROVE  loader' \in LoaderStates
    BY DEF TypeOK, Refuse, LoaderStates, Places

LEMMA ErrTyped ==
    ASSUME TypeOK, NEW pc \in Places, NEW err \in Nat \union {-1},
           loader' = [loader EXCEPT !.pc = pc, !.err = err]
    PROVE  loader' \in LoaderStates
<1>1. loader \in LoaderStates
    BY DEF TypeOK, LoaderStates, Places
<1> QED
    BY <1>1 DEF LoaderStates

\* A step that fills the maps.
LEMMA MapsFilled ==
    ASSUME TypeOK, loader' \in LoaderStates, maps' \in MapStates,
           IsFiniteSet(maps'.paths), Cardinality(maps'.paths) <= MaxPaths,
           UNCHANGED <<mode, policy, attached, exiting, kernel, printed>>
    PROVE  TypeOK'
    BY DEF TypeOK, kernel, OnTheWay, LoaderStates, Places, MapStates

LEMMA LoadLineTyped ==
    ASSUME TypeOK, LoadLine
    PROVE  TypeOK'
<1> DEFINE prefix == policy[loader.line]
<1>1. prefix \in Seq(STRING)
    BY LineTyped DEF TypeOK, LoadLine
<1>2. loader \in LoaderStates /\ maps \in MapStates
    BY DEF TypeOK, LoaderStates, MapStates, Places
<1>3. CASE prefix # <<>> /\ (Len(prefix) > TextSize \/ Full(prefix))
  <2>1. Fail /\ maps' = maps
    BY <1>3 DEF LoadLine
  <2> QED
    BY <2>1, FailTyped, LoaderMoves DEF LoadLine, TypeOK
<1>4. CASE ~(prefix # <<>> /\ (Len(prefix) > TextSize \/ Full(prefix)))
  <2>1. /\ loader' = [loader EXCEPT !.line = @ + 1]
        /\ maps' = [maps EXCEPT !.paths = @ \union ({prefix} \ {<<>>})]
    BY <1>4 DEF LoadLine
  <2>2. loader' \in LoaderStates
    BY <2>1, <1>2 DEF LoaderStates
  <2>3. maps' \in MapStates /\ maps'.paths = maps.paths \union ({prefix} \ {<<>>})
    BY <2>1, <1>1, <1>2 DEF MapStates
  <2>4. IsFiniteSet(maps.paths) /\ Cardinality(maps.paths) \in Nat
        /\ Cardinality(maps.paths) <= MaxPaths /\ MaxPaths \in Nat
    BY FS_CardinalityType, SizesAssumption DEF TypeOK
  <2>5. IsFiniteSet(maps'.paths) /\ Cardinality(maps'.paths) <= MaxPaths
    <3>1. CASE prefix = <<>>
      <4>1. maps'.paths = maps.paths
        BY <3>1, <2>3
      <4> QED
        BY <4>1, <2>4
    <3>2. CASE prefix # <<>>
      <4>1. maps'.paths = maps.paths \union {prefix}
        BY <3>2, <2>3
      <4>2. ~Full(prefix)
        BY <3>2, <1>4
      <4>3. /\ IsFiniteSet(maps.paths \union {prefix})
            /\ Cardinality(maps.paths \union {prefix}) =
                  IF prefix \in maps.paths THEN Cardinality(maps.paths)
                  ELSE Cardinality(maps.paths) + 1
        BY <2>4, FS_AddElement
      <4> HIDE DEF prefix
      <4> QED
        BY <4>1, <4>2, <4>3, <2>4 DEF Full
    <3> QED
      BY <3>1, <3>2
  <2> QED
    BY <2>2, <2>3, <2>5, MapsFilled DEF LoadLine
<1> QED
    BY <1>3, <1>4

\* The steps of the start.
LEMMA LoadTyped ==
    ASSUME TypeOK, Load
    PROVE  TypeOK'
<1>1. CASE Spawn
    BY <1>1, GotoTyped, RefuseTyped, LoaderMoves DEF Spawn, Places, TypeOK
<1>2. CASE OpenAndLoad
    BY <1>2, GotoTyped, RefuseTyped, LoaderMoves DEF OpenAndLoad, Places, TypeOK
<1>3. CASE SetFlag
  <2>1. CASE Goto("seed") /\ maps' = [maps EXCEPT !.enforce = mode = "enforce"]
    <3>1. maps' \in MapStates /\ maps'.paths = maps.paths
      BY <2>1 DEF TypeOK, MapStates
    <3> QED
      BY <1>3, <2>1, <3>1, GotoTyped, MapsFilled DEF SetFlag, Places, TypeOK
  <2>2. CASE Fail /\ UNCHANGED maps
    BY <1>3, <2>2, FailTyped, LoaderMoves DEF SetFlag, TypeOK
  <2> QED
    BY <1>3, <2>1, <2>2 DEF SetFlag
<1>4. CASE SeedExecs
  <2>1. CASE Goto("paths") /\ maps' = [maps EXCEPT !.execs = DefaultExecs]
    <3>1. maps' \in MapStates /\ maps'.paths = maps.paths
      BY <2>1 DEF TypeOK, MapStates
    <3> QED
      BY <1>4, <2>1, <3>1, GotoTyped, MapsFilled DEF SeedExecs, Places, TypeOK
  <2>2. CASE Fail /\ UNCHANGED maps
    BY <1>4, <2>2, FailTyped, LoaderMoves DEF SeedExecs, TypeOK
  <2> QED
    BY <1>4, <2>1, <2>2 DEF SeedExecs
<1>5. CASE LoadLine
    BY <1>5, LoadLineTyped
<1>6. CASE PathsLoaded
    BY <1>6, GotoTyped, FailTyped, LoaderMoves DEF PathsLoaded, Places, TypeOK
<1>7. CASE AttachNext
  <2>1. attached' \subseteq Range(Programs)
    BY <1>7, ProgramsNamed DEF AttachNext, TypeOK
  <2>2. loader' \in LoaderStates
    BY <1>7, GotoTyped, FailTyped DEF AttachNext, Places, LoaderStates, TypeOK
  <2> QED
    BY <1>7, <2>1, <2>2 DEF AttachNext, TypeOK, kernel, OnTheWay, LoaderStates, Places
<1>8. CASE NewRingBuffer
    BY <1>8, GotoTyped, FailTyped, LoaderMoves DEF NewRingBuffer, Places, TypeOK
<1> QED
    BY <1>1, <1>2, <1>3, <1>4, <1>5, <1>6, <1>7, <1>8 DEF Load

\* The steps of the loop.
LEMMA LoopTyped ==
    ASSUME TypeOK, Loop
    PROVE  TypeOK'
<1>1. CASE CheckExiting
    BY <1>1, GotoTyped, LoaderMoves DEF CheckExiting, Places, TypeOK
<1>2. CASE Wait
  <2>1. loader' \in LoaderStates
    BY <1>2, ErrTyped DEF Wait, Places
  <2> QED
    BY <1>2, <2>1, LoaderMoves DEF Wait, TypeOK
<1>3. CASE HandleEvent
  <2>1. ring # <<>> /\ ring \in Seq(Records) /\ Len(ring) <= RingSize
    BY <1>3 DEF HandleEvent, Ready, TypeOK
  <2>2. /\ ring[1] \in Records /\ Tail(ring) \in Seq(Records)
        /\ Len(Tail(ring)) = Len(ring) - 1 /\ Len(ring) \in Nat /\ RingSize \in Nat
    BY <2>1, SizesAssumption
  <2>3. ring' \in Seq(Records) /\ Len(ring') <= RingSize
    BY <1>3, <2>1, <2>2 DEF HandleEvent
  <2>4. printed' \in Seq(Events \union {NoEvent})
    <3>1. ring[1].event \in Events \union {NoEvent}
      BY <2>2 DEF Records
    <3> QED
      BY <1>3, <3>1 DEF HandleEvent, TypeOK
  <2>5. loader' \in LoaderStates
    <3>1. loader \in LoaderStates
      BY DEF TypeOK, LoaderStates, Places
    <3>2. loader.err + 1 \in Nat \union {-1}
      BY <3>1 DEF LoaderStates
    <3> QED
      BY <1>3, <3>1, <3>2 DEF HandleEvent, LoaderStates
  <2> QED
    BY <1>3, <2>3, <2>4, <2>5 DEF HandleEvent, TypeOK, OnTheWay, LoaderStates, Places
<1>4. CASE PollReturns
    BY <1>4, GotoTyped, LoaderMoves DEF PollReturns, Places, TypeOK
<1>5. CASE Detach
  <2>1. attached' \subseteq Range(Programs)
    BY <1>5 DEF Detach, TypeOK
  <2>2. loader' \in LoaderStates
    BY <1>5, GotoTyped DEF Detach, Places, LoaderStates, TypeOK
  <2> QED
    BY <1>5, <2>1, <2>2 DEF Detach, TypeOK, kernel, OnTheWay, LoaderStates, Places
<1>6. CASE EnterPoll
    BY <1>6, GotoTyped, LoaderMoves DEF EnterPoll, Places, TypeOK
<1> QED
    BY <1>1, <1>2, <1>3, <1>4, <1>5, <1>6 DEF Loop

LEMMA PollFailsTyped ==
    ASSUME TypeOK, PollFails
    PROVE  TypeOK'
    BY FailTyped, LoaderMoves DEF PollFails, TypeOK

LEMMA SignalTyped ==
    ASSUME TypeOK, Signal
    PROVE  TypeOK'
<1>1. loader' \in LoaderStates /\ exiting' \in BOOLEAN
  <2>1. loader \in LoaderStates
    BY DEF TypeOK, LoaderStates, Places
  <2> QED
    BY <2>1, ErrTyped DEF Signal, Places
<1> QED
    BY <1>1, LoaderMoves DEF Signal

LEMMA DecisionTyped ==
    ASSUME NEW hook
    PROVE  Decision(hook) \in Decisions
    BY DEF Decision, Decisions

\* A step of one task: the others stay as they are, and so does its operation.
Moved(t) ==
    /\ task' \in [Tasks -> TaskStates] /\ task'[t].way = task[t].way
    /\ task[t] \in TaskStates /\ task'[t] \in TaskStates
    /\ \A u \in Tasks \ {t} : task'[u] = task[u]

LEMMA OneMoves ==
    ASSUME TypeOK, NEW t \in Tasks, NEW s \in TaskStates, s.way = task[t].way,
           task' = [task EXCEPT ![t] = s]
    PROVE  Moved(t) /\ task'[t] = s
    BY DEF TypeOK, Moved

LEMMA BeginMoves ==
    ASSUME TypeOK, NEW t \in Tasks, Begin(t)
    PROVE  /\ Moved(t) /\ task[t].pc = "idle" /\ task'[t].pc = "enter"
           /\ task'[t].step = task[t].step /\ task'[t].missed = task[t].missed
<1> DEFINE s == [task[t] EXCEPT !.pc = "enter"]
<1>1. task[t] \in TaskStates
    BY DEF TypeOK
<1>2. /\ s \in TaskStates /\ s.way = task[t].way
      /\ s.pc = "enter" /\ s.step = task[t].step /\ s.missed = task[t].missed
    BY <1>1 DEF TaskStates
<1>3. task' = [task EXCEPT ![t] = s]
    BY DEF Begin, TypeOK
<1> HIDE DEF s
<1> QED
    BY <1>2, <1>3, OneMoves DEF Begin

LEMMA PassMoves ==
    ASSUME TypeOK, NEW t \in Tasks, Pass(t)
    PROVE  /\ Moved(t) /\ task[t].pc = "enter" /\ task'[t].pc = "enter" /\ OnTheWay(t)
           /\ task'[t].step = task[t].step + 1
           /\ task'[t].missed = task[t].missed \union {task[t].step}
<1> DEFINE s == [task[t] EXCEPT !.missed = @ \union {task[t].step}, !.step = @ + 1]
<1>1. task[t] \in TaskStates
    BY DEF TypeOK
<1>2. /\ s \in TaskStates /\ s.way = task[t].way /\ s.pc = task[t].pc
      /\ s.step = task[t].step + 1 /\ s.missed = task[t].missed \union {task[t].step}
  <2>1. task[t].step + 1 \in Nat \ {0} /\ task[t].missed \union {task[t].step} \subseteq Nat
    BY <1>1 DEF TaskStates
  <2> QED
    BY <1>1, <2>1 DEF TaskStates
<1>3. task' = [task EXCEPT ![t] = s]
    BY DEF Pass, TypeOK
<1> HIDE DEF s
<1> QED
    BY <1>2, <1>3, OneMoves DEF Pass

LEMMA DecideMoves ==
    ASSUME TypeOK, NEW t \in Tasks, Decide(t)
    PROVE  /\ Moved(t) /\ task[t].pc = "enter" /\ task'[t].pc = "decided" /\ OnTheWay(t)
           /\ task'[t].step = task[t].step /\ task'[t].missed = task[t].missed
           /\ task'[t].decision = Decision(Hook(t))
<1> DEFINE s == [task[t] EXCEPT !.pc = "decided", !.decision = Decision(Hook(t))]
<1>1. task[t] \in TaskStates
    BY DEF TypeOK
<1>2. /\ s \in TaskStates /\ s.way = task[t].way /\ s.pc = "decided"
      /\ s.step = task[t].step /\ s.missed = task[t].missed
      /\ s.decision = Decision(Hook(t))
    BY <1>1, DecisionTyped DEF TaskStates
<1>3. task' = [task EXCEPT ![t] = s]
    BY DEF Decide, TypeOK
<1> HIDE DEF s
<1> QED
    BY <1>2, <1>3, OneMoves DEF Decide

LEMMA ReserveMoves ==
    ASSUME TypeOK, NEW t \in Tasks, Reserve(t)
    PROVE  /\ Moved(t) /\ task[t].pc = "decided" /\ task'[t].pc = "leave"
           /\ task'[t].step = task[t].step /\ task'[t].missed = task[t].missed
           /\ task'[t].decision = task[t].decision
<1> DEFINE s == [task[t] EXCEPT !.pc = "leave"]
<1>1. task[t] \in TaskStates
    BY DEF TypeOK
<1>2. /\ s \in TaskStates /\ s.way = task[t].way /\ s.pc = "leave"
      /\ s.step = task[t].step /\ s.missed = task[t].missed /\ s.decision = task[t].decision
    BY <1>1 DEF TaskStates
<1>3. task' = [task EXCEPT ![t] = s]
    BY DEF Reserve, TypeOK
<1> HIDE DEF s
<1> QED
    BY <1>2, <1>3, OneMoves DEF Reserve

LEMMA LeaveProgramMoves ==
    ASSUME TypeOK, NEW t \in Tasks, LeaveProgram(t)
    PROVE  /\ Moved(t) /\ task[t].pc = "leave" /\ task'[t].missed = task[t].missed
           /\ IF task[t].decision = "BLOCK"
              THEN task'[t].pc = "refused" /\ task'[t].step = task[t].step
              ELSE task'[t].pc = "enter" /\ task'[t].step = task[t].step + 1
<1> DEFINE s == IF task[t].decision = "BLOCK" THEN [task[t] EXCEPT !.pc = "refused"]
                ELSE [task[t] EXCEPT !.pc = "enter", !.step = @ + 1]
<1>1. task[t] \in TaskStates
    BY DEF TypeOK
<1>2. /\ s \in TaskStates /\ s.way = task[t].way /\ s.missed = task[t].missed
      /\ IF task[t].decision = "BLOCK"
         THEN s.pc = "refused" /\ s.step = task[t].step
         ELSE s.pc = "enter" /\ s.step = task[t].step + 1
  <2>1. task[t].step + 1 \in Nat \ {0}
    BY <1>1 DEF TaskStates
  <2>2. CASE task[t].decision = "BLOCK"
    <3>1. s = [task[t] EXCEPT !.pc = "refused"]
      BY <2>2
    <3> QED
      BY <1>1, <2>2, <3>1 DEF TaskStates
  <2>3. CASE task[t].decision # "BLOCK"
    <3>1. s = [task[t] EXCEPT !.pc = "enter", !.step = @ + 1]
      BY <2>3
    <3> HIDE DEF s
    <3> QED
      BY <1>1, <2>1, <2>3, <3>1 DEF TaskStates
  <2> QED
    BY <2>2, <2>3
<1>3. task' = [task EXCEPT ![t] = s]
    BY DEF LeaveProgram, TypeOK
<1> HIDE DEF s
<1> QED
    BY <1>2, <1>3, OneMoves DEF LeaveProgram

LEMMA FinishMoves ==
    ASSUME TypeOK, NEW t \in Tasks, Finish(t)
    PROVE  /\ Moved(t) /\ task[t].pc = "enter" /\ task'[t].pc = "done" /\ ~OnTheWay(t)
           /\ task'[t].step = task[t].step /\ task'[t].missed = task[t].missed
<1> DEFINE s == [task[t] EXCEPT !.pc = "done"]
<1>1. task[t] \in TaskStates
    BY DEF TypeOK
<1>2. /\ s \in TaskStates /\ s.way = task[t].way /\ s.pc = "done"
      /\ s.step = task[t].step /\ s.missed = task[t].missed
    BY <1>1 DEF TaskStates
<1>3. task' = [task EXCEPT ![t] = s]
    BY DEF Finish, TypeOK
<1> HIDE DEF s
<1> QED
    BY <1>2, <1>3, OneMoves DEF Finish

\* What holds of the tasks when one has moved.
LEMMA MovedTyped ==
    ASSUME TypeOK, NEW t \in Tasks, Moved(t),
           task'[t].pc \in {"decided", "leave"} => OnTheWay(t)',
           ring' \in Seq(Records), Len(ring') <= RingSize, recorded' \in Seq(Events),
           UNCHANGED others
    PROVE  TypeOK'
<1>1. \A u \in Tasks : task'[u].pc \in {"decided", "leave"} => OnTheWay(u)'
    BY DEF TypeOK, Moved, OnTheWay
<1> QED
    BY <1>1 DEF TypeOK, Moved, others

\* The event a task tells is one of its program.
LEMMA ToldTyped ==
    ASSUME TypeOK, NEW t \in Tasks
    PROVE  Told(t) \in Events
    BY DEF TypeOK, TaskStates, Told, Event, Events

LEMMA ReserveTyped ==
    ASSUME TypeOK, NEW t \in Tasks, Reserve(t)
    PROVE  TypeOK'
<1>1. Reserved(t) \in Records
    BY DEF Reserved, Records
<1>2. ring \in Seq(Records) /\ Len(ring) <= RingSize /\ recorded \in Seq(Events)
      /\ RingSize \in Nat /\ UNCHANGED others
    BY SizesAssumption DEF TypeOK, Reserve
<1>3. ring' \in Seq(Records) /\ Len(ring') <= RingSize /\ recorded' \in Seq(Events)
  <2>1. CASE Len(ring) = RingSize
    BY <2>1, <1>2 DEF Reserve
  <2>2. CASE Len(ring) # RingSize
    <3>1. ring' = Append(ring, Reserved(t)) /\ recorded' = Append(recorded, Told(t))
      BY <2>2 DEF Reserve
    <3> QED
      BY <3>1, <2>2, <1>1, <1>2, ToldTyped
  <2> QED
    BY <2>1, <2>2
<1>4. Moved(t) /\ OnTheWay(t)'
    BY ReserveMoves DEF TypeOK, Moved, OnTheWay
<1> QED
    BY <1>2, <1>3, <1>4, MovedTyped

\* How a program leaves the ring buffer: its record is filled in.
LEMMA LeaveProgramRing ==
    ASSUME TypeOK, NEW t \in Tasks, LeaveProgram(t)
    PROVE  /\ ring' \in Seq(Records) /\ Len(ring') = Len(ring)
           /\ \A i \in 1..Len(ring) :
                 IF ring[i].by = t /\ ~ring[i].ready
                 THEN ring'[i] = [by |-> t, ready |-> TRUE, event |-> Told(t)]
                 ELSE ring'[i] = ring[i]
<1> DEFINE filled(rec) == IF rec.by = t /\ ~rec.ready
                          THEN [rec EXCEPT !.ready = TRUE, !.event = Told(t)] ELSE rec
<1>1. ring \in Seq(Records) /\ DOMAIN ring = 1..Len(ring)
    BY DEF TypeOK
<1>2. ring' = [i \in DOMAIN ring |-> filled(ring[i])]
    BY DEF LeaveProgram
<1>3. \A i \in 1..Len(ring) : ring[i] \in Records /\ ring'[i] = filled(ring[i])
  <2>1. \A i \in 1..Len(ring) : ring[i] \in Records
    BY <1>1
  <2>2. \A i \in DOMAIN ring : ring'[i] = filled(ring[i])
    BY <1>2, Zenon
  <2> QED
    BY <1>1, <2>1, <2>2
<1>4. \A i \in 1..Len(ring) :
         IF ring[i].by = t /\ ~ring[i].ready
         THEN ring'[i] = [by |-> t, ready |-> TRUE, event |-> Told(t)]
         ELSE ring'[i] = ring[i]
    BY <1>3 DEF Records
<1>5. \A i \in 1..Len(ring) : ring'[i] \in Records
    BY <1>3, <1>4, ToldTyped DEF Records
<1>6. ring' \in Seq(Records) /\ Len(ring') = Len(ring)
  <2>1. Len(ring) \in Nat
    BY <1>1
  <2>2. ring' \in [1..Len(ring) -> Records]
    <3>1. ring' = [i \in 1..Len(ring) |-> ring'[i]]
      BY <1>1, <1>2, Zenon
    <3> QED
      BY <3>1, <1>5, Zenon
  <2>3. ring' \in Seq(Records)
    BY <2>1, <2>2, SeqDef
  <2>4. DOMAIN ring' = 1..Len(ring')  /\ Len(ring') \in Nat
    BY <2>3
  <2> QED
    BY <2>1, <2>2, <2>3, <2>4
<1> QED
    BY <1>4, <1>6

LEMMA TaskTyped ==
    ASSUME TypeOK, NEW t \in Tasks, Begin(t) \/ Kernel(t)
    PROVE  TypeOK'
<1>1. ring \in Seq(Records) /\ Len(ring) <= RingSize /\ recorded \in Seq(Events)
    BY DEF TypeOK
<1>2. CASE Begin(t)
    BY <1>1, <1>2, BeginMoves, MovedTyped DEF Begin
<1>3. CASE Pass(t)
    BY <1>1, <1>3, PassMoves, MovedTyped DEF Pass
<1>4. CASE Decide(t)
  <2>1. OnTheWay(t)'
    BY <1>4, DecideMoves DEF Moved, OnTheWay
  <2> QED
    BY <1>1, <1>4, <2>1, DecideMoves, MovedTyped DEF Decide
<1>5. CASE Reserve(t)
    BY <1>5, ReserveTyped
<1>6. CASE LeaveProgram(t)
  <2>1. Moved(t) /\ task'[t].pc \in {"refused", "enter"}
    BY <1>6, LeaveProgramMoves
  <2>2. UNCHANGED <<others, recorded>>
    BY <1>6 DEF LeaveProgram
  <2> QED
    BY <1>1, <1>6, <2>1, <2>2, LeaveProgramRing, MovedTyped
<1>7. CASE Finish(t)
    BY <1>1, <1>7, FinishMoves, MovedTyped DEF Finish
<1> QED
    BY <1>2, <1>3, <1>4, <1>5, <1>6, <1>7 DEF Kernel

LEMMA InitTyped == Init => TypeOK
<1> SUFFICES ASSUME Init PROVE TypeOK
    OBVIOUS
<1>1. PICK work \in Works : task = [t \in Tasks |-> Idle(work[t])]
    BY DEF Init
<1>2. work \in [Tasks -> Ways]
    BY WorksAssumption
<1>3. \A t \in Tasks : Idle(work[t]) \in TaskStates /\ Idle(work[t]).pc = "idle"
    BY <1>2 DEF Idle, TaskStates, Decisions
<1>4. IsFiniteSet({}) /\ Cardinality({}) = 0 /\ MaxPaths \in Nat /\ RingSize \in Nat
    BY FS_EmptySet, SizesAssumption
<1>5. maps.paths = {} /\ Len(ring) = 0
    BY DEF Init
<1>6. /\ task \in [Tasks -> TaskStates]
      /\ \A t \in Tasks : task[t].pc \in {"decided", "leave"} => OnTheWay(t)
    BY <1>1, <1>3
<1>7. loader \in LoaderStates /\ maps \in MapStates
    BY DEF Init, LoaderStates, MapStates, Places
<1>8. ring \in Seq(Records) /\ recorded \in Seq(Events) /\ printed \in Seq(Events \union {NoEvent})
    BY DEF Init
<1>9. mode \in Modes /\ policy \in Policies /\ attached \subseteq Range(Programs) /\ exiting \in BOOLEAN
    BY DEF Init
<1> QED
    BY <1>4, <1>5, <1>6, <1>7, <1>8, <1>9 DEF TypeOK, LoaderStates, MapStates, Places

LEMMA StepTyped == TypeOK /\ [Next]_vars => TypeOK'
<1> SUFFICES ASSUME TypeOK, [Next]_vars PROVE TypeOK'
    OBVIOUS
<1>1. CASE UNCHANGED vars
    BY <1>1 DEF vars, kernel, TypeOK, OnTheWay
<1> QED
    BY <1>1, LoadTyped, LoopTyped, PollFailsTyped, SignalTyped, TaskTyped DEF Next

\* Every step keeps the loader, the maps, the ring buffer, the tasks and the
\* events of their types, and the ring buffer and the map of listed paths
\* within their sizes (runeguard.bpf.c:9-33, runeguard_loader.c:144-163).
THEOREM TypeCorrect == Spec => []TypeOK
<1> QED
    BY InitTyped, StepTyped, PTL DEF Spec
-----------------------------------------------------------------------------
(* The start: the maps hold the whole policy before anything is attached.  *)

Whole == /\ maps.enforce = (mode = "enforce")
         /\ maps.execs = DefaultExecs /\ maps.paths = Listed

\* The prefixes of the lines before the nth.
PrefixesBefore(n) == {policy[i] : i \in 1..n - 1}

Early == {"cli", "open", "flag", "seed", "paths"}
Active == {"attach", "ring", "check", "poll", "wait", "consume"}

StartInv ==
    /\ loader.pc \in Early => attached = {}
    /\ loader.pc \in Early \ {"paths"} => loader.line = 1 /\ maps.paths = {}
    /\ loader.pc \in {"seed", "paths"} => maps.enforce = (mode = "enforce")
    /\ loader.pc = "paths" =>
          /\ maps.execs = DefaultExecs /\ loader.line <= Len(policy) + 1
          /\ maps.paths = PrefixesBefore(loader.line) \ {<<>>}
    /\ loader.pc \in Active \/ attached # {} => Whole
    /\ loader.pc \in {"detach", "ended"} => loader.err # 0 \/ Whole
    /\ loader.pc = "ended" => attached = {}

LEMMA WholeStays ==
    ASSUME UNCHANGED <<mode, policy, maps>>
    PROVE  Whole' = Whole
    BY DEF Whole, Listed, Range

LEMMA PolicyTyped ==
    ASSUME TypeOK
    PROVE  policy \in Seq(Seq(STRING)) /\ DOMAIN policy = 1..Len(policy) /\ Len(policy) \in Nat
<1>1. policy \in Seq(Seq(STRING))
    BY PoliciesAssumption DEF TypeOK
<1> QED
    BY <1>1

\* When the last line is read, the lines before are the whole policy.
LEMMA AllLines ==
    ASSUME TypeOK, loader.line \notin DOMAIN policy, loader.line <= Len(policy) + 1
    PROVE  PrefixesBefore(loader.line) \ {<<>>} = Listed
<1>1. loader.line - 1 = Len(policy)
    BY PolicyTyped DEF TypeOK
<1>2. PrefixesBefore(loader.line) = {policy[i] : i \in 1..Len(policy)}
    BY <1>1 DEF PrefixesBefore
<1>3. Range(policy) = {policy[i] : i \in 1..Len(policy)}
    BY PolicyTyped DEF Range
<1> QED
    BY <1>2, <1>3 DEF Listed

LEMMA OneMoreLine ==
    ASSUME TypeOK, loader.line \in DOMAIN policy
    PROVE  /\ PrefixesBefore(loader.line + 1) =
                 PrefixesBefore(loader.line) \union {policy[loader.line]}
           /\ loader.line + 1 <= Len(policy) + 1
<1>1. loader.line \in 1..Len(policy) /\ Len(policy) \in Nat
    BY PolicyTyped
<1>2. 1..(loader.line + 1) - 1 = (1..loader.line - 1) \union {loader.line}
    BY <1>1
<1> QED
    BY <1>1, <1>2 DEF PrefixesBefore

LEMMA LoadLineStart ==
    ASSUME TypeOK, StartInv, LoadLine
    PROVE  StartInv'
<1> DEFINE prefix == policy[loader.line]
<1>1. /\ loader \in LoaderStates /\ maps \in MapStates
      /\ loader.pc = "paths" /\ attached = {} /\ loader.line \in DOMAIN policy
    BY DEF TypeOK, LoaderStates, MapStates, Places, StartInv, Early, LoadLine, At
<1>2. CASE prefix # <<>> /\ (Len(prefix) > TextSize \/ Full(prefix))
  <2>1. Fail /\ maps' = maps
    BY <1>2 DEF LoadLine
  <2>2. loader'.pc = "detach" /\ loader'.err = -1 /\ attached' = {}
    BY <2>1, <1>1 DEF Fail, LoaderStates, LoadLine
  <2> QED
    BY <2>2 DEF StartInv, Early, Active
<1>3. CASE ~(prefix # <<>> /\ (Len(prefix) > TextSize \/ Full(prefix)))
  <2>1. /\ loader' = [loader EXCEPT !.line = @ + 1]
        /\ maps' = [maps EXCEPT !.paths = @ \union ({prefix} \ {<<>>})]
    BY <1>3 DEF LoadLine
  <2>2. loader'.pc = "paths" /\ loader'.line = loader.line + 1 /\ attached' = {}
    BY <2>1, <1>1 DEF LoaderStates, LoadLine
  <2>3. /\ maps'.enforce = maps.enforce /\ maps'.execs = maps.execs
        /\ maps'.paths = maps.paths \union ({prefix} \ {<<>>})
    BY <2>1, <1>1 DEF MapStates
  <2>4. policy' = policy /\ mode' = mode
    BY DEF LoadLine
  <2>5. /\ maps'.enforce = (mode' = "enforce") /\ maps'.execs = DefaultExecs
        /\ maps.paths = PrefixesBefore(loader.line) \ {<<>>}
    BY <2>3, <2>4, <1>1 DEF StartInv
  <2>6. PrefixesBefore(loader.line)' = PrefixesBefore(loader.line) \union {prefix}
    <3>1. PrefixesBefore(loader.line)' = PrefixesBefore(loader.line + 1)
      BY <2>2, <2>4 DEF PrefixesBefore
    <3> QED
      BY <3>1, <1>1, OneMoreLine
  <2>7. maps'.paths = PrefixesBefore(loader.line)' \ {<<>>}
    BY <2>3, <2>5, <2>6
  <2>8. loader'.line <= Len(policy') + 1
    BY <2>2, <2>4, <1>1, OneMoreLine
  <2> QED
    BY <2>2, <2>5, <2>7, <2>8 DEF StartInv, Early, Active
<1> QED
    BY <1>2, <1>3

\* A step of the start that fails, and one of the loader or of a task that
\* leaves the maps alone.
LEMMA FailStart ==
    ASSUME TypeOK, StartInv, Fail \/ Refuse, loader.pc \notin {"cli", "open"} => Fail,
           loader.pc # "ended",
           loader.pc \in {"cli", "open"} => attached = {},
           UNCHANGED <<mode, policy, maps, attached>>
    PROVE  StartInv'
<1>1. loader \in LoaderStates
    BY DEF TypeOK, LoaderStates, Places
<1>2. /\ loader'.pc \in {"detach", "ended"} /\ loader'.err \in {-1, 1}
      /\ loader'.pc = "ended" => loader.pc \in {"cli", "open"}
    BY <1>1 DEF Fail, Refuse, LoaderStates
<1>3. attached' # {} => Whole'
    BY WholeStays DEF StartInv
<1> QED
    BY <1>2, <1>3 DEF StartInv, Early, Active

LEMMA PlaceStart ==
    ASSUME TypeOK, StartInv, UNCHANGED <<mode, policy, maps>>,
           loader.pc \in Active, loader'.pc \in Active \union {"detach"}
    PROVE  StartInv'
<1>1. Whole'
    BY WholeStays DEF StartInv
<1> QED
    BY <1>1 DEF StartInv, Early, Active

LEMMA LoadStart ==
    ASSUME TypeOK, StartInv, Load
    PROVE  StartInv'
<1>0. loader \in LoaderStates /\ maps \in MapStates
    BY DEF TypeOK, LoaderStates, MapStates, Places
<1>1. CASE Spawn
  <2>1. loader.pc = "cli" /\ attached = {} /\ UNCHANGED <<mode, policy, maps, attached>>
    BY <1>1 DEF Spawn, At, StartInv, Early
  <2>2. CASE Goto("open")
    <3>1. loader'.pc = "open" /\ loader'.line = loader.line
      BY <2>2, <1>0 DEF Goto, LoaderStates
    <3> QED
      BY <2>1, <3>1 DEF StartInv, Early, Active
  <2> QED
    BY <1>1, <2>1, <2>2, FailStart DEF Spawn
<1>2. CASE OpenAndLoad
  <2>1. loader.pc = "open" /\ attached = {} /\ UNCHANGED <<mode, policy, maps, attached>>
    BY <1>2 DEF OpenAndLoad, At, StartInv, Early
  <2>2. CASE Goto("flag")
    <3>1. loader'.pc = "flag" /\ loader'.line = loader.line
      BY <2>2, <1>0 DEF Goto, LoaderStates
    <3> QED
      BY <2>1, <3>1 DEF StartInv, Early, Active
  <2> QED
    BY <1>2, <2>1, <2>2, FailStart DEF OpenAndLoad
<1>3. CASE SetFlag
  <2>1. loader.pc = "flag" /\ attached = {} /\ UNCHANGED <<mode, policy, attached>>
    BY <1>3 DEF SetFlag, At, StartInv, Early
  <2>2. CASE Goto("seed") /\ maps' = [maps EXCEPT !.enforce = mode = "enforce"]
    <3>1. loader'.pc = "seed" /\ loader'.line = loader.line
      BY <2>2, <1>0 DEF Goto, LoaderStates
    <3>2. maps'.paths = maps.paths
      BY <2>2, <1>0 DEF MapStates
    <3>3. maps'.enforce = (mode' = "enforce")
      BY <2>1, <2>2, <1>0 DEF MapStates
    <3> QED
      BY <2>1, <3>1, <3>2, <3>3 DEF StartInv, Early, Active
  <2> QED
    BY <1>3, <2>1, <2>2, FailStart DEF SetFlag
<1>4. CASE SeedExecs
  <2>1. loader.pc = "seed" /\ attached = {} /\ UNCHANGED <<mode, policy, attached>>
    BY <1>4 DEF SeedExecs, At, StartInv, Early
  <2>2. CASE Goto("paths") /\ maps' = [maps EXCEPT !.execs = DefaultExecs]
    <3>1. loader'.pc = "paths" /\ loader'.line = 1
      BY <2>1, <2>2, <1>0 DEF Goto, LoaderStates, StartInv, Early
    <3>2. maps'.paths = {} /\ maps'.execs = DefaultExecs /\ maps'.enforce = maps.enforce
      BY <2>1, <2>2, <1>0 DEF MapStates, StartInv, Early
    <3>3. maps'.enforce = (mode' = "enforce")
      BY <2>1, <3>2 DEF StartInv
    <3>4. PrefixesBefore(loader.line)' = {}
      BY <3>1 DEF PrefixesBefore
    <3>5. loader'.line <= Len(policy') + 1
      BY <3>1, <2>1, PolicyTyped
    <3> QED
      BY <2>1, <3>1, <3>2, <3>3, <3>4, <3>5 DEF StartInv, Early, Active
  <2> QED
    BY <1>4, <2>1, <2>2, FailStart DEF SeedExecs
<1>5. CASE LoadLine
    BY <1>5, LoadLineStart
<1>6. CASE PathsLoaded
  <2>1. loader.pc = "paths" /\ attached = {} /\ UNCHANGED <<mode, policy, maps, attached>>
    BY <1>6 DEF PathsLoaded, At, StartInv, Early
  <2>2. CASE Goto("attach")
    <3>1. loader'.pc = "attach"
      BY <2>2, <1>0 DEF Goto, LoaderStates
    <3>2. maps.paths = Listed
      BY <1>6, <2>1, AllLines DEF PathsLoaded, StartInv
    <3>3. Whole
      BY <2>1, <3>2 DEF StartInv, Whole
    <3>4. Whole'
      BY <2>1, <3>3, WholeStays
    <3> QED
      BY <3>1, <3>4 DEF StartInv, Early, Active
  <2> QED
    BY <1>6, <2>1, <2>2, FailStart DEF PathsLoaded
<1>7. CASE AttachNext
  <2>1. loader.pc = "attach" /\ loader'.pc \in {"attach", "ring", "detach"}
    BY <1>7, <1>0 DEF AttachNext, At, Goto, Fail, LoaderStates
  <2> QED
    BY <1>7, <2>1, PlaceStart DEF AttachNext, Active
<1>8. CASE NewRingBuffer
  <2>1. loader.pc = "ring" /\ loader'.pc \in {"check", "detach"}
    BY <1>8, <1>0 DEF NewRingBuffer, At, Goto, Fail, LoaderStates
  <2> QED
    BY <1>8, <2>1, PlaceStart DEF NewRingBuffer, Active
<1> QED
    BY <1>1, <1>2, <1>3, <1>4, <1>5, <1>6, <1>7, <1>8 DEF Load

LEMMA LoopStart ==
    ASSUME TypeOK, StartInv, Loop \/ PollFails \/ Signal
    PROVE  StartInv'
<1>0. loader \in LoaderStates
    BY DEF TypeOK, LoaderStates, Places
<1>1. CASE CheckExiting \/ EnterPoll \/ Wait \/ PollFails \/ HandleEvent \/ PollReturns
  <2>1. loader.pc \in {"check", "poll", "wait", "consume"}
    BY <1>1 DEF CheckExiting, EnterPoll, Wait, PollFails, HandleEvent, PollReturns, At
  <2>2. loader'.pc \in {"check", "poll", "wait", "consume", "detach"}
    BY <1>1, <1>0, <2>1
       DEF CheckExiting, EnterPoll, Wait, PollFails, HandleEvent, PollReturns, Goto, Fail,
           LoaderStates
  <2> QED
    BY <1>1, <2>1, <2>2, PlaceStart
       DEF Active, CheckExiting, EnterPoll, Wait, PollFails, HandleEvent, PollReturns
<1>2. CASE Detach
  <2>1. /\ loader.pc = "detach" /\ UNCHANGED <<mode, policy, maps>>
        /\ loader'.pc \in {"detach", "ended"} /\ loader'.err = loader.err
        /\ attached' \subseteq attached /\ (loader'.pc = "ended" => attached' = {})
    BY <1>2, <1>0 DEF Detach, At, Goto, LoaderStates
  <2>2. Whole' = Whole
    BY <2>1, WholeStays
  <2> QED
    BY <2>1, <2>2 DEF StartInv, Early, Active
<1>3. CASE Signal
  <2>1. UNCHANGED <<mode, policy, maps, attached>>
    BY <1>3 DEF Signal
  <2>2. CASE loader.pc = "wait" /\ ~Ready
    <3>1. loader'.pc = "detach"
      BY <1>3, <2>2, <1>0 DEF Signal, At, LoaderStates
    <3> QED
      BY <2>1, <2>2, <3>1, PlaceStart DEF Active
  <2>3. CASE UNCHANGED loader
    <3>1. Whole' = Whole /\ PrefixesBefore(loader.line)' = PrefixesBefore(loader.line)
      BY <2>1, <2>3, WholeStays DEF PrefixesBefore
    <3> QED
      BY <2>1, <2>3, <3>1 DEF StartInv
  <2> QED
    BY <1>3, <2>2, <2>3 DEF Signal, At
<1> QED
    BY <1>1, <1>2, <1>3 DEF Loop

LEMMA InitStart == Init => StartInv
    BY DEF Init, StartInv, Early, Active

\* What leaves the loader alone leaves its start alone.
LEMMA IdleStart ==
    ASSUME StartInv, UNCHANGED <<mode, policy, loader, maps, attached>>
    PROVE  StartInv'
<1>1. Whole' = Whole /\ PrefixesBefore(loader.line)' = PrefixesBefore(loader.line)
    BY WholeStays DEF PrefixesBefore
<1> QED
    BY <1>1 DEF StartInv

LEMMA TaskLeavesLoader ==
    ASSUME NEW t \in Tasks, Begin(t) \/ Kernel(t)
    PROVE  UNCHANGED <<mode, policy, loader, maps, attached, exiting, printed>>
    BY DEF Begin, Kernel, Pass, Decide, Reserve, LeaveProgram, Finish, others

LEMMA StepStart == TypeOK /\ StartInv /\ [Next]_vars => StartInv'
<1> SUFFICES ASSUME TypeOK, StartInv, [Next]_vars PROVE StartInv'
    OBVIOUS
<1>1. ASSUME NEW t \in Tasks, Begin(t) \/ Kernel(t) PROVE StartInv'
    BY <1>1, TaskLeavesLoader, IdleStart
<1>2. CASE UNCHANGED vars
    BY <1>2, IdleStart DEF vars
<1> QED
    BY <1>1, <1>2, LoadStart, LoopStart DEF Next

\* Whatever the policy and whichever step fails: nothing is attached, active
\* or reported as a success before the whole policy is in the maps
\* (runeguard_loader.c:252-282, 308-309).
THEOREM StartIsWhole == Spec => []StartTells
<1>1. TypeOK /\ StartInv => StartTells
  <2> SUFFICES ASSUME TypeOK, StartInv PROVE StartTells
    OBVIOUS
  <2>1. loader.pc = "ended" /\ Status = 0 => Whole
    BY DEF Status, StartInv, TypeOK
  <2>2. attached # {} \/ loader.pc = "check" => Whole
    BY DEF StartInv, Active
  <2> QED
    BY <2>1, <2>2 DEF StartTells, Whole, At
<1> QED
    BY <1>1, InitStart, StepStart, TypeCorrect, StepTyped, InitTyped, PTL DEF Spec
-----------------------------------------------------------------------------
(* What the programs decide from the maps, and what the properties ask.    *)

LEMMA MatchesIsPrefix ==
    ASSUME NEW S, NEW prefix \in Seq(S), NEW path \in Seq(S)
    PROVE  Matches(prefix, path) <=> IsPrefix(prefix, path)
<1> DEFINE n == Len(prefix)
<1>1. /\ n \in Nat /\ Len(path) \in Nat
      /\ DOMAIN prefix = 1..n /\ DOMAIN path = 1..Len(path)
    OBVIOUS
<1>2. SubSeq(prefix, 1, n) = prefix
    OBVIOUS
<1>3. ASSUME Matches(prefix, path) PROVE IsPrefix(prefix, path)
  <2>1. \A i \in 1..n : i \in 1..Len(path) /\ prefix[i] = path[i]
    BY <1>1, <1>3 DEF Matches
  <2>2. n <= Len(path)
    <3>1. CASE n = 0
      BY <3>1, <1>1
    <3>2. CASE n # 0
      BY <3>2, <1>1, <2>1
    <3> QED
      BY <3>1, <3>2
  <2>3. /\ SubSeq(path, 1, n) \in Seq(S) /\ Len(SubSeq(path, 1, n)) = n
        /\ \A i \in 1..n : SubSeq(path, 1, n)[i] = path[i]
    BY <1>1, <2>2
  <2>4. SubSeq(path, 1, n) = prefix
    BY <2>1, <2>3, SeqEqual
  <2> QED
    BY <1>2, <2>2, <2>4 DEF IsPrefix
<1>4. ASSUME IsPrefix(prefix, path) PROVE Matches(prefix, path)
  <2>1. n <= Len(path) /\ prefix = SubSeq(path, 1, n)
    BY <1>2, <1>4 DEF IsPrefix
  <2>2. \A i \in 1..n : SubSeq(path, 1, n)[i] = path[i]
    BY <1>1, <2>1
  <2>3. \A i \in 1..n : prefix[i] = path[i]
    BY <2>1, <2>2
  <2> QED
    BY <1>1, <2>1, <2>3 DEF Matches
<1> QED
    BY <1>3, <1>4

\* The last name begins behind the last slash, or where the path does.
LEMMA BasenameBegins ==
    ASSUME NEW S, NEW path \in Seq(S)
    PROVE  \E start \in 1..Len(path) + 1 :
              /\ Basename(path) = SubSeq(path, start, Len(path))
              /\ \A j \in start..Len(path) : path[j] # "/"
              /\ start = 1 \/ path[start - 1] = "/"
<1> DEFINE starts == {i \in 1..Len(path) + 1 : \A j \in i..Len(path) : path[j] # "/"}
           start == CHOOSE i \in starts : \A j \in starts : i <= j
<1>1. Len(path) \in Nat
    OBVIOUS
<1>2. Len(path) + 1 \in starts /\ starts \subseteq Nat
    BY <1>1
<1>3. \E i \in starts : \A j \in starts : i <= j
  <2> HIDE DEF starts
  <2>1. starts \subseteq Nat /\ starts # {}
    BY <1>2
  <2>2. \E i \in starts : \A j \in starts : ~(<<j, i>> \in OpToRel(<, Nat))
    BY <2>1, NatLessThanWellFounded, WFMin, Zenon
  <2>3. PICK i \in starts : \A j \in starts : ~(<<j, i>> \in OpToRel(<, Nat))
    BY <2>2
  <2>4. ASSUME NEW j \in starts PROVE i <= j
    <3>1. i \in Nat /\ j \in Nat
      BY <2>1
    <3>2. ~(j < i)
      BY <2>3, <3>1 DEF OpToRel
    <3> QED
      BY <3>1, <3>2
  <2> QED
    BY <2>4
<1>4. start \in starts /\ \A j \in starts : start <= j
    BY <1>3
<1>5. Basename(path) = SubSeq(path, start, Len(path))
    BY DEF Basename
<1> HIDE DEF start
<1>6. start = 1 \/ path[start - 1] = "/"
  <2>1. start \in 1..Len(path) + 1 /\ \A j \in start..Len(path) : path[j] # "/"
    BY <1>4
  <2>2. CASE start # 1 /\ path[start - 1] # "/"
    <3>1. start - 1 \in 1..Len(path) + 1
      BY <1>1, <2>1, <2>2
    <3>2. \A j \in start - 1..Len(path) : j = start - 1 \/ j \in start..Len(path)
      BY <1>1, <2>1
    <3>3. start - 1 \in starts
      BY <2>1, <2>2, <3>1, <3>2
    <3> QED
      BY <1>1, <1>4, <2>1, <3>3
  <2> QED
    BY <2>2
<1>7. start \in 1..Len(path) + 1 /\ \A j \in start..Len(path) : path[j] # "/"
    BY <1>4
<1> QED
    BY <1>5, <1>6, <1>7

LEMMA ReverseOf ==
    ASSUME NEW S, NEW s \in Seq(S)
    PROVE  /\ Reverse(s) \in Seq(S) /\ Len(Reverse(s)) = Len(s)
           /\ \A i \in 1..Len(s) : Reverse(s)[i] = s[Len(s) - i + 1]
<1>1. Len(s) \in Nat /\ \A i \in 1..Len(s) : s[i] \in S
    OBVIOUS
<1>2. \A i \in 1..Len(s) : Reverse(s)[i] = s[Len(s) - i + 1]
    BY DEF Reverse
<1>3. \A i \in 1..Len(s) : Len(s) - i + 1 \in 1..Len(s)
    BY <1>1
<1>4. Reverse(s) \in [1..Len(s) -> S]
    BY <1>1, <1>3 DEF Reverse
<1>5. Reverse(s) \in Seq(S) /\ DOMAIN Reverse(s) = 1..Len(s)
    BY <1>1, <1>4, SeqDef
<1>6. DOMAIN Reverse(s) = 1..Len(Reverse(s)) /\ Len(Reverse(s)) \in Nat
    BY <1>5
<1> QED
    BY <1>1, <1>2, <1>5, <1>6

\* A path that ends in a slash and a name.
LEMMA EndsInName ==
    ASSUME NEW S, NEW path \in Seq(S), NEW x \in S, "/" \in S
    PROVE  IsSuffix(<<"/">> \o <<x>>, path) <=>
              Len(path) >= 2 /\ path[Len(path)] = x /\ path[Len(path) - 1] = "/"
<1> DEFINE s == <<"/", x>>
           n == Len(path)
<1>1. /\ <<"/">> \o <<x>> = s /\ s \in Seq(S) /\ Len(s) = 2
      /\ s[1] = "/" /\ s[2] = x /\ n \in Nat
  <2>1. s \in Seq(S) /\ Len(s) = 2 /\ s[1] = "/" /\ s[2] = x /\ n \in Nat
    OBVIOUS
  <2>2. /\ <<"/">> \in Seq(S) /\ <<x>> \in Seq(S)
        /\ Len(<<"/">>) = 1 /\ Len(<<x>>) = 1 /\ <<"/">>[1] = "/" /\ <<x>>[1] = x
    OBVIOUS
  <2> DEFINE c == <<"/">> \o <<x>>
  <2>3. /\ c \in Seq(S) /\ Len(c) = 2 /\ c[1] = "/" /\ c[2] = x
    BY <2>2, ConcatProperties
  <2> HIDE DEF s, c
  <2>4. \A i \in 1..Len(c) : c[i] = s[i]
    BY <2>1, <2>3
  <2>5. c = s
    BY <2>1, <2>3, <2>4, SeqEqual
  <2> QED
    BY <2>1, <2>5 DEF c
<1> HIDE DEF s
<1>2. /\ Reverse(s) \in Seq(S) /\ Len(Reverse(s)) = 2
      /\ Reverse(s)[1] = x /\ Reverse(s)[2] = "/"
    BY <1>1, ReverseOf
<1>3. Reverse(path) \in Seq(S) /\ Len(Reverse(path)) = n
    BY ReverseOf
<1>4. n >= 2 => Reverse(path)[1] = path[n] /\ Reverse(path)[2] = path[n - 1]
  <2> SUFFICES ASSUME n >= 2
               PROVE  Reverse(path)[1] = path[n] /\ Reverse(path)[2] = path[n - 1]
    OBVIOUS
  <2>1. 1 \in 1..n /\ 2 \in 1..n /\ n - 1 + 1 = n /\ n - 2 + 1 = n - 1
    BY <1>1
  <2>2. Reverse(path)[1] = path[n - 1 + 1] /\ Reverse(path)[2] = path[n - 2 + 1]
    BY <2>1, ReverseOf
  <2> QED
    BY <2>1, <2>2
<1>5. IsSuffix(s, path) <=> Matches(Reverse(s), Reverse(path))
    BY <1>2, <1>3, MatchesIsPrefix DEF IsSuffix
<1>6. DOMAIN Reverse(s) = {1, 2} /\ DOMAIN Reverse(path) = 1..n
    BY <1>2, <1>3
<1>7. Matches(Reverse(s), Reverse(path)) <=>
         /\ 1 \in 1..n /\ Reverse(path)[1] = x
         /\ 2 \in 1..n /\ Reverse(path)[2] = "/"
    BY <1>2, <1>6 DEF Matches
<1>8. n >= 2 <=> 1 \in 1..n /\ 2 \in 1..n
    BY <1>1
<1>9. Matches(Reverse(s), Reverse(path)) <=> n >= 2 /\ path[n] = x /\ path[n - 1] = "/"
    BY <1>4, <1>7, <1>8
<1> HIDE DEF n
<1>10. IsSuffix(<<"/">> \o <<x>>, path) <=> n >= 2 /\ path[n] = x /\ path[n - 1] = "/"
    BY <1>1, <1>5, <1>9
<1> QED
    BY <1>10 DEF n

LEMMA OneElement ==
    ASSUME NEW S, NEW x \in S, NEW q \in Seq(S), Len(q) = 1, q[1] = x
    PROVE  q = <<x>>
    OBVIOUS

LEMMA BasenameIsName ==
    ASSUME NEW S, NEW path \in Seq(S), NEW x \in S, "/" \in S, x # "/"
    PROVE  Basename(path) = <<x>> <=> path = <<x>> \/ IsSuffix(<<"/">> \o <<x>>, path)
<1> DEFINE n == Len(path)
<1>1. n \in Nat
    OBVIOUS
<1>2. PICK start \in 1..n + 1 :
         /\ Basename(path) = SubSeq(path, start, n)
         /\ \A j \in start..n : path[j] # "/"
         /\ start = 1 \/ path[start - 1] = "/"
    BY BasenameBegins
<1>3. /\ Len(SubSeq(path, start, n)) = n - start + 1
      /\ start <= n => SubSeq(path, start, n)[1] = path[start]
    BY <1>1
<1>4. <<x>> \in Seq(S) /\ Len(<<x>>) = 1 /\ <<x>>[1] = x
    OBVIOUS
<1>5. Basename(path) = <<x>> <=> start = n /\ path[n] = x
  <2>1. ASSUME Basename(path) = <<x>> PROVE start = n /\ path[n] = x
    <3>1. n - start + 1 = 1
      BY <2>1, <1>2, <1>3, <1>4
    <3>2. start = n
      BY <3>1, <1>1
    <3> QED
      BY <3>2, <2>1, <1>2, <1>3, <1>4
  <2>2. ASSUME start = n, path[n] = x PROVE Basename(path) = <<x>>
    <3>1. /\ SubSeq(path, n, n) \in Seq(S) /\ Len(SubSeq(path, n, n)) = 1
          /\ SubSeq(path, n, n)[1] = x
      BY <2>2, <1>1, <1>3
    <3>2. SubSeq(path, n, n) = <<x>>
      BY <3>1, OneElement
    <3> QED
      BY <3>2, <2>2, <1>2
  <2> QED
    BY <2>1, <2>2
<1>6. path = <<x>> <=> n = 1 /\ path[1] = x
  <2>1. ASSUME n = 1, path[1] = x PROVE path = <<x>>
    BY <2>1, OneElement
  <2> QED
    BY <2>1, <1>4
<1>7. IsSuffix(<<"/">> \o <<x>>, path) <=> n >= 2 /\ path[n] = x /\ path[n - 1] = "/"
    BY EndsInName
<1>8. ASSUME start = n, path[n] = x PROVE (n = 1 /\ path[1] = x) \/ (n >= 2 /\ path[n - 1] = "/")
    BY <1>8, <1>1, <1>2
<1>9. ASSUME n = 1, path[1] = x PROVE start = n
  <2>1. start = 1 \/ start = 2
    BY <1>9, <1>1
  <2> QED
    BY <2>1, <1>2, <1>9
<1>10. ASSUME n >= 2, path[n] = x, path[n - 1] = "/" PROVE start = n
  <2>1. n - 1 \notin start..n
    BY <1>2, <1>10
  <2>2. start = n \/ start = n + 1
    BY <2>1, <1>1, <1>10
  <2>3. start = n + 1 => path[n] = "/"
    BY <1>2, <1>1, <1>10
  <2> QED
    BY <2>2, <2>3, <1>10
<1> QED
    BY <1>5, <1>6, <1>7, <1>8, <1>9, <1>10

LEMMA BasenameBlocked ==
    ASSUME NEW path \in Seq(STRING)
    PROVE  Basename(path) \in DefaultExecs <=>
              \E n \in DefaultExecs : path = n \/ IsSuffix(<<"/">> \o n, path)
<1> DEFINE names == {"rm", "curl", "nc", "scp", "ssh"}
           S == STRING \union {"/"} \union names
<1>1. \A n \in DefaultExecs : \E x \in names : n = <<x>>
    BY Zenon DEF DefaultExecs
<1>2. "/" \in S /\ path \in Seq(S)
    BY SeqMonotonic
<1>3. \A x \in names : x \in S /\ x # "/"
    OBVIOUS
<1> HIDE DEF S, names
<1>4. ASSUME NEW n \in DefaultExecs
      PROVE  Basename(path) = n <=> path = n \/ IsSuffix(<<"/">> \o n, path)
  <2>1. PICK x \in names : n = <<x>>
    BY <1>1
  <2>2. x \in S /\ x # "/"
    BY <2>1, <1>3
  <2>3. Basename(path) = <<x>> <=> path = <<x>> \/ IsSuffix(<<"/">> \o <<x>>, path)
    BY <2>2, <1>2, BasenameIsName, Zenon
  <2> QED
    BY <2>1, <2>3
<1> QED
    BY <1>4
-----------------------------------------------------------------------------
(* What becomes of an operation.                                           *)

\* Whether the policy refuses what a program meets.
Refuses(hook) == mode = "enforce" /\ Forbidden(hook)

LEMMA HookTyped ==
    ASSUME TypeOK, NEW t \in Tasks, NEW i \in DOMAIN task[t].way
    PROVE  task[t].way[i].text \in Seq(STRING)
<1> DEFINE Hooks == [program : Range(Programs), text : Seq(STRING)]
           way == task[t].way
<1>1. way \in Seq(Hooks)
  <2>1. way \in Ways
    BY DEF TypeOK, TaskStates
  <2> QED
    BY <2>1, WaysAssumption
<1>2. way[i] \in Hooks
  <2>1. i \in DOMAIN way
    OBVIOUS
  <2> HIDE DEF Hooks, way
  <2> QED
    BY <1>1, <2>1
<1> QED
    BY <1>2

LEMMA PathRight ==
    ASSUME TypeOK, Whole, NEW path \in Seq(STRING)
    PROVE  PathIsBlocked(ReadPath(path)) <=> UnderListed(path)
<1>1. TextSize \in Nat /\ Len(path) \in Nat
    BY SizesAssumption
<1>2. Basename(path) \in Seq(STRING)
  <2>1. PICK start \in 1..Len(path) + 1 : Basename(path) = SubSeq(path, start, Len(path))
    BY BasenameBegins
  <2> QED
    BY <2>1, <1>1
<1>3. /\ ReadPath(path) \in Seq(STRING)
      /\ ReadPath(path) = IF Len(path) <= TextSize THEN path ELSE Basename(path)
    BY <1>1, <1>2 DEF ReadPath
<1>4. \A prefix \in Listed : prefix \in Seq(STRING)
    BY DEF Whole, TypeOK
<1>5. \A prefix \in Listed : Matches(prefix, ReadPath(path)) <=> IsPrefix(prefix, ReadPath(path))
    BY <1>3, <1>4, MatchesIsPrefix
<1> QED
    BY <1>3, <1>5 DEF PathIsBlocked, UnderListed, Whole

LEMMA NameRight ==
    ASSUME Whole, NEW name \in Seq(STRING)
    PROVE  Basename(ReadName(name)) \in maps.execs <=> BlockedName(name)
<1> DEFINE left == SubSeq(name, 1, IF Len(name) < TextSize THEN Len(name) ELSE TextSize)
<1>1. TextSize \in Nat /\ Len(name) \in Nat
    BY SizesAssumption
<1>2. left = ReadName(name)
  <2>1. CASE Len(name) > TextSize
    BY <1>1, <2>1 DEF ReadName
  <2>2. CASE Len(name) = TextSize
    BY <1>1, <2>2 DEF ReadName
  <2>3. CASE Len(name) < TextSize
    BY <1>1, <2>3 DEF ReadName
  <2> QED
    BY <1>1, <2>1, <2>2, <2>3
<1>3. left \in Seq(STRING)
    BY <1>1
<1>4. BlockedName(name) <=> \E n \in DefaultExecs : left = n \/ IsSuffix(<<"/">> \o n, left)
    BY DEF BlockedName
<1> HIDE DEF left
<1> QED
    BY <1>2, <1>3, <1>4, BasenameBlocked DEF Whole

LEMMA DecisionRight ==
    ASSUME TypeOK, Whole, NEW hook, hook.text \in Seq(STRING)
    PROVE  Decision(hook) = "BLOCK" <=> Refuses(hook)
<1>1. PathIsBlocked(ReadPath(hook.text)) <=> UnderListed(hook.text)
    BY PathRight
<1>2. Basename(ReadName(hook.text)) \in maps.execs <=> BlockedName(hook.text)
    BY NameRight
<1>3. maps.enforce <=> mode = "enforce"
    BY DEF Whole
<1>4. Blocks(hook) <=> Refuses(hook)
    BY <1>1, <1>2, <1>3 DEF Blocks, Refuses, Forbidden
<1>5. Decision(hook) = "BLOCK" <=> Blocks(hook)
    BY DEF Decision, Blocks
<1> QED
    BY <1>4, <1>5

LEMMA RefusesStays ==
    ASSUME UNCHANGED <<mode, policy>>
    PROVE  \A hook : Refuses(hook)' <=> Refuses(hook)
    BY DEF Refuses, Forbidden, UnderListed, BlockedName, Listed, Range

\* How far a task is with its operation tells which programs refused it: none
\* of those that ran before the one it is at.
Judged(s) ==
    /\ s.missed \subseteq 1..s.step - 1
    /\ \A i \in (1..s.step - 1) \ s.missed : i \in DOMAIN s.way /\ ~Refuses(s.way[i])
    /\ s.pc = "idle" => s.step = 1
    /\ s.pc \in {"decided", "leave"} => (s.decision = "BLOCK" <=> Refuses(s.way[s.step]))
    /\ s.pc = "refused" => s.step \in DOMAIN s.way /\ Refuses(s.way[s.step])
    /\ s.pc = "done" => s.step \notin DOMAIN s.way

\* An operation begins once the maps are whole.
Begun == Whole /\ loader.pc \in Active \union {"detach", "ended"}

JudgedInv == \A t \in Tasks : Judged(task[t]) /\ (task[t].pc # "idle" => Begun)

\* A step of the loader: what was whole when the operation began stays so.
LEMMA BegunStays ==
    ASSUME TypeOK, StartInv, Load \/ Loop \/ PollFails \/ Signal, Begun
    PROVE  Begun'
<1>0. loader \in LoaderStates
    BY DEF TypeOK, LoaderStates, Places
<1>1. CASE Load
  <2>1. AttachNext \/ NewRingBuffer
    BY <1>1 DEF Load, Begun, Active, At, Spawn, OpenAndLoad, SetFlag, SeedExecs, LoadLine,
                PathsLoaded
  <2>2. loader'.pc \in Active \union {"detach"} /\ UNCHANGED <<mode, policy, maps>>
    BY <2>1, <1>0 DEF AttachNext, NewRingBuffer, Goto, Fail, LoaderStates, At, Active
  <2> QED
    BY <2>2, WholeStays DEF Begun
<1>2. CASE Loop \/ PollFails
  <2>1. loader'.pc \in Active \union {"detach", "ended"} /\ UNCHANGED <<mode, policy, maps>>
    BY <1>2, <1>0 DEF Loop, CheckExiting, EnterPoll, Wait, PollFails, HandleEvent, PollReturns,
                      Detach, At, Goto, Fail, LoaderStates, Active
  <2> QED
    BY <2>1, WholeStays DEF Begun
<1>3. CASE Signal
  <2>1. loader'.pc \in Active \union {"detach", "ended"} /\ UNCHANGED <<mode, policy, maps>>
    BY <1>3, <1>0 DEF Signal, At, LoaderStates, Active, Begun
  <2> QED
    BY <2>1, WholeStays DEF Begun
<1> QED
    BY <1>1, <1>2, <1>3

LEMMA LoaderLeavesTasks ==
    ASSUME Load \/ Loop \/ PollFails \/ Signal
    PROVE  UNCHANGED <<mode, policy, task>>
    BY DEF Load, Spawn, OpenAndLoad, SetFlag, SeedExecs, LoadLine, PathsLoaded, AttachNext,
           NewRingBuffer, Loop, CheckExiting, EnterPoll, Wait, PollFails, HandleEvent,
           PollReturns, Detach, Signal, kernel

\* A step of one task.
LEMMA TaskJudged ==
    ASSUME TypeOK, JudgedInv, NEW t \in Tasks, Moved(t), Judged(task'[t]), Begun,
           UNCHANGED <<mode, policy, maps, loader>>
    PROVE  JudgedInv'
<1>1. Begun'
    BY WholeStays DEF Begun
<1>2. \A u \in Tasks : Judged(task'[u])
    BY DEF JudgedInv, Moved
<1>3. \A u \in Tasks : Judged(task[u])'
    BY <1>2, RefusesStays DEF Judged
<1> QED
    BY <1>1, <1>3 DEF JudgedInv

LEMMA KernelJudged ==
    ASSUME TypeOK, StartInv, JudgedInv, NEW t \in Tasks, Begin(t) \/ Kernel(t)
    PROVE  JudgedInv'
<1> DEFINE o == task[t]
           s == task'[t]
<1>1. /\ o \in TaskStates /\ Judged(o) /\ o.step \in Nat \ {0}
      /\ UNCHANGED <<mode, policy, maps, loader>>
    BY TaskLeavesLoader DEF TypeOK, TaskStates, JudgedInv
<1>2. o.pc # "idle" => Begun
    BY DEF JudgedInv
<1>3. CASE Begin(t)
  <2>1. Begun
    BY <1>3 DEF Begin, Begun, StartInv, TypeOK, Early, Active
  <2>2. /\ Moved(t) /\ o.pc = "idle" /\ s.pc = "enter" /\ s.way = o.way
        /\ s.step = o.step /\ s.missed = o.missed
    BY <1>3, BeginMoves DEF Moved
  <2> HIDE DEF o, s
  <2>3. Judged(s)
    BY <1>1, <2>2 DEF Judged
  <2> USE DEF o, s
  <2> QED
    BY <1>1, <2>1, <2>2, <2>3, TaskJudged
<1>4. CASE Pass(t)
  <2>1. /\ Moved(t) /\ o.pc = "enter" /\ s.pc = "enter" /\ s.way = o.way
        /\ s.step = o.step + 1 /\ s.missed = o.missed \union {o.step}
    BY <1>4, PassMoves DEF Moved
  <2> HIDE DEF o, s
  <2>2. \A i \in (1..s.step - 1) \ s.missed : i \in (1..o.step - 1) \ o.missed
    BY <1>1, <2>1
  <2>3. Judged(s)
    BY <1>1, <2>1, <2>2 DEF Judged
  <2> USE DEF o, s
  <2> QED
    BY <1>1, <1>2, <2>1, <2>3, TaskJudged
<1>5. CASE Decide(t)
  <2>1. /\ Moved(t) /\ o.pc = "enter" /\ s.pc = "decided" /\ s.way = o.way
        /\ s.step = o.step /\ s.missed = o.missed /\ s.decision = Decision(o.way[o.step])
        /\ o.step \in DOMAIN o.way
    BY <1>5, DecideMoves DEF Moved, Hook, OnTheWay
  <2>2. Decision(o.way[o.step]) = "BLOCK" <=> Refuses(o.way[o.step])
    BY <1>2, <2>1, HookTyped, DecisionRight DEF Begun
  <2> HIDE DEF o, s
  <2>3. Judged(s)
    BY <1>1, <2>1, <2>2 DEF Judged
  <2> USE DEF o, s
  <2> QED
    BY <1>1, <1>2, <2>1, <2>3, TaskJudged
<1>6. CASE Reserve(t)
  <2>1. /\ Moved(t) /\ o.pc = "decided" /\ s.pc = "leave" /\ s.way = o.way
        /\ s.step = o.step /\ s.missed = o.missed /\ s.decision = o.decision
    BY <1>6, ReserveMoves DEF Moved
  <2> HIDE DEF o, s
  <2>2. Judged(s)
    BY <1>1, <2>1 DEF Judged
  <2> USE DEF o, s
  <2> QED
    BY <1>1, <1>2, <2>1, <2>2, TaskJudged
<1>7. CASE LeaveProgram(t)
  <2>1. /\ Moved(t) /\ o.pc = "leave" /\ s.way = o.way /\ s.missed = o.missed
        /\ IF o.decision = "BLOCK" THEN s.pc = "refused" /\ s.step = o.step
           ELSE s.pc = "enter" /\ s.step = o.step + 1
    BY <1>7, LeaveProgramMoves DEF Moved
  <2>2. o.step \in DOMAIN o.way
    BY <2>1 DEF TypeOK, OnTheWay
  <2> HIDE DEF o, s
  <2>3. Judged(s)
    <3>1. CASE o.decision = "BLOCK"
      BY <3>1, <1>1, <2>1, <2>2 DEF Judged
    <3>2. CASE o.decision # "BLOCK"
      <4>1. \A i \in 1..s.step - 1 : i \in 1..o.step - 1 \/ i = o.step
        BY <3>2, <1>1, <2>1
      <4>2. ~Refuses(o.way[o.step])
        BY <3>2, <1>1, <2>1 DEF Judged
      <4>3. 1..o.step - 1 \subseteq 1..s.step - 1
        BY <3>2, <1>1, <2>1
      <4> QED
        BY <3>2, <1>1, <2>1, <2>2, <4>1, <4>2, <4>3 DEF Judged
    <3> QED
      BY <3>1, <3>2
  <2> USE DEF o, s
  <2> QED
    BY <1>1, <1>2, <2>1, <2>3, TaskJudged
<1>8. CASE Finish(t)
  <2>1. /\ Moved(t) /\ o.pc = "enter" /\ s.pc = "done" /\ s.way = o.way
        /\ s.step = o.step /\ s.missed = o.missed /\ o.step \notin DOMAIN o.way
    BY <1>8, FinishMoves DEF Moved, OnTheWay
  <2> HIDE DEF o, s
  <2>2. Judged(s)
    BY <1>1, <2>1 DEF Judged
  <2> USE DEF o, s
  <2> QED
    BY <1>1, <1>2, <2>1, <2>2, TaskJudged
<1> QED
    BY <1>3, <1>4, <1>5, <1>6, <1>7, <1>8 DEF Kernel

LEMMA StepJudged ==
    ASSUME TypeOK, StartInv, JudgedInv, [Next]_vars
    PROVE  JudgedInv'
<1>1. ASSUME UNCHANGED <<mode, policy, task>>, Begun => Begun'
      PROVE  JudgedInv'
  <2>1. \A u \in Tasks : Judged(task[u])'
    BY <1>1, RefusesStays DEF Judged, JudgedInv
  <2> QED
    BY <1>1, <2>1 DEF JudgedInv
<1>2. CASE UNCHANGED vars
  <2>1. UNCHANGED <<mode, policy, maps, loader, task>>
    BY <1>2 DEF vars, kernel
  <2> QED
    BY <1>1, <2>1, WholeStays DEF Begun
<1>3. CASE Load \/ Loop \/ PollFails \/ Signal
    BY <1>1, <1>3, LoaderLeavesTasks, BegunStays
<1> QED
    BY <1>2, <1>3, KernelJudged DEF Next

LEMMA InitJudged == Init => JudgedInv
<1> SUFFICES ASSUME Init PROVE JudgedInv
    OBVIOUS
<1>1. PICK work \in Works : task = [t \in Tasks |-> Idle(work[t])]
    BY DEF Init
<1>2. \A t \in Tasks : task[t].pc = "idle" /\ task[t].missed = {} /\ task[t].step = 1
    BY <1>1 DEF Idle
<1> QED
    BY <1>2 DEF JudgedInv, Judged

\* For any policy, sizes, ways through the kernel and schedule: an operation is
\* refused exactly if the monitor enforces and the policy forbids what one of
\* the attached programs on its way meets, full ring buffer or not
\* (runeguard.bpf.c:182-223).
THEOREM RefusedByPolicy == Spec => []Enforced
<1>1. TypeOK /\ JudgedInv => Enforced
  <2> SUFFICES ASSUME TypeOK, JudgedInv, NEW t \in Tasks, task[t].pc \in {"done", "refused"}
               PROVE  task[t].pc = "refused" <=>
                        /\ mode = "enforce"
                        /\ \E i \in DOMAIN task[t].way \ task[t].missed : Forbidden(task[t].way[i])
    BY DEF Enforced
  <2> DEFINE o == task[t]
             n == Len(o.way)
  <2>1. Judged(o) /\ o.step \in Nat \ {0} /\ DOMAIN o.way = 1..n /\ n \in Nat
    BY WaysAssumption DEF JudgedInv, TypeOK, TaskStates
  <2> HIDE DEF o, n
  <2>2. CASE o.pc = "refused"
    <3>1. o.step \in DOMAIN o.way \ o.missed /\ Refuses(o.way[o.step])
      BY <2>1, <2>2 DEF Judged
    <3> QED
      BY <2>2, <3>1 DEF Refuses, o
  <2>3. CASE o.pc = "done"
    <3>1. \A i \in DOMAIN o.way : i \in 1..o.step - 1
      BY <2>1, <2>3 DEF Judged
    <3>2. \A i \in DOMAIN o.way \ o.missed : ~Refuses(o.way[i])
      BY <2>1, <3>1 DEF Judged
    <3> QED
      BY <2>3, <3>2 DEF Refuses, o
  <2> QED
    BY <2>2, <2>3 DEF o
<1> QED
    BY <1>1, InitTyped, InitStart, InitJudged, StepTyped, StepStart, StepJudged, PTL DEF Spec
-----------------------------------------------------------------------------
(* The events: the printed ones and the ring buffer are what was recorded. *)

\* The event a record stands for: its own, which has happened, or the one that
\* its program will fill in.
Awaits(rec, e) ==
    IF rec.ready THEN rec.event = e /\ Happened(e)
    ELSE task[rec.by].pc = "leave" /\ e = Told(rec.by)

\* An event is of a program the task has met.
Met(e) ==
    \/ e.step < task[e.by].step
    \/ e.step = task[e.by].step /\ task[e.by].pc \in {"leave", "refused"}

Ascending(events) ==
    \A i, j \in 1..Len(events) :
       i < j /\ events[i].by = events[j].by => events[i].step < events[j].step

EventInv ==
    /\ Len(recorded) = Len(printed) + Len(ring)
    /\ \A i \in 1..Len(printed) : printed[i] = recorded[i] /\ Happened(printed[i])
    /\ \A i \in 1..Len(ring) : Awaits(ring[i], recorded[Len(printed) + i])
    /\ \A i \in 1..Len(recorded) : Met(recorded[i])
    /\ Ascending(recorded)

LEMMA LengthsTyped ==
    ASSUME TypeOK
    PROVE  /\ Len(ring) \in Nat /\ Len(printed) \in Nat /\ Len(recorded) \in Nat
           /\ DOMAIN ring = 1..Len(ring) /\ DOMAIN printed = 1..Len(printed)
           /\ \A i \in 1..Len(ring) : ring[i] \in Records
           /\ \A i \in 1..Len(recorded) : recorded[i] \in Events
    BY DEF TypeOK

\* handle_event takes the oldest record.
LEMMA HandleEventKeeps ==
    ASSUME TypeOK, EventInv, HandleEvent
    PROVE  EventInv'
<1>1. /\ ring # <<>> /\ ring[1].ready /\ ring \in Seq(Records)
      /\ printed' = Append(printed, ring[1].event) /\ ring' = Tail(ring)
      /\ UNCHANGED <<task, recorded>>
    BY DEF HandleEvent, Ready, TypeOK
<1>2. Len(ring) >= 1 /\ 1 \in 1..Len(ring)
    BY <1>1
<1>3. /\ Len(ring') = Len(ring) - 1
      /\ \A i \in 1..Len(ring') : i + 1 \in 1..Len(ring) /\ ring'[i] = ring[i + 1]
    BY <1>1, <1>2
<1>4. /\ Len(printed') = Len(printed) + 1
      /\ \A i \in 1..Len(printed) : printed'[i] = printed[i]
      /\ printed'[Len(printed) + 1] = ring[1].event
    BY <1>1 DEF TypeOK
<1>5. ring[1].event = recorded[Len(printed) + 1] /\ Happened(ring[1].event)
    BY <1>1, <1>2 DEF EventInv, Awaits
<1>6. \A e : Happened(e)' <=> Happened(e)
    BY <1>1 DEF Happened
<1>7. \A i \in 1..Len(printed') : printed'[i] = recorded'[i] /\ Happened(printed'[i])
  <2>1. \A i \in 1..Len(printed') : i \in 1..Len(printed) \/ i = Len(printed) + 1
    BY <1>4, LengthsTyped
  <2> QED
    BY <2>1, <1>1, <1>4, <1>5 DEF EventInv
<1>8. \A i \in 1..Len(ring') : Awaits(ring[i], recorded[Len(printed) + i])'
  <2> SUFFICES ASSUME NEW i \in 1..Len(ring')
               PROVE  Awaits(ring[i], recorded[Len(printed) + i])'
    OBVIOUS
  <2>1. Awaits(ring[i + 1], recorded[Len(printed) + (i + 1)])
    BY <1>3 DEF EventInv
  <2>2. Len(printed') + i = Len(printed) + (i + 1)
    BY <1>4, LengthsTyped
  <2>3. ring'[i] = ring[i + 1] /\ recorded'[Len(printed') + i] = recorded[Len(printed) + (i + 1)]
    BY <1>1, <1>3, <2>2
  <2> QED
    BY <1>1, <1>6, <2>1, <2>3 DEF Awaits, Told, Event
<1>9. Len(recorded') = Len(printed') + Len(ring')
  <2>1. Len(ring') = Len(ring) - 1 /\ Len(printed') = Len(printed) + 1
    BY <1>3, <1>4
  <2>2. Len(recorded') = Len(recorded) /\ Len(recorded) = Len(printed) + Len(ring)
    BY <1>1 DEF EventInv
  <2>3. Len(ring) \in Nat /\ Len(printed) \in Nat
    BY LengthsTyped
  <2> QED
    BY <2>1, <2>2, <2>3
<1>10. (\A i \in 1..Len(recorded) : Met(recorded[i]))' /\ Ascending(recorded)'
    BY <1>1 DEF EventInv, Met, Ascending
<1>11. (\A i \in 1..Len(printed) : printed[i] = recorded[i] /\ Happened(printed[i]))'
    BY <1>6, <1>7
<1> QED
    BY <1>8, <1>9, <1>10, <1>11 DEF EventInv

\* What has happened stays so: a refused task stays where it is, and no other
\* goes back or misses a program that it has met.
LEMMA HappenedStays ==
    ASSUME TypeOK, NEW t \in Tasks, Begin(t) \/ Kernel(t), NEW e \in Events, Happened(e)
    PROVE  Happened(e)'
<1>1. /\ task'[t].way = task[t].way /\ task[t].pc # "refused" /\ Moved(t)
      /\ task[t].step \in Nat /\ task'[t].step \in Nat /\ task'[t].step >= task[t].step
      /\ task'[t].missed \subseteq task[t].missed \union {task[t].step}
  <2>1. task[t].step \in Nat
    BY DEF TypeOK, TaskStates
  <2>2. CASE Begin(t)
    BY <2>1, <2>2, BeginMoves DEF Moved
  <2>3. CASE Pass(t)
    BY <2>1, <2>3, PassMoves DEF Moved
  <2>4. CASE Decide(t)
    BY <2>1, <2>4, DecideMoves DEF Moved
  <2>5. CASE Reserve(t)
    BY <2>1, <2>5, ReserveMoves DEF Moved
  <2>6. CASE LeaveProgram(t)
    BY <2>1, <2>6, LeaveProgramMoves DEF Moved
  <2>7. CASE Finish(t)
    BY <2>1, <2>7, FinishMoves DEF Moved
  <2> QED
    BY <2>2, <2>3, <2>4, <2>5, <2>6, <2>7 DEF Kernel
<1>0. e.by \in Tasks /\ e.step \in Nat
    BY DEF Events
<1>2. CASE e.by # t
  <2>1. task'[e.by] = task[e.by]
    BY <1>0, <1>1, <1>2 DEF Moved
  <2> QED
    BY <2>1 DEF Happened
<1>3. CASE e.by = t
  <2>1. e.decision # "BLOCK" /\ e.step < task[t].step /\ e.step \in DOMAIN task[t].way \ task[t].missed
    BY <1>1, <1>3 DEF Happened
  <2>2. e.step < task'[t].step /\ e.step \in DOMAIN task'[t].way \ task'[t].missed
    BY <1>0, <1>1, <2>1
  <2> QED
    BY <1>3, <2>1, <2>2 DEF Happened
<1> QED
    BY <1>2, <1>3

\* A task that moves on has met what it had met.
LEMMA MetStays ==
    ASSUME TypeOK, NEW t \in Tasks, Begin(t) \/ Kernel(t), NEW e \in Events, Met(e)
    PROVE  Met(e)'
<1>0. e.by \in Tasks /\ e.step \in Nat
    BY DEF Events
<1>1. CASE e.by # t
  <2>1. task'[e.by] = task[e.by]
    <3>1. Moved(t)
      BY BeginMoves, PassMoves, DecideMoves, ReserveMoves, LeaveProgramMoves, FinishMoves DEF Kernel
    <3> QED
      BY <1>0, <1>1, <3>1 DEF Moved
  <2> QED
    BY <2>1 DEF Met
<1>2. CASE e.by = t
  <2>1. task[t].step \in Nat /\ e.step \in Nat
    BY <1>0 DEF TypeOK, TaskStates
  <2>2. CASE Begin(t)
    BY <1>2, <2>1, <2>2, BeginMoves DEF Met
  <2>3. CASE Pass(t)
    BY <1>2, <2>1, <2>3, PassMoves DEF Met
  <2>4. CASE Decide(t)
    BY <1>2, <2>1, <2>4, DecideMoves DEF Met
  <2>5. CASE Reserve(t)
    BY <1>2, <2>1, <2>5, ReserveMoves DEF Met
  <2>6. CASE LeaveProgram(t)
    BY <1>2, <2>1, <2>6, LeaveProgramMoves DEF Met
  <2>7. CASE Finish(t)
    BY <1>2, <2>1, <2>7, FinishMoves DEF Met
  <2> QED
    BY <2>2, <2>3, <2>4, <2>5, <2>6, <2>7 DEF Kernel
<1> QED
    BY <1>1, <1>2

\* What a step of a task keeps of a record that is not its own to fill in.
LEMMA AwaitsStays ==
    ASSUME TypeOK, NEW t \in Tasks, Begin(t) \/ Kernel(t), NEW rec \in Records, NEW e \in Events,
           Awaits(rec, e), rec.ready \/ rec.by # t
    PROVE  Awaits(rec, e)'
<1>1. rec.by \in Tasks
    BY DEF Records
<1>2. CASE rec.ready
    BY <1>2, HappenedStays DEF Awaits
<1>3. CASE ~rec.ready
  <2>1. task'[rec.by] = task[rec.by]
    <3>1. Moved(t)
      BY BeginMoves, PassMoves, DecideMoves, ReserveMoves, LeaveProgramMoves, FinishMoves DEF Kernel
    <3> QED
      BY <1>1, <1>3, <3>1 DEF Moved
  <2> QED
    BY <1>3, <2>1 DEF Awaits, Told, Event
<1> QED
    BY <1>2, <1>3

\* What a step of a task keeps of what is printed and recorded.
LEMMA TaskKeeps ==
    ASSUME TypeOK, EventInv, NEW t \in Tasks, Begin(t) \/ Kernel(t)
    PROVE  /\ printed' = printed
           /\ \A i \in 1..Len(printed) : printed[i] = recorded[i] /\ Happened(printed[i])'
           /\ \A i \in 1..Len(recorded) : \A e \in Events : e = recorded[i] => Met(e)'
<1>1. printed' = printed
    BY TaskLeavesLoader
<1>2. ASSUME NEW i \in 1..Len(printed)
      PROVE  printed[i] = recorded[i] /\ Happened(printed[i])'
  <2>1. printed[i] = recorded[i] /\ Happened(printed[i]) /\ i \in 1..Len(recorded)
    BY LengthsTyped DEF EventInv
  <2>2. PICK e \in Events : e = printed[i]
    BY <2>1, LengthsTyped
  <2>3. Happened(e)'
    BY <2>1, <2>2, HappenedStays
  <2>4. e = printed'[i]
    BY <1>1, <2>2
  <2> QED
    BY <2>1, <2>3, <2>4
<1>3. ASSUME NEW i \in 1..Len(recorded), NEW e \in Events, e = recorded[i] PROVE Met(e)'
  <2>1. Met(e)
    BY <1>3 DEF EventInv
  <2> QED
    BY <2>1, MetStays
<1> QED
    BY <1>1, <1>2, <1>3

LEMMA RecordKeeps ==
    ASSUME TypeOK, EventInv, NEW t \in Tasks, Begin(t) \/ Kernel(t), NEW i \in 1..Len(ring),
           ring[i].ready \/ ring[i].by # t,
           NEW j, ring'[j] = ring[i], recorded'[Len(printed') + j] = recorded[Len(printed) + i]
    PROVE  Awaits(ring[j], recorded[Len(printed) + j])'
<1>1. Len(printed) + i \in 1..Len(recorded) /\ Awaits(ring[i], recorded[Len(printed) + i])
    BY LengthsTyped DEF EventInv
<1>2. PICK rec \in Records : rec = ring[i]
    BY LengthsTyped
<1>3. PICK e \in Events : e = recorded[Len(printed) + i]
    BY <1>1, LengthsTyped
<1>4. Awaits(rec, e)'
    BY <1>1, <1>2, <1>3, AwaitsStays
<1>5. rec = ring'[j] /\ e = recorded'[Len(printed') + j]
    BY <1>2, <1>3
<1> QED
    BY <1>4, <1>5

LEMMA QuietKeeps ==
    ASSUME TypeOK, EventInv, NEW t \in Tasks, Begin(t) \/ Kernel(t),
           UNCHANGED <<ring, recorded>>,
           \A i \in 1..Len(ring) : ring[i].ready \/ ring[i].by # t
    PROVE  EventInv'
<1>1. /\ printed' = printed
      /\ \A i \in 1..Len(printed) : printed[i] = recorded[i] /\ Happened(printed[i])'
      /\ \A i \in 1..Len(recorded) : \A e \in Events : e = recorded[i] => Met(e)'
    BY TaskKeeps
<1>2. \A i \in 1..Len(ring) : Awaits(ring[i], recorded[Len(printed) + i])'
    BY <1>1, RecordKeeps
<1>3. \A i \in 1..Len(recorded) : Met(recorded[i])'
    BY <1>1, LengthsTyped
<1>4. Len(recorded) = Len(printed) + Len(ring) /\ Ascending(recorded)
    BY DEF EventInv
<1> QED
    BY <1>1, <1>2, <1>3, <1>4 DEF EventInv, Ascending

LEMMA ReserveKeeps ==
    ASSUME TypeOK, EventInv, NEW t \in Tasks, Reserve(t)
    PROVE  EventInv'
<1>1. /\ task[t].pc = "decided" /\ task'[t].pc = "leave" /\ task'[t].step = task[t].step
      /\ task'[t].decision = task[t].decision
    BY ReserveMoves
<1>2. \A i \in 1..Len(ring) : ring[i].ready \/ ring[i].by # t
    BY <1>1 DEF EventInv, Awaits
<1>3. CASE Len(ring) = RingSize
  <2>1. UNCHANGED <<ring, recorded>>
    BY <1>3 DEF Reserve
  <2> QED
    BY <1>2, <2>1, QuietKeeps DEF Kernel
<1>4. CASE Len(ring) # RingSize
  <2>1. /\ ring' = Append(ring, Reserved(t)) /\ recorded' = Append(recorded, Told(t))
    BY <1>4 DEF Reserve
  <2>2. /\ Len(ring') = Len(ring) + 1 /\ ring'[Len(ring) + 1] = Reserved(t)
        /\ \A i \in 1..Len(ring) : ring'[i] = ring[i]
    BY <2>1 DEF TypeOK
  <2>3. /\ Len(recorded') = Len(recorded) + 1
        /\ recorded'[Len(recorded) + 1] = Told(t)
        /\ \A i \in 1..Len(recorded) : recorded'[i] = recorded[i]
    BY <2>1 DEF TypeOK
  <2>4. Len(recorded) = Len(printed) + Len(ring)
    BY DEF EventInv
  <2>5. /\ printed' = printed
        /\ \A i \in 1..Len(printed) : printed[i] = recorded[i] /\ Happened(printed[i])'
        /\ \A i \in 1..Len(recorded) : \A e \in Events : e = recorded[i] => Met(e)'
    BY TaskKeeps DEF Kernel
  <2>6. \A i \in 1..Len(printed') : (printed[i] = recorded[i] /\ Happened(printed[i]))'
    BY <2>3, <2>4, <2>5, LengthsTyped
  <2>7. Told(t)' = Told(t) /\ Told(t).by = t /\ Told(t).step = task[t].step
    BY <1>1 DEF Told, Event
  <2>8. \A i \in 1..Len(ring') : Awaits(ring[i], recorded[Len(printed) + i])'
    <3> SUFFICES ASSUME NEW i \in 1..Len(ring')
                 PROVE  Awaits(ring[i], recorded[Len(printed) + i])'
      OBVIOUS
    <3>1. CASE i \in 1..Len(ring)
      <4>1. recorded'[Len(printed') + i] = recorded[Len(printed) + i]
        BY <3>1, <2>3, <2>4, <2>5, LengthsTyped
      <4> QED
        BY <3>1, <4>1, <1>2, <2>2, RecordKeeps DEF Kernel
    <3>2. CASE i = Len(ring) + 1
      <4>1. Len(printed') + i = Len(recorded) + 1
        BY <3>2, <2>4, <2>5, LengthsTyped
      <4>2. ring'[i] = Reserved(t) /\ recorded'[Len(printed') + i] = Told(t)
        BY <3>2, <4>1, <2>2, <2>3
      <4>3. Reserved(t).by = t /\ Reserved(t).ready = FALSE
        BY DEF Reserved
      <4> QED
        BY <1>1, <2>7, <4>2, <4>3 DEF Awaits, Told, Event
    <3> QED
      BY <3>1, <3>2, <2>2, LengthsTyped
  <2>9. (\A i \in 1..Len(recorded) : Met(recorded[i]))'
    <3> SUFFICES ASSUME NEW i \in 1..Len(recorded') PROVE Met(recorded[i])'
      OBVIOUS
    <3>1. CASE i \in 1..Len(recorded)
      <4>1. PICK e \in Events : e = recorded[i]
        BY <3>1, LengthsTyped
      <4>2. Met(e)' /\ e = recorded'[i]
        BY <3>1, <4>1, <2>3, <2>5
      <4> QED
        BY <4>2
    <3>2. CASE i = Len(recorded) + 1
      BY <3>2, <1>1, <2>3, <2>7 DEF Met
    <3> QED
      BY <3>1, <3>2, <2>3, LengthsTyped
  <2>10. Ascending(recorded)'
    <3> SUFFICES ASSUME NEW i \in 1..Len(recorded'), NEW j \in 1..Len(recorded'), i < j,
                        recorded'[i].by = recorded'[j].by
                 PROVE  recorded'[i].step < recorded'[j].step
      BY DEF Ascending
    <3>1. i \in 1..Len(recorded)
      BY <2>3, LengthsTyped
    <3>2. CASE j \in 1..Len(recorded)
      BY <3>1, <3>2, <2>3 DEF EventInv, Ascending
    <3>3. CASE j = Len(recorded) + 1
      <4>1. recorded'[i] = recorded[i] /\ recorded'[j] = Told(t)
        BY <3>1, <3>3, <2>3
      <4>2. recorded[i].by = t /\ Met(recorded[i])
        BY <3>1, <4>1, <2>7 DEF EventInv
      <4>3. recorded[i].step < task[t].step
        BY <4>2, <1>1 DEF Met
      <4> QED
        BY <4>1, <4>3, <2>7
    <3> QED
      BY <3>2, <3>3, <2>3, LengthsTyped
  <2>11. Len(recorded') = Len(printed') + Len(ring')
    BY <2>2, <2>3, <2>4, <2>5, LengthsTyped
  <2> QED
    BY <2>6, <2>8, <2>9, <2>10, <2>11 DEF EventInv
<1> QED
    BY <1>3, <1>4

LEMMA LeaveProgramKeeps ==
    ASSUME TypeOK, JudgedInv, EventInv, NEW t \in Tasks, LeaveProgram(t)
    PROVE  EventInv'
<1>1. UNCHANGED recorded /\ Len(ring') = Len(ring)
    BY LeaveProgramRing DEF LeaveProgram
<1>2. /\ printed' = printed
      /\ \A i \in 1..Len(printed) : printed[i] = recorded[i] /\ Happened(printed[i])'
      /\ \A i \in 1..Len(recorded) : \A e \in Events : e = recorded[i] => Met(e)'
    BY TaskKeeps DEF Kernel
<1>3. PICK e \in Events : e = Told(t)
    BY ToldTyped
<1>4. Happened(e)'
  <2>1. e.by = t /\ e.step = task[t].step /\ e.decision = task[t].decision
    BY <1>3 DEF Told, Event
  <2>2. /\ Moved(t) /\ task[t].pc = "leave" /\ task'[t].missed = task[t].missed
        /\ task'[t].way = task[t].way
        /\ IF task[t].decision = "BLOCK"
           THEN task'[t].pc = "refused" /\ task'[t].step = task[t].step
           ELSE task'[t].pc = "enter" /\ task'[t].step = task[t].step + 1
    BY LeaveProgramMoves DEF Moved
  <2>3. task[t].step \in DOMAIN task[t].way /\ task[t].step \in Nat
    BY <2>2 DEF TypeOK, TaskStates, OnTheWay
  <2>4. task[t].step \notin task[t].missed
    BY <2>3 DEF JudgedInv, Judged
  <2> QED
    BY <2>1, <2>2, <2>3, <2>4 DEF Happened
<1>5. \A i \in 1..Len(ring) : Awaits(ring[i], recorded[Len(printed) + i])'
  <2> SUFFICES ASSUME NEW i \in 1..Len(ring)
               PROVE  Awaits(ring[i], recorded[Len(printed) + i])'
    OBVIOUS
  <2>1. CASE ring[i].by = t /\ ~ring[i].ready
    <3>1. ring'[i] = [by |-> t, ready |-> TRUE, event |-> Told(t)]
      BY <2>1, LeaveProgramRing
    <3>2. ring'[i].ready /\ ring'[i].event = e
      BY <3>1, <1>3
    <3>3. Awaits(ring[i], recorded[Len(printed) + i])
      BY DEF EventInv
    <3>4. recorded[Len(printed) + i] = e
      BY <1>3, <2>1, <3>3 DEF Awaits
    <3>5. recorded'[Len(printed') + i] = e
      BY <1>1, <1>2, <3>4
    <3> QED
      BY <1>4, <3>2, <3>5 DEF Awaits
  <2>2. CASE ~(ring[i].by = t /\ ~ring[i].ready)
    <3>1. ring'[i] = ring[i]
      BY <2>2, LeaveProgramRing
    <3> QED
      BY <1>1, <1>2, <2>2, <3>1, RecordKeeps DEF Kernel
  <2> QED
    BY <2>1, <2>2
<1>6. \A i \in 1..Len(recorded) : Met(recorded[i])'
    BY <1>1, <1>2, LengthsTyped
<1>7. Len(recorded) = Len(printed) + Len(ring) /\ Ascending(recorded)
    BY DEF EventInv
<1> QED
    BY <1>1, <1>2, <1>5, <1>6, <1>7 DEF EventInv, Ascending

LEMMA StillKeeps ==
    ASSUME EventInv, UNCHANGED <<ring, task, recorded, printed>>
    PROVE  EventInv'
    BY DEF EventInv, Ascending, Awaits, Met, Happened, Told, Event

LEMMA StepKeeps == TypeOK /\ JudgedInv /\ EventInv /\ [Next]_vars => EventInv'
<1> SUFFICES ASSUME TypeOK, JudgedInv, EventInv, [Next]_vars PROVE EventInv'
    OBVIOUS
<1>1. CASE Load \/ PollFails \/ Signal
  <2>1. UNCHANGED <<kernel, printed>>
    BY <1>1 DEF Load, Spawn, OpenAndLoad, SetFlag, SeedExecs, LoadLine, PathsLoaded, AttachNext,
                NewRingBuffer, PollFails, Signal
  <2> QED
    BY <2>1, StillKeeps DEF kernel
<1>2. CASE Loop
  <2>1. CASE HandleEvent
    BY <2>1, HandleEventKeeps
  <2>2. CASE ~HandleEvent
    <3>1. UNCHANGED <<kernel, printed>>
      BY <1>2, <2>2 DEF Loop, CheckExiting, EnterPoll, Wait, PollReturns, Detach
    <3> QED
      BY <3>1, StillKeeps DEF kernel
  <2> QED
    BY <2>1, <2>2
<1>3. ASSUME NEW t \in Tasks, Begin(t) \/ Kernel(t) PROVE EventInv'
  <2>1. CASE Begin(t) \/ Pass(t) \/ Decide(t) \/ Finish(t)
    <3>1. UNCHANGED <<ring, recorded>> /\ task[t].pc # "leave"
      BY <2>1 DEF Begin, Pass, Decide, Finish
    <3>2. \A i \in 1..Len(ring) : ring[i].ready \/ ring[i].by # t
      BY <3>1 DEF EventInv, Awaits
    <3> QED
      BY <1>3, <3>1, <3>2, QuietKeeps
  <2> QED
    BY <1>3, <2>1, ReserveKeeps, LeaveProgramKeeps DEF Kernel
<1>4. CASE UNCHANGED vars
    BY <1>4, StillKeeps DEF vars, kernel
<1> QED
    BY <1>1, <1>2, <1>3, <1>4 DEF Next

LEMMA InitKeeps == Init => EventInv
<1> SUFFICES ASSUME Init PROVE EventInv
    OBVIOUS
<1>1. Len(ring) = 0 /\ Len(printed) = 0 /\ Len(recorded) = 0
    BY DEF Init
<1> QED
    BY <1>1 DEF EventInv, Ascending

\* Any number of tasks on any number of processors: what is printed are the
\* events in the order in which they reserved their records, whichever order
\* these are submitted in; each tells what has happened, and those of one
\* operation come in its order (runeguard.bpf.c:35-56,
\* runeguard_loader.c:111-126).
THEOREM PrintedAsReserved == Spec => []EventsTell
<1>1. TypeOK /\ EventInv => EventsTell
  <2> SUFFICES ASSUME TypeOK, EventInv PROVE EventsTell
    OBVIOUS
  <2>1. /\ DOMAIN printed = 1..Len(printed) /\ Len(recorded) = Len(printed) + Len(ring)
        /\ \A i \in 1..Len(printed) : i \in 1..Len(recorded) /\ printed[i] = recorded[i]
        /\ \A i \in 1..Len(printed) : Happened(printed[i])
    BY LengthsTyped DEF EventInv
  <2>2. \A i, j \in DOMAIN printed :
           i < j /\ printed[i].by = printed[j].by => printed[i].step < printed[j].step
    BY <2>1 DEF EventInv, Ascending
  <2> QED
    BY <2>1, <2>2 DEF EventsTell
<1> QED
    BY <1>1, InitTyped, InitStart, InitJudged, InitKeeps, StepTyped, StepStart, StepJudged,
       StepKeeps, PTL DEF Spec
=============================================================================
