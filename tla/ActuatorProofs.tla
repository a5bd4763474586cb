--------------------------- MODULE ActuatorProofs ---------------------------
(***************************************************************************)
(* Theorems about the door opener, for every duration, every length of the *)
(* timer service's queue and any number of keys.                           *)
(***************************************************************************)
EXTENDS Actuator, SequenceTheorems, TLAPS

Periods == 0..Duration

LEMMA Ticking ==
    ASSUME NEW ticks \in Periods
    PROVE  Less(ticks) \in Periods /\ More(ticks) \in Periods
BY ActuatorAssumption DEF Periods, Less, More

\* A tick makes every queued command older.
LEMMA Ageing ==
    ASSUME NEW sent \in Seq(Periods), NEW older,
           older = [i \in DOMAIN sent |-> More(sent[i])]
    PROVE  /\ older \in Seq(Periods)
           /\ Len(older) = Len(sent)
           /\ \A i \in 1..Len(sent) : older[i] = More(sent[i])
<1>1. DOMAIN sent = 1..Len(sent) /\ Len(sent) \in Nat
  BY LenProperties
<1>2. \A i \in 1..Len(sent) : More(sent[i]) \in Periods
  BY ElementOfSeq, Ticking
<1>3. older \in [1..Len(sent) -> Periods]
  BY <1>1, <1>2
<1>4. older \in Seq(Periods)
  BY <1>1, <1>3, SeqDef
<1>5. DOMAIN older = 1..Len(older) /\ Len(older) \in Nat
  BY <1>4, LenProperties
<1>6. DOMAIN older = 1..Len(sent)
  BY <1>3
<1>7. Len(older) = Len(sent)
  BY <1>1, <1>5, <1>6
<1>. QED
  BY <1>1, <1>4, <1>7

\* Every variable of the door opener keeps its shape, and every time its range.
THEOREM TypeCorrect == Spec => []TypeOK
<1>1. Init => TypeOK
  <2> SUFFICES ASSUME Init PROVE TypeOK
    OBVIOUS
  <2>1. commands \in Seq(0..Duration) /\ Len(commands) = 0
    BY EmptySeq DEF Init
  <2>2. on \in BOOLEAN /\ running \in BOOLEAN /\ again \in BOOLEAN
    BY Zenon DEF Init
  <2>3. /\ delay \in 0..Duration /\ left \in 0..Duration /\ since \in 0..Duration
        /\ triggers \in 0..MaxTriggers /\ 0 <= QueueSize
    BY ActuatorAssumption DEF Init
  <2>. QED
    BY <2>1, <2>2, <2>3 DEF Init, TypeOK
<1>2. TypeOK /\ [Next]_vars => TypeOK'
  <2> SUFFICES ASSUME TypeOK, [Next]_vars PROVE TypeOK'
    OBVIOUS
  <2> USE ActuatorAssumption DEF TypeOK
  <2>1. CASE Trigger
    BY <2>1 DEF Trigger, Outstanding
  <2>2. CASE StartTimer
    BY <2>2 DEF StartTimer
  <2>3. CASE StartTimerFails
    BY <2>3 DEF StartTimerFails, Wait
  <2>4. CASE DelayEnds
    BY <2>4 DEF DelayEnds
  <2>5. CASE Expire
    BY <2>5 DEF Expire, OneShot
  <2>6. CASE TakeCommand
    BY <2>6 DEF TakeCommand
  <2>7. CASE Tick
    BY <2>7, Ticking, Ageing DEF Tick, Periods
  <2>8. CASE UNCHANGED vars
    BY <2>8 DEF vars
  <2>. QED
    BY <2>1, <2>2, <2>3, <2>4, <2>5, <2>6, <2>7, <2>8
       DEF Next, SipTask, TimerService
<1>. QED
  BY <1>1, <1>2, PTL DEF Spec

\* An output that is on has a timer, a command for it or the SIP task to switch
\* it off, whichever way xTimerStart goes.
THEOREM OutputIsTimed == Spec => []OnIsTimed
<1>1. Init => OnIsTimed
  BY DEF Init, OnIsTimed
<1>2. TypeOK /\ OnIsTimed /\ [Next]_vars => OnIsTimed'
  <2> SUFFICES ASSUME TypeOK, OnIsTimed, [Next]_vars PROVE OnIsTimed'
    OBVIOUS
  <2> USE DEF OnIsTimed, Outstanding
  <2>1. CASE Trigger
    BY <2>1 DEF Trigger
  <2>2. CASE StartTimer
    BY <2>2 DEF StartTimer, TypeOK
  <2>3. CASE StartTimerFails
    BY <2>3 DEF StartTimerFails, Wait
  <2>4. CASE DelayEnds
    BY <2>4 DEF DelayEnds
  <2>5. CASE Expire
    BY <2>5 DEF Expire
  <2>6. CASE TakeCommand
    BY <2>6 DEF TakeCommand
  <2>7. CASE Tick
    BY <2>7 DEF Tick, TypeOK
  <2>8. CASE UNCHANGED vars
    BY <2>8 DEF vars
  <2>. QED
    BY <2>1, <2>2, <2>3, <2>4, <2>5, <2>6, <2>7, <2>8
       DEF Next, SipTask, TimerService
<1>. QED
  BY <1>1, <1>2, TypeCorrect, PTL DEF Spec
-----------------------------------------------------------------------------
(* A pulse is full because what measures it lags behind it: a queued command is
   no older than the last trigger, and timer and delay have at least the rest of
   the period to go. *)

Unstarted == ~running /\ commands = <<>>

Alone ==
    \/ task = "start" /\ Unstarted
    \/ task = "delay" /\ Unstarted /\ Duration <= delay + since
    \/ task = "idle" /\ ~running /\ Len(commands) = 1 /\ commands[1] <= since
    \/ task = "idle" /\ running /\ commands = <<>> /\ Duration <= left + since

PulseInv == on /\ ~again => Alone

\* What has to come before the output goes off and the time since the last
\* trigger keep pace.
LEMMA TickMeasures ==
    ASSUME NEW t \in 0..Duration, NEW u \in 0..Duration
    PROVE  /\ Duration <= t + u => Duration <= Less(t) + More(u)
           /\ t <= u => More(t) <= More(u)
BY ActuatorAssumption DEF Less, More

\* A single command is the head of the queue, and typed like it.
LEMMA TheCommand ==
    ASSUME commands \in Seq(Periods), Len(commands) = 1
    PROVE  commands[1] \in Periods
<1>1. 1 \in 1..Len(commands)
  OBVIOUS
<1>. QED
  BY <1>1, ElementOfSeq

LEMMA PulseStep == TypeOK /\ PulseInv /\ [Next]_vars => PulseInv'
<1> SUFFICES ASSUME TypeOK, PulseInv, [Next]_vars, on', ~again' PROVE Alone'
  BY DEF PulseInv
<1> USE ActuatorAssumption DEF TypeOK, PulseInv, Alone, Unstarted
<1>1. CASE Trigger
  BY <1>1 DEF Trigger, Outstanding
<1>2. CASE StartTimer
  BY <1>2 DEF StartTimer
<1>3. CASE StartTimerFails
  BY <1>3 DEF StartTimerFails, Wait
<1>4. CASE DelayEnds
  BY <1>4 DEF DelayEnds
<1>5. CASE Expire
  BY <1>5 DEF Expire
<1>6. CASE TakeCommand
  <2>1. Len(commands) = 1 /\ commands[1] <= since /\ task = "idle"
    BY <1>6 DEF TakeCommand
  <2>2. commands' = <<>>
    BY <1>6, <2>1 DEF TakeCommand
  <2>3. commands[1] \in 0..Duration
    BY <2>1, TheCommand DEF Periods
  <2>. QED
    BY <1>6, <2>1, <2>2, <2>3 DEF TakeCommand
<1>7. CASE Tick
  <2>1. Unstarted => Unstarted'
    BY <1>7 DEF Tick
  <2>2. Alone
    BY <1>7 DEF Tick
  <2>3. /\ task' = task /\ running' = running
        /\ delay' = Less(delay) /\ left' = Less(left) /\ since' = More(since)
    BY <1>7 DEF Tick
  <2>4. CASE task = "start" /\ Unstarted
    BY <2>1, <2>3, <2>4
  <2>5. CASE task = "delay" /\ Unstarted /\ Duration <= delay + since
    BY <2>1, <2>3, <2>5, TickMeasures
  <2>6. CASE task = "idle" /\ ~running /\ Len(commands) = 1 /\ commands[1] <= since
    <3>1. Len(commands') = 1 /\ commands'[1] = More(commands[1])
      BY <1>7, <2>6, Ageing DEF Tick, Periods
    <3>2. commands[1] \in 0..Duration
      BY <2>6, TheCommand DEF Periods
    <3>3. More(commands[1]) <= More(since)
      BY <2>6, <3>2, TickMeasures
    <3>. QED
      BY <2>3, <2>6, <3>1, <3>3
  <2>7. CASE task = "idle" /\ running /\ commands = <<>> /\ Duration <= left + since
    <3>1. commands' = <<>>
      BY <1>7, <2>7 DEF Tick
    <3>. QED
      BY <2>3, <2>7, <3>1, TickMeasures
  <2>. QED
    BY <2>2, <2>4, <2>5, <2>6, <2>7
<1>8. CASE UNCHANGED vars
  BY <1>8 DEF vars
<1>. QED
  BY <1>1, <1>2, <1>3, <1>4, <1>5, <1>6, <1>7, <1>8
     DEF Next, SipTask, TimerService

\* Only the timer's callback and the end of the delay switch off, and a key that
\* found nothing left of an earlier one has had its whole duration by then.
THEOREM PulsesAreFull == Spec => PulseIsFull
<1>1. Init => PulseInv
  BY DEF Init, PulseInv
<1>2. TypeOK /\ PulseInv /\ [Next]_vars
        => [on /\ ~on' => since = Duration \/ again]_vars
  <2> SUFFICES ASSUME TypeOK, PulseInv, Next, on, ~on', ~again
               PROVE  since = Duration
    BY DEF vars
  <2>1. DelayEnds \/ Expire
    BY DEF Next, SipTask, TimerService, Trigger, StartTimer, StartTimerFails,
           TakeCommand, Tick
  <2>. QED
    BY <2>1, ActuatorAssumption
       DEF TypeOK, PulseInv, Alone, Unstarted, DelayEnds, Expire
<1>. QED
  BY <1>1, <1>2, PulseStep, TypeCorrect, PTL DEF Spec, PulseIsFull
=============================================================================
