------------------------------ MODULE Actuator ------------------------------
(***************************************************************************)
(* The door opener: SipEventHandlerActuator.  A key of the phone switches  *)
(* an output on, in the SIP task; a one-shot FreeRTOS timer switches it    *)
(* off, in the task of the timer service, which has a lower priority.  The *)
(* two share the output and a queue of commands to the timer service.      *)
(*                                                                         *)
(* The timer service is FreeRTOS's: it looks at expired timers first and   *)
(* then at its commands, and counts a period from the tick at which the    *)
(* command was sent.  Time passes in ticks, whatever the tasks do.         *)
(***************************************************************************)
EXTENDS Integers, Sequences

CONSTANTS
    Duration,    \* SWITCHING_DURATION_TICKS
    QueueSize,   \* length of the timer service's queue
    MaxTriggers  \* bound on the keys pressed

ASSUME ActuatorAssumption ==
    Duration \in Nat \ {0} /\ QueueSize \in Nat \ {0} /\ MaxTriggers \in Nat

VARIABLES
    on,        \* the output is at its active level
    task,      \* where trigger() is: "idle", "start" or "delay"
    delay,     \* ticks vTaskDelay has left
    running,   \* m_timer is running ...
    left,      \* ... and has so many ticks left
    commands,  \* the start commands queued: ticks since each was sent
    since,     \* ticks since the last trigger, up to Duration
    again,     \* history: at the last trigger, an earlier one was not done with
    triggers   \* the keys pressed so far, for the bound

vars == <<on, task, delay, running, left, commands, since, again, triggers>>

\* Every variable keeps its shape, and every time its range.
TypeOK ==
    /\ on \in BOOLEAN /\ running \in BOOLEAN /\ again \in BOOLEAN
    /\ task \in {"idle", "start", "delay"}
    /\ delay \in 0..Duration /\ left \in 0..Duration /\ since \in 0..Duration
    /\ commands \in Seq(0..Duration) /\ Len(commands) <= QueueSize
    /\ triggers \in 0..MaxTriggers

Init ==
    /\ on = FALSE /\ task = "idle" /\ delay = 0
    /\ running = FALSE /\ left = 0 /\ commands = <<>>
    /\ since = 0 /\ again = FALSE /\ triggers = 0

\* The timer of a trigger runs, or is about to be started.
Outstanding == running \/ commands # <<>>

\* handle(): the actuator's key; trigger() switches on ...
Trigger ==
    /\ task = "idle" /\ triggers < MaxTriggers
    /\ on' = TRUE /\ task' = "start"
    /\ since' = 0 /\ again' = Outstanding /\ triggers' = triggers + 1
    /\ UNCHANGED <<delay, running, left, commands>>

\* ... and xTimerStart queues a command, without waiting for room.
StartTimer ==
    /\ task = "start" /\ task' = "idle"
    /\ Len(commands) < QueueSize
    /\ commands' = Append(commands, 0)
    /\ UNCHANGED <<on, delay, running, left, since, again, triggers>>

GiveUp == task' = "idle" /\ UNCHANGED delay   \* mutant: only the error is logged

NoDelay == task' = "delay" /\ delay' = 0   \* mutant: switched off without vTaskDelay

Wait == task' = "delay" /\ delay' = Duration

\* The queue is full, of commands of this or another timer: the SIP task itself
\* waits, ...
StartTimerFails ==
    /\ task = "start"
    /\ Wait
    /\ UNCHANGED <<on, running, left, commands, since, again, triggers>>

\* ... and switches off.
DelayEnds ==
    /\ task = "delay" /\ delay = 0
    /\ task' = "idle" /\ on' = FALSE
    /\ UNCHANGED <<delay, running, left, commands, since, again, triggers>>

\* Created with pdFALSE, the timer does not run again by itself.
OneShot == running' = FALSE /\ left' = 0

\* int_callback
Expire ==
    /\ running /\ left = 0
    /\ OneShot
    /\ on' = FALSE
    /\ UNCHANGED <<task, delay, commands, since, again, triggers>>

\* With no timer expired, the service takes a command.  A period that is over by
\* then expires within the command.
TakeCommand ==
    /\ ~(running /\ left = 0)
    /\ commands # <<>> /\ commands' = Tail(commands)
    /\ running' = TRUE /\ left' = Duration - Head(commands)
    /\ UNCHANGED <<on, task, delay, since, again, triggers>>

Less(ticks) == IF ticks = 0 THEN 0 ELSE ticks - 1
More(ticks) == IF ticks = Duration THEN Duration ELSE ticks + 1

Tick ==
    /\ delay' = Less(delay)
    /\ left' = Less(left)
    /\ since' = More(since)
    /\ commands' = [i \in DOMAIN commands |-> More(commands[i])]
    /\ UNCHANGED <<on, task, running, again, triggers>>

SipTask == Trigger \/ StartTimer \/ StartTimerFails \/ DelayEnds
TimerService == Expire \/ TakeCommand

Next == SipTask \/ TimerService \/ Tick

Spec == Init /\ [][Next]_vars

\* Time passes, and both tasks come to run; nobody has to press a key.
FairSpec ==
    /\ Spec
    /\ WF_vars(Tick) /\ WF_vars(TimerService)
    /\ WF_vars(StartTimer \/ StartTimerFails \/ DelayEnds)
-----------------------------------------------------------------------------
(* Properties *)

\* An output that is on has somebody to switch it off: the timer, a command for
\* it, or the SIP task in the middle of trigger().
OnIsTimed == on => Outstanding \/ task # "idle"

\* And it is switched off, however the keys, the ticks and the two tasks fall.
SwitchesOff == on ~> ~on

\* A key pressed when nothing is left of an earlier one keeps the door open for
\* the whole duration, as Kconfig.actuator says.  One that meets the timer of an
\* earlier key may be cut short: the timer fires before the restart is taken.
PulseIsFull == [][on /\ ~on' => since = Duration \/ again]_vars
=============================================================================
