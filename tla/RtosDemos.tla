------------------------------ MODULE RtosDemos ------------------------------
(***************************************************************************)
(* The RTOS demonstrations: examples/freeRTOS, rtthread, uCOS and embOS.     *)
(* Each has the same parts: a task that sends to a queue in a fixed period   *)
(* and one that receives, a task that takes a semaphore the tick hook gives, *)
(* a periodic software timer, and a task the GPTIMER interrupt wakes (embOS: *)
(* two periodic tasks).  They differ in priorities, in what the kernel's     *)
(* objects hold, in what delays a task, and in the order of starting up.     *)
(*                                                                         *)
(* The kernels are external: a task of the highest priority among the ready  *)
(* ones makes the next step, interrupts come between any two steps, and time *)
(* passes in units of 100 ms.  A step takes less than a unit; the start-up   *)
(* apart, the processor is never busy for longer than MaxLate units.         *)
(***************************************************************************)
EXTENDS Naturals, Sequences

CONSTANTS
  Kernels,      \* the demonstrations looked at
  QueuePeriod,  \* units between two messages (200 ms)
  SemPeriod,    \* units between two gifts of the tick hook (500 ms)
  TimerPeriod,  \* units of the software timer (1000 ms)
  GpPeriod,     \* units of GPTIMER (250 ms)
  MaxLate       \* units the processor may be busy

ASSUME RtosAssumption ==
  /\ Kernels \subseteq {"freertos", "rtthread", "ucos", "embos"}
  /\ {QueuePeriod, SemPeriod, TimerPeriod, GpPeriod} \subseteq Nat \ {0}
  /\ MaxLate \in Nat

VARIABLES
  kernel,   \* the demonstration
  start,    \* steps of the start-up done
  task,     \* task created |-> "new", "ready", "waits", "delays" or "works"
  age,      \* periodic task, or software timer |-> units since it was due
  count,    \* channel created |-> what it holds
  hook,     \* the tick hook: installed, and the units it has counted
  gp,       \* GPTIMER: units since its last update, and its update flag
  found,    \* channel |-> what it held when last given to
  late,     \* units since the processor was last idle
  stepped,  \* a step has been made in this unit
  lost,     \* history: channels where an event was lost
  misused   \* history: channels given to before they existed

rtosVars == <<kernel, start, task, age, count, hook, gp, found, late, stepped, lost, misused>>

Channels == {"queue", "sem", "gp", "timer"}

-----------------------------------------------------------------------------
(* The four programs.                                                       *)

\* priorities as their kernel counts them, with "up" if more is higher;
\* "daemon" is the timer task of FreeRTOS, where the callback runs
Prio_RxBelowTx ==
  [freertos |-> [rx |-> 1, tx |-> 2, sem |-> 7, gp |-> 7, daemon |-> 3],
   rtthread |-> [sem |-> 31, rx |-> 30, tx |-> 30, gp |-> 29],
   ucos     |-> [timer |-> 2, sem |-> 3, tx |-> 4, rx |-> 5, gp |-> 6],
   embos    |-> [hp |-> 100, lp |-> 50]]
Prio ==
  [freertos |-> [rx |-> 2, tx |-> 1, sem |-> 7, gp |-> 7, daemon |-> 3],
   rtthread |-> [sem |-> 31, rx |-> 30, tx |-> 30, gp |-> 29],
   ucos     |-> [timer |-> 2, sem |-> 3, tx |-> 4, rx |-> 5, gp |-> 6],
   embos    |-> [hp |-> 100, lp |-> 50]]

Higher(t, u) ==
  IF kernel \in {"freertos", "embos"} THEN Prio[kernel][t] > Prio[kernel][u]
  ELSE Prio[kernel][t] < Prio[kernel][u]

\* the start-up, in order: <<"channel" or "task", what is created>>, the
\* installation of the tick hook, the start of GPTIMER and of the scheduler
FreeRtosStart ==
  <<<<"gptimer">>, <<"channel", "queue">>, <<"channel", "sem">>, <<"task", "rx">>,
    <<"task", "tx">>, <<"task", "sem">>, <<"channel", "timer">>, <<"task", "gp">>,
    <<"scheduler">>>>

\* GPTIMER_EnableCounter left out
RtThreadStart_NoCounter ==
  <<<<"hook">>, <<"channel", "sem">>, <<"task", "sem">>, <<"channel", "timer">>,
    <<"channel", "queue">>, <<"task", "rx">>, <<"task", "tx">>, <<"channel", "gp">>,
    <<"task", "gp">>>>
RtThreadStart ==
  <<<<"hook">>, <<"channel", "sem">>, <<"task", "sem">>, <<"channel", "timer">>,
    <<"channel", "queue">>, <<"task", "rx">>, <<"task", "tx">>, <<"channel", "gp">>,
    <<"task", "gp">>, <<"gptimer">>>>
UcosStart ==
  <<<<"task", "timer">>, <<"hook">>, <<"channel", "sem">>, <<"task", "sem">>,
    <<"channel", "queue">>, <<"task", "tx">>, <<"task", "rx">>, <<"gptimer">>,
    <<"channel", "gp">>, <<"task", "gp">>>>
EmbosStart == <<<<"task", "hp">>, <<"task", "lp">>, <<"scheduler">>>>

Startup == CASE kernel = "freertos" -> FreeRtosStart
             [] kernel = "rtthread" -> RtThreadStart
             [] kernel = "ucos" -> UcosStart
             [] kernel = "embos" -> EmbosStart
Started == start = Len(Startup)

\* interrupts are enabled only by the scheduler, or all the time
IntsOn_Always == TRUE
IntsOn == kernel \in {"rtthread", "ucos"} \/ Started

\* the delay of a task; the others wait for the channel of their name ("rx": queue)
Delay == [tx |-> QueuePeriod, timer |-> TimerPeriod, hp |-> QueuePeriod, lp |-> SemPeriod]
ChannelOf == [rx |-> "queue", sem |-> "sem", gp |-> "gp", daemon |-> "timer"]

\* what a channel holds at most: the queue of FreeRTOS has one place and that of
\* uCOS four, its semaphore is binary, the counting ones are not filled here
Holds(c) == IF kernel = "freertos" /\ c \in {"queue", "sem"} THEN 1
            ELSE IF kernel = "ucos" /\ c = "queue" THEN 4 ELSE 8
\* ulTaskNotifyTake(pdTRUE) takes all there is
TakesAll(c) == kernel = "freertos" /\ c = "gp"

-----------------------------------------------------------------------------
RtosInit ==
  /\ kernel \in Kernels
  /\ start = 0
  /\ task = <<>> /\ age = <<>> /\ count = <<>>
  /\ hook = [on |-> kernel = "freertos", ticks |-> 0]
  /\ gp = [on |-> FALSE, age |-> 0, flag |-> FALSE]
  /\ found = <<>>
  /\ late = 0 /\ stepped = FALSE
  /\ lost = {} /\ misused = {}

\* f with the value v for all of xs.
With(f, xs, v) == [x \in xs \cup DOMAIN f |-> IF x \in xs THEN v ELSE f[x]]

\* Put one event into channels cs: a full one loses it.  Who waits gets ready.
Give(cs) ==
  LET there == cs \cap DOMAIN count
  IN  /\ count' = [c \in DOMAIN count |-> IF c \in there /\ count[c] < Holds(c)
                                          THEN count[c] + 1 ELSE count[c]]
      /\ found' = [c \in there \cup DOMAIN found |-> IF c \in there THEN count[c] ELSE found[c]]
      /\ lost' = lost \cup {c \in there : count[c] = Holds(c)}
      /\ misused' = misused \cup (cs \ there)

Awake(t, ts) == [ts EXCEPT ![t] = "ready"]
Wake(cs, ts) ==
  [t \in DOMAIN ts |-> IF t \in DOMAIN ChannelOf /\ ChannelOf[t] \in cs /\ ts[t] = "waits"
                       THEN "ready" ELSE ts[t]]

NoEvent == UNCHANGED <<count, found, lost, misused>>

-----------------------------------------------------------------------------
(* Start-up: main() of FreeRTOS and embOS, the main thread of RT-Thread, the *)
(* start task of uCOS; the last two have a higher priority than the others.  *)
StartStep ==
  /\ ~Started
  /\ LET s == Startup[start + 1]
         new == IF s[1] = "task" THEN {s[2]}
                ELSE IF s[1] = "scheduler" /\ kernel = "freertos" THEN {"daemon"} ELSE {}
         made == IF s[1] = "channel" THEN {s[2]}
                 ELSE IF s = <<"task", "gp">> /\ kernel = "freertos" THEN {"gp"} ELSE {}
     IN  /\ task' = With(task, new, "new")
         /\ age' = With(age, (new \cup made) \cap DOMAIN Delay, 0)
         /\ count' = With(count, made, 0)
         /\ hook' = [hook EXCEPT !.on = @ \/ s = <<"hook">>]
         /\ gp' = [gp EXCEPT !.on = @ \/ s = <<"gptimer">>]
  /\ start' = start + 1
  /\ stepped' = (start' < Len(Startup))
  /\ UNCHANGED <<kernel, found, late, lost, misused>>

-----------------------------------------------------------------------------
(* The tasks.                                                               *)
Ready == {t \in DOMAIN task : task[t] \in {"new", "ready", "works"}}
MayRun(t) == Started /\ t \in Ready /\ ~\E u \in Ready : Higher(u, t)
Idle == Started /\ Ready = {}

\* a task's first step, which reads the time in prvQueueSendTask
Begin(t) ==
  /\ task[t] = "new"
  /\ task' = Awake(t, task)
  /\ age' = [u \in DOMAIN age |-> IF u = t THEN 0 ELSE age[u]]
  /\ NoEvent

\* vTaskDelayUntil counts from when the task was due, the others from now
DelaysFrom(t) == IF kernel = "freertos" THEN age[t] ELSE 0

\* a periodic task comes to its delay; tx sends when it wakes up from it
BeginDelay(t) ==
  /\ t \in DOMAIN Delay /\ task[t] = "ready"
  /\ IF DelaysFrom(t) >= Delay[t]
     THEN /\ task' = [task EXCEPT ![t] = "works"]
          /\ age' = [age EXCEPT ![t] = @ - Delay[t]]
     ELSE /\ task' = [task EXCEPT ![t] = "delays"]
          /\ age' = [age EXCEPT ![t] = DelaysFrom(t)]
  /\ NoEvent

\* after the delay: xQueueSend, rt_mq_send, OSQPost without waiting, or a toggle
EndDelay(t) ==
  /\ t \in DOMAIN Delay /\ task[t] = "works"
  /\ IF t = "tx" THEN Give({"queue"}) ELSE NoEvent
  /\ task' = Awake(t, IF t = "tx" THEN Wake({"queue"}, task) ELSE task)
  /\ UNCHANGED age

\* xQueueReceive, xSemaphoreTake, ulTaskNotifyTake and their like
Take(t) ==
  /\ t \in DOMAIN ChannelOf /\ task[t] = "ready"
  /\ LET c == ChannelOf[t]
     IN  IF count[c] = 0 THEN task' = [task EXCEPT ![t] = "waits"] /\ NoEvent
         ELSE /\ task' = [task EXCEPT ![t] = "works"]
              /\ count' = [count EXCEPT ![c] = IF TakesAll(c) THEN 0 ELSE @ - 1]
              /\ UNCHANGED <<found, lost, misused>>
  /\ UNCHANGED age

\* count, toggle the LED, print
Work(t) ==
  /\ t \in DOMAIN ChannelOf /\ task[t] = "works"
  /\ task' = Awake(t, task)
  /\ NoEvent /\ UNCHANGED age

Step(t) ==
  /\ MayRun(t)
  /\ Begin(t) \/ BeginDelay(t) \/ EndDelay(t) \/ Take(t) \/ Work(t)
  /\ UNCHANGED <<kernel, start, hook, gp, late, stepped>>

-----------------------------------------------------------------------------
(* Time and interrupts.                                                     *)

\* vApplicationTickHook, tick_hook, App_OS_TimeTickHook
HookTicks == IF hook.ticks + 1 >= SemPeriod THEN 0 ELSE hook.ticks + 1
HookGives == hook.ticks + 1 >= SemPeriod

\* the software timer (a task in uCOS), whose callback runs in the daemon of
\* FreeRTOS and in the tick interrupt of RT-Thread
TimerExpires == "timer" \in DOMAIN count /\ age["timer"] + 1 = TimerPeriod

\* One unit passes: the tick interrupt wakes who has waited long enough, runs
\* the tick hook and the timers; the counter of GPTIMER goes on in any case.
Elapse ==
  /\ IF Started THEN Idle \/ late < MaxLate ELSE stepped
  /\ LET due == {t \in DOMAIN task \cap DOMAIN Delay : task[t] = "delays" /\ age[t] + 1 = Delay[t]}
         gives == {c \in {"sem"} : hook.on /\ HookGives}
                    \cup {c \in {"timer"} : TimerExpires /\ kernel = "freertos"}
         counts(t) == \/ t \notin DOMAIN task \/ task[t] = "delays"
                      \/ kernel = "freertos" /\ task[t] # "new"
         zero == due \cup {t \in {"timer"} : TimerExpires}
     IN  IF ~IntsOn THEN NoEvent /\ UNCHANGED <<task, age, hook>>
         ELSE /\ task' = Wake(gives, [t \in DOMAIN task |-> IF t \in due THEN "works" ELSE task[t]])
              /\ age' = [t \in DOMAIN age |-> IF t \in zero THEN 0
                                             ELSE IF counts(t) THEN age[t] + 1 ELSE age[t]]
              /\ Give(gives)
              /\ hook' = IF hook.on THEN [hook EXCEPT !.ticks = HookTicks] ELSE hook
  /\ gp' = IF ~gp.on THEN gp
           ELSE [gp EXCEPT !.age = (@ + 1) % GpPeriod, !.flag = @ \/ gp.age + 1 = GpPeriod]
  /\ late' = IF Started /\ ~Idle THEN late + 1 ELSE 0
  /\ stepped' = FALSE
  /\ UNCHANGED <<kernel, start>>

\* GPTIMER0_isr: clear the flag, then notify the task or post the semaphore
GPTIMER0_isr ==
  /\ gp.flag /\ IntsOn
  /\ gp' = [gp EXCEPT !.flag = FALSE]
  /\ Give({"gp"})
  /\ task' = Wake({"gp"}, task)
  /\ UNCHANGED <<kernel, start, age, hook, late, stepped>>

Processor == StartStep \/ \E t \in DOMAIN task : Step(t)
RtosNext == Processor \/ Elapse \/ GPTIMER0_isr

RtosSpec == RtosInit /\ [][RtosNext]_rtosVars
\* time passes, the processor goes on, and the interrupt is taken
RtosFairSpec == RtosSpec /\ WF_rtosVars(Processor) /\ WF_rtosVars(Elapse) /\ WF_rtosVars(GPTIMER0_isr)

-----------------------------------------------------------------------------
\* Every period is longer than the processor may be busy, that of the queue, which
\* holds four messages, when taken four times; the tick hook and GPTIMER need more
\* than one unit, so that what they give during the start-up is bounded.
RtosTiming ==
  /\ SemPeriod > 1 /\ GpPeriod > 1
  /\ MaxLate < SemPeriod /\ MaxLate < GpPeriod /\ MaxLate < TimerPeriod
  /\ MaxLate < 4 * QueuePeriod

\* No message meets a full queue and no gift a semaphore that is still full from
\* the one before, in any of the kernels; the send task of FreeRTOS, which does
\* not wait and has a queue of one place, always finds it empty.
NothingLost ==
  /\ lost = {}
  /\ kernel = "freertos" /\ "queue" \in DOMAIN found => found["queue"] = 0

\* The tick hook and the GPTIMER interrupt, which start before the start-up is
\* over, never give to a semaphore or notify a task that does not exist yet.
OnlyCreated == misused = {}

\* Every event arrives where it is meant to.
EventsArrive == NothingLost /\ OnlyCreated

\* Every task comes to its work again and again: no wake-up is missed for good.
EveryTaskWorks ==
  \A k \in Kernels : \A t \in DOMAIN Prio[k] :
    []<>(kernel = k => t \in DOMAIN task /\ task[t] = "works")
=============================================================================
