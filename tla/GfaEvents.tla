------------------------------- MODULE GfaEvents -------------------------------
(***************************************************************************)
(* The timers of events.c, EVERY and AFTER, and the loop that polls them.  *)
(* gfa_runtime_execute polls before every instruction unless tracing is    *)
(* on.  gfa_events_poll compares the deadlines with the clock it reads     *)
(* once, calls what the host has registered, and programs a timer after    *)
(* its callback has returned.  A callback may arm and stop timers itself.  *)
(* CHAIN runs another program, with a runtime of its own, in the middle of *)
(* an instruction; there is only one set of timers.                        *)
(*                                                                         *)
(* Times are relative to the clock: left is next_trigger minus the clock,  *)
(* lag is the clock minus what poll has read.  The clock itself is then    *)
(* not needed; that it wraps around is left out, and so is the break key,  *)
(* for which gfa_break_check always says no.                               *)
(***************************************************************************)
EXTENDS Integers

CONSTANTS MaxInterval, \* bound: ticks of an interval
          MaxCallback, \* bound: ticks a callback takes
          MaxDepth     \* bound: programs that have chained each other

ASSUME EventsAssumption ==
  /\ MaxInterval \in Nat \ {0}
  /\ MaxCallback \in Nat
  /\ MaxDepth \in Nat \ {0}

VARIABLES
  initialized, \* g_events.initialized
  registered,  \* the timers whose callback is not NULL
  timer,       \* every_timer and after_timer
  calling,     \* the timer whose callback runs, or "none"
  lag,         \* ticks since poll has read the clock
  depth,       \* runtimes there are
  phase,       \* where the innermost one is
  tracing,     \* its trace_on
  owed,        \* history: the timers that were armed and neither stopped nor called since
  age          \* history: ticks since a timer was armed outside its callback or called

timers  == <<registered, timer, calling, owed, age>>
program == <<depth, phase, tracing>>
vars    == <<initialized, timers, lag, program>>

Kinds == {"every", "after"}

\* A timer that is on has an interval.
Timer == {t \in [active : BOOLEAN, interval : 0 .. MaxInterval,
                 left : -MaxCallback .. MaxInterval] : t.active => t.interval > 0}

Off == [active |-> FALSE, interval |-> 0, left |-> 0]

Larger(a, b)  == IF a > b THEN a ELSE b
Smaller(a, b) == IF a < b THEN a ELSE b

Executing == phase \in {"poll", "instruction"}

-----------------------------------------------------------------------------
(***************************************************************************)
(* gfa_events_poll.                                                        *)
(***************************************************************************)

\* now_ticks >= next_trigger, for the clock that poll has read.  paused is never set.
Due(t) == t.active /\ t.left + lag' <= 0

\* Mutant: the interval is counted from the old deadline.
ReprogrammedFromDeadline(t) == [t EXCEPT !.left = Larger(t.left + t.interval, -MaxCallback)]

\* What poll does to an EVERY that has expired, and to an AFTER.
Reprogrammed(t) == [t EXCEPT !.left = Larger(t.interval - lag', -MaxCallback)]

\* Mutant: AFTER stays armed.
StillArmed(t) == t

Disarmed(t) == [t EXCEPT !.active = FALSE]

Called(k) ==
  /\ calling' = k
  /\ age' = [age EXCEPT ![k] = 0]
  /\ owed' = owed \ ({k} \cap {"after"})

\* Behind the last callback the instruction is executed.
PollDone ==
  /\ calling' = "none"
  /\ phase' = "instruction"
  /\ UNCHANGED age

\* The second half of poll, with the EVERY timer in state t.
PollAfter(t) ==
  IF Due(timer.after)
  THEN IF "after" \in registered
       THEN /\ Called("after")
            /\ timer' = [timer EXCEPT !.every = t]
            /\ UNCHANGED phase
       ELSE /\ PollDone
            /\ timer' = [every |-> t, after |-> Disarmed(timer.after)]
            /\ owed' = owed \ {"after"}
  ELSE /\ PollDone
       /\ timer' = [timer EXCEPT !.every = t]
       /\ UNCHANGED owed

Poll ==
  /\ phase = "poll" /\ calling = "none"
  /\ ~tracing /\ initialized
  /\ lag' = 0
  /\ IF Due(timer.every)
     THEN IF "every" \in registered
          THEN Called("every") /\ UNCHANGED <<timer, phase>>
          ELSE PollAfter(Reprogrammed(timer.every))
     ELSE PollAfter(timer.every)
  /\ UNCHANGED <<initialized, registered, depth, tracing>>

\* The loop does not poll while it traces.
PollNothing ==
  /\ phase = "poll" /\ calling = "none"
  /\ tracing \/ ~initialized
  /\ phase' = "instruction"
  /\ UNCHANGED <<initialized, timers, lag, depth, tracing>>

\* Mutant: poll ends when EVERY was called.
EveryReturnsAlone ==
  /\ calling = "every"
  /\ lag' = 0
  /\ calling' = "none"
  /\ phase' = "instruction"
  /\ timer' = [timer EXCEPT !.every = Reprogrammed(@)]
  /\ UNCHANGED <<initialized, registered, owed, age, depth, tracing>>

EveryReturns ==
  /\ calling = "every"
  /\ UNCHANGED lag
  /\ PollAfter(Reprogrammed(timer.every))
  /\ UNCHANGED <<initialized, registered, depth, tracing>>

AfterReturns ==
  /\ calling = "after"
  /\ PollDone
  /\ timer' = [timer EXCEPT !.after = Disarmed(@)]
  /\ UNCHANGED <<initialized, registered, lag, owed, depth, tracing>>

-----------------------------------------------------------------------------
(***************************************************************************)
(* gfa_every, gfa_after and their stops, called by the statements EVERY    *)
(* and AFTER or by a callback.                                             *)
(***************************************************************************)
stop(k) ==
  /\ timer' = [timer EXCEPT ![k].active = FALSE]
  /\ owed' = owed \ {k}
  /\ UNCHANGED age

\* What a callback arms for itself runs from the clock that poll has read, and
\* AFTER is switched off when it returns.
arm(k, ticks) ==
  /\ timer' = [timer EXCEPT ![k] = [active |-> TRUE, interval |-> ticks, left |-> ticks]]
  /\ age' = [age EXCEPT ![k] = IF calling = k THEN @ ELSE 0]
  /\ owed' = IF calling = k /\ k = "after" THEN owed ELSE owed \cup {k}

\* Mutant: an interval of zero is armed.
set_timer_unchecked(k, ticks) == arm(k, ticks)

set_timer(k, ticks) == IF ticks <= 0 THEN stop(k) ELSE arm(k, ticks)

\* A callback.
Callback(k) ==
  /\ calling # "none"
  /\ \/ (\E ticks \in 0 .. MaxInterval : set_timer(k, ticks)) /\ UNCHANGED registered
     \/ registered' \in {registered \cup {k}, registered \ {k}} /\ UNCHANGED <<timer, owed, age>>
  /\ UNCHANGED <<initialized, calling, lag, program>>

\* The host, before it executes the program.
Register(k) ==
  /\ phase = "ready"
  /\ registered' = registered \cup {k}
  /\ UNCHANGED <<initialized, timer, calling, owed, age, lag, program>>

-----------------------------------------------------------------------------
(***************************************************************************)
(* The loop of gfa_runtime_execute and the programs of run_program.        *)
(***************************************************************************)
Instruction == phase = "instruction" /\ phase' = "poll" /\ UNCHANGED depth

SetTimer(k) ==
  /\ Instruction
  /\ \E ticks \in 0 .. MaxInterval : set_timer(k, ticks)
  /\ UNCHANGED <<initialized, registered, calling, lag, tracing>>

\* TRON and TROFF.
Trace ==
  /\ Instruction
  /\ tracing' \in BOOLEAN
  /\ UNCHANGED <<initialized, timers, lag>>

\* Any other instruction.
Compute == Instruction /\ UNCHANGED <<initialized, timers, lag, tracing>>

Finish ==
  /\ phase = "instruction"
  /\ phase' = "ended"
  /\ UNCHANGED <<initialized, timers, lag, depth, tracing>>

gfa_events_init ==
  /\ initialized' = TRUE
  /\ registered' = {}
  /\ timer' = [k \in Kinds |-> Off]
  /\ calling' = "none"
  /\ owed' = {}
  /\ age' = [k \in Kinds |-> 0]
  /\ UNCHANGED lag

gfa_events_shutdown ==
  /\ initialized' = FALSE
  /\ UNCHANGED <<timers, lag>>

\* run_program, also called by CHAIN.
Load ==
  /\ phase \in {"none", "instruction"}
  /\ depth < MaxDepth
  /\ gfa_events_init
  /\ depth' = depth + 1
  /\ phase' = "ready"
  /\ tracing' = FALSE

Execute ==
  /\ phase = "ready"
  /\ phase' = "poll"
  /\ UNCHANGED <<initialized, timers, lag, depth, tracing>>

\* Mutant: the program that had chained this one goes on.
ShutdownAndReturn ==
  /\ phase = "ended"
  /\ gfa_events_shutdown
  /\ depth' = depth - 1
  /\ phase' = IF depth > 1 THEN "poll" ELSE "none"
  /\ UNCHANGED tracing

\* The runtime goes; a program that had chained this one stops too.
Shutdown ==
  /\ phase = "ended"
  /\ gfa_events_shutdown
  /\ depth' = depth - 1
  /\ phase' = IF depth > 1 THEN "ended" ELSE "none"
  /\ UNCHANGED tracing

\* One tick of the clock.
Tick ==
  /\ calling # "none" => lag < MaxCallback
  /\ lag' = IF calling = "none" THEN 0 ELSE lag + 1
  /\ timer' = [k \in Kinds |-> [timer[k] EXCEPT !.left = Larger(@ - 1, -MaxCallback)]]
  /\ age' = [k \in Kinds |-> Smaller(age[k] + 1, MaxInterval)]
  /\ UNCHANGED <<initialized, registered, calling, owed, program>>

Init ==
  /\ initialized = FALSE
  /\ registered = {}
  /\ timer = [k \in Kinds |-> Off]
  /\ calling = "none"
  /\ lag = 0
  /\ owed = {}
  /\ age = [k \in Kinds |-> 0]
  /\ depth = 0 /\ phase = "none" /\ tracing = FALSE

Loop == Poll \/ PollNothing \/ EveryReturns \/ AfterReturns

Instructions == Trace \/ Compute \/ Finish \/ \E k \in Kinds : SetTimer(k)

Next ==
  \/ Loop
  \/ Instructions
  \/ \E k \in Kinds : Callback(k) \/ Register(k)
  \/ Load \/ Execute \/ Shutdown
  \/ Tick

\* The loop goes on as long as instructions do, a callback returns, time passes.
Fairness ==
  /\ WF_vars(Loop)
  /\ WF_vars(Instructions)
  /\ WF_vars(Tick)

Spec == Init /\ [][Next]_vars /\ Fairness

-----------------------------------------------------------------------------
(***************************************************************************)
(* Properties.                                                             *)
(***************************************************************************)
TypeOK ==
  /\ initialized \in BOOLEAN
  /\ registered \subseteq Kinds
  /\ timer \in [Kinds -> Timer]
  /\ calling \in Kinds \cup {"none"}
  /\ lag \in 0 .. MaxCallback
  /\ depth \in 0 .. MaxDepth
  /\ phase \in {"none", "ready", "poll", "instruction", "ended"}
  /\ tracing \in BOOLEAN
  /\ owed \subseteq Kinds
  /\ age \in [Kinds -> 0 .. MaxInterval]

\* A program that is executed has its timers, also behind and inside of CHAIN, and no
\* arming is lost and no stop is ignored, in whatever order the program and the
\* callbacks arm and stop: the timers that are on are the ones that are owed, but for
\* an AFTER that is set by its own callback.
ArmedIsOwed ==
  Executing =>
    /\ initialized
    /\ \A k \in Kinds : (timer[k].active <=> k \in owed) \/ (k = "after" /\ calling = k)

\* A callback is called when it is owed and its interval has passed since the timer
\* was armed, or since it was called last, however long callbacks take.
NeverEarly ==
  [][\A k \in Kinds :
       calling # k /\ calling' = k => k \in owed /\ age[k] >= timer[k].interval]_vars

\* A timer with a callback is called at last, unless it is set again or stopped, the
\* program ends or traces: EVERY cannot keep AFTER from its call, even if its callback
\* takes longer than its interval.
EventuallyCalled ==
  \A k \in Kinds :
    (Executing /\ k \in owed \cap registered /\ age[k] > 0)
      ~> (age[k] = 0 \/ k \notin owed \cap registered \/ ~Executing \/ tracing)
=============================================================================
