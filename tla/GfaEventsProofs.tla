---------------------------- MODULE GfaEventsProofs ----------------------------
(***************************************************************************)
(* Theorems about the timers of GfaEvents, for intervals and callbacks of  *)
(* any length and any number of programs that chain: their types           *)
(* (TypeCorrect), that a timer is on exactly when it is owed (ArmedSafe),  *)
(* and that no callback is called before its interval has passed           *)
(* (NeverEarlySafe).                                                       *)
(***************************************************************************)
EXTENDS GfaEvents, TLAPS

-----------------------------------------------------------------------------
(***************************************************************************)
(* The invariant.                                                          *)
(***************************************************************************)

\* Where there are runtimes, and where there are timers; a callback runs inside of poll.
Phases ==
  /\ phase # "none" => depth > 0
  /\ phase \in {"ready", "poll", "instruction"} => initialized
  /\ calling # "none" => phase = "poll"

\* The timer k is on when it is owed, but for an AFTER in its own callback, which is not
\* owed any more.
Armed(k) ==
  /\ phase \in {"ready", "poll", "instruction"} =>
       (timer[k].active <=> k \in owed) \/ (k = "after" /\ calling = k)
  /\ k = "after" /\ calling = k => k \notin owed

\* What is left of the interval of a timer and its age make up the interval at least.
Aged(k) ==
  timer[k].active /\ calling # k =>
    \/ age[k] >= timer[k].interval
    \/ timer[k].left + age[k] >= timer[k].interval

\* EVERY is as old as poll is late, when its callback runs.
Late == calling = "every" => age["every"] >= lag \/ age["every"] = MaxInterval

Inv ==
  /\ TypeOK
  /\ Phases
  /\ \A k \in Kinds : Armed(k) /\ Aged(k)
  /\ Late

-----------------------------------------------------------------------------
(***************************************************************************)
(* Timers.                                                                 *)
(***************************************************************************)
LEMMA TimerFields ==
  ASSUME NEW t \in Timer
  PROVE  /\ t.active \in BOOLEAN
         /\ t.interval \in 0 .. MaxInterval
         /\ t.left \in -MaxCallback .. MaxInterval
         /\ t.active => t.interval > 0
BY DEF Timer

LEMMA ReprogrammedTimer ==
  ASSUME NEW t \in Timer, lag' \in 0 .. MaxCallback
  PROVE  /\ Reprogrammed(t) \in Timer
         /\ Reprogrammed(t).active = t.active
         /\ Reprogrammed(t).interval = t.interval
         /\ Reprogrammed(t).left >= t.interval - lag'
<1>1. t.interval - lag' \in Int /\ t.interval - lag' <= MaxInterval /\ -MaxCallback \in Int
  BY EventsAssumption DEF Timer
<1>2. Larger(t.interval - lag', -MaxCallback) \in -MaxCallback .. MaxInterval
  BY <1>1, EventsAssumption DEF Larger
<1>3. Larger(t.interval - lag', -MaxCallback) >= t.interval - lag'
  BY <1>1 DEF Larger
<1> QED
  BY <1>2, <1>3 DEF Reprogrammed, Timer

LEMMA DisarmedTimer ==
  ASSUME NEW t \in Timer
  PROVE  Disarmed(t) \in Timer /\ Disarmed(t).active = FALSE
BY DEF Disarmed, Timer

LEMMA ArmedTimer ==
  ASSUME NEW ticks \in 1 .. MaxInterval
  PROVE  [active |-> TRUE, interval |-> ticks, left |-> ticks] \in Timer
BY EventsAssumption DEF Timer

LEMMA OffTimer == Off \in Timer
BY EventsAssumption DEF Off, Timer

\* What Due says of a timer.
LEMMA DueTimer ==
  ASSUME NEW t \in Timer, Due(t), lag' \in Nat
  PROVE  t.active /\ t.left <= 0
BY TimerFields, EventsAssumption DEF Due

-----------------------------------------------------------------------------
(***************************************************************************)
(* Steps of poll.                                                          *)
(***************************************************************************)

\* What the second half of poll needs to know of the EVERY timer.
EveryRight(t) ==
  /\ t \in Timer
  /\ t.active <=> "every" \in owed
  /\ t.active => \/ age["every"] >= t.interval
                 \/ t.left + age["every"] >= t.interval

LEMMA PollAfterKeeps ==
  ASSUME Inv, phase = "poll", calling # "after", lag' \in 0 .. MaxCallback,
         NEW t, EveryRight(t), PollAfter(t),
         UNCHANGED <<initialized, registered, depth, tracing>>
  PROVE  Inv'
<1>1. /\ timer \in [Kinds -> Timer] /\ owed \subseteq Kinds
      /\ age \in [Kinds -> 0 .. MaxInterval]
      /\ initialized \in BOOLEAN /\ registered \subseteq Kinds
      /\ depth \in 0 .. MaxDepth /\ tracing \in BOOLEAN
      /\ depth > 0 /\ initialized
  BY DEF Inv, TypeOK, Phases
<1>2. /\ timer.after \in Timer
      /\ timer.after.active <=> "after" \in owed
      /\ Aged("after")
  BY <1>1 DEF Inv, Armed, Kinds
<1>3. "every" \in Kinds /\ "after" \in Kinds /\ "every" # "after"
  BY DEF Kinds
<1>4. t \in Timer
  BY DEF EveryRight
<1>5. CASE Due(timer.after) /\ "after" \in registered
  <2>1. /\ calling' = "after" /\ age' = [age EXCEPT !["after"] = 0]
        /\ owed' = owed \ {"after"}
        /\ timer' = [timer EXCEPT !["every"] = t]
        /\ phase' = phase
    BY <1>5 DEF PollAfter, Called
  <2>2. TypeOK'
    BY <1>1, <1>4, <2>1, EventsAssumption DEF TypeOK, Kinds
  <2>3. timer'["every"] = t /\ age'["every"] = age["every"]
    BY <1>1, <1>3, <2>1
  <2>4. Armed("every")' /\ Aged("every")'
    BY <1>3, <2>1, <2>3 DEF Armed, Aged, EveryRight
  <2>5. Armed("after")' /\ Aged("after")'
    BY <2>1 DEF Armed, Aged
  <2> QED
    BY <1>1, <2>1, <2>2, <2>4, <2>5 DEF Inv, Phases, Kinds, Late
<1>6. CASE ~ (Due(timer.after) /\ "after" \in registered)
  <2>1. /\ calling' = "none" /\ phase' = "instruction" /\ age' = age
        /\ timer'.every = t
        /\ timer' = [every |-> t, after |-> timer'.after]
        /\ \/ timer'.after = Disarmed(timer.after) /\ owed' = owed \ {"after"}
           \/ timer'.after = timer.after /\ owed' = owed
    <3>1. CASE Due(timer.after)
      BY <1>6, <3>1 DEF PollAfter, PollDone
    <3>2. CASE ~ Due(timer.after)
      <4>1. timer' = [timer EXCEPT !.every = t] /\ owed' = owed
        BY <3>2 DEF PollAfter
      <4>2. timer' = [every |-> t, after |-> timer.after]
        BY <1>1, <4>1 DEF Kinds
      <4> QED
        BY <3>2, <4>1, <4>2 DEF PollAfter, PollDone
    <3> QED
      BY <3>1, <3>2
  <2>2. timer'.after \in Timer
    BY <1>2, <2>1, DisarmedTimer
  <2>3. timer' \in [Kinds -> Timer]
    BY <1>4, <2>1, <2>2 DEF Kinds
  <2>4. TypeOK'
    BY <1>1, <2>1, <2>3, EventsAssumption DEF TypeOK
  <2>5. Armed("every")' /\ Aged("every")'
    BY <1>3, <2>1 DEF Armed, Aged, EveryRight
  <2>6. Armed("after")' /\ Aged("after")'
    BY <1>2, <2>1, DisarmedTimer DEF Armed, Aged
  <2> QED
    BY <1>1, <2>1, <2>4, <2>5, <2>6 DEF Inv, Phases, Kinds, Late
<1> QED
  BY <1>5, <1>6

\* poll calls EVERY, whose age is then none.
LEMMA CallEvery ==
  ASSUME Inv, phase = "poll", calling = "none", lag' = 0, Called("every"),
         UNCHANGED <<initialized, registered, timer, phase, depth, tracing>>
  PROVE  Inv'
<1>1. /\ calling' = "every" /\ age' = [age EXCEPT !["every"] = 0] /\ owed' = owed
  BY DEF Called
<1>2. TypeOK'
  BY <1>1, EventsAssumption DEF Inv, TypeOK, Kinds
<1>3. age'["every"] = 0 /\ age'["after"] = age["after"]
  BY <1>1 DEF Inv, TypeOK, Kinds
<1>4. Armed("every")' /\ Aged("every")' /\ Armed("after")' /\ Aged("after")'
  BY <1>1, <1>3 DEF Inv, Armed, Aged, Kinds
<1> QED
  BY <1>1, <1>2, <1>3, <1>4 DEF Inv, Phases, Late, Kinds

LEMMA PollKeeps ==
  ASSUME Inv, Poll
  PROVE  Inv'
<1>1. /\ phase = "poll" /\ calling = "none" /\ lag' = 0
      /\ UNCHANGED <<initialized, registered, depth, tracing>>
  BY DEF Poll
<1>2. /\ timer.every \in Timer
      /\ timer.every.active <=> "every" \in owed
      /\ Aged("every") /\ age["every"] \in Nat
  BY <1>1, EventsAssumption DEF Inv, TypeOK, Armed, Kinds
<1>3. lag' \in 0 .. MaxCallback
  BY <1>1, EventsAssumption
<1>4. CASE Due(timer.every) /\ "every" \in registered
  BY <1>1, <1>4, CallEvery DEF Poll
<1>5. CASE Due(timer.every) /\ "every" \notin registered
  <2>1. PollAfter(Reprogrammed(timer.every))
    BY <1>5 DEF Poll
  <2> DEFINE t == Reprogrammed(timer.every)
  <2>2. /\ t \in Timer /\ t.active = timer.every.active
        /\ t.left >= t.interval - lag'
    BY <1>2, <1>3, ReprogrammedTimer
  <2>3. t.left \in Int /\ t.interval \in Int
    BY <2>2, TimerFields, EventsAssumption
  <2> HIDE DEF t
  <2>4. EveryRight(t)
    BY <1>1, <1>2, <2>2, <2>3 DEF EveryRight
  <2> QED
    BY <1>1, <1>3, <2>1, <2>4, PollAfterKeeps DEF t
<1>6. CASE ~ Due(timer.every)
  <2>1. PollAfter(timer.every)
    BY <1>6 DEF Poll
  <2>2. EveryRight(timer.every)
    BY <1>1, <1>2 DEF EveryRight, Aged
  <2> QED
    BY <1>1, <1>3, <2>1, <2>2, PollAfterKeeps
<1> QED
  BY <1>4, <1>5, <1>6

LEMMA EveryReturnsKeeps ==
  ASSUME Inv, EveryReturns
  PROVE  Inv'
<1> DEFINE t == Reprogrammed(timer.every)
<1>1. /\ calling = "every" /\ phase = "poll" /\ lag' = lag
      /\ UNCHANGED <<initialized, registered, depth, tracing>>
      /\ PollAfter(t)
  BY DEF EveryReturns, Inv, Phases
<1>2. lag \in 0 .. MaxCallback
  BY DEF Inv, TypeOK
<1>3. /\ timer.every \in Timer
      /\ timer.every.active <=> "every" \in owed
      /\ age["every"] \in Int
      /\ age["every"] >= lag \/ age["every"] = MaxInterval
  BY <1>1, EventsAssumption DEF Inv, TypeOK, Armed, Late, Kinds
<1>4. /\ t \in Timer /\ t.active = timer.every.active
      /\ t.left >= t.interval - lag
  BY <1>1, <1>2, <1>3, ReprogrammedTimer
<1>5. t.left \in Int /\ t.interval \in 0 .. MaxInterval
  BY <1>4, TimerFields, EventsAssumption
<1> HIDE DEF t
<1>6. EveryRight(t)
  <2>1. CASE age["every"] >= lag
    BY <1>2, <1>3, <1>4, <1>5, <2>1, EventsAssumption DEF EveryRight
  <2>2. CASE age["every"] = MaxInterval
    BY <1>3, <1>4, <1>5, <2>2, EventsAssumption DEF EveryRight
  <2> QED
    BY <1>3, <2>1, <2>2
<1> QED
  BY <1>1, <1>2, <1>6, PollAfterKeeps

LEMMA AfterReturnsKeeps ==
  ASSUME Inv, AfterReturns
  PROVE  Inv'
<1>1. /\ calling = "after" /\ phase = "poll" /\ calling' = "none" /\ phase' = "instruction"
      /\ timer' = [timer EXCEPT !["after"] = Disarmed(@)]
      /\ UNCHANGED <<initialized, registered, lag, owed, age, depth, tracing>>
  BY DEF AfterReturns, PollDone, Inv, Phases
<1>2. timer \in [Kinds -> Timer] /\ "every" \in Kinds /\ "after" \in Kinds
  BY DEF Inv, TypeOK, Kinds
<1>3. Disarmed(timer["after"]) \in Timer /\ Disarmed(timer["after"]).active = FALSE
  BY <1>2, DisarmedTimer
<1>4. timer'["every"] = timer["every"] /\ timer'["after"] = Disarmed(timer["after"])
      /\ timer' \in [Kinds -> Timer]
  BY <1>1, <1>2, <1>3 DEF Kinds
<1>5. TypeOK'
  BY <1>1, <1>4 DEF Inv, TypeOK
<1>6. Armed("every")' /\ Aged("every")'
  BY <1>1, <1>2, <1>4 DEF Inv, Armed, Aged
<1>7. Armed("after")' /\ Aged("after")'
  BY <1>1, <1>2, <1>3, <1>4 DEF Inv, Armed, Aged
<1> QED
  BY <1>1, <1>5, <1>6, <1>7 DEF Inv, Phases, Late, Kinds

-----------------------------------------------------------------------------
(***************************************************************************)
(* Steps of statements, callbacks, programs and the clock.                 *)
(***************************************************************************)

\* A timer that is set or stopped, by the program or by a callback.
LEMMA SetTimerKeeps ==
  ASSUME Inv, NEW k \in Kinds, NEW ticks \in 0 .. MaxInterval, set_timer(k, ticks),
         initialized, phase \in {"poll", "instruction"}, phase' \in {"poll", "instruction"},
         phase' # phase => calling = "none",
         calling # "none" => phase' = "poll",
         UNCHANGED <<initialized, registered, calling, lag, depth, tracing>>
  PROVE  Inv'
<1>1. /\ timer \in [Kinds -> Timer] /\ "every" \in Kinds /\ "after" \in Kinds
      /\ age \in [Kinds -> 0 .. MaxInterval] /\ owed \subseteq Kinds
  BY DEF Inv, TypeOK, Kinds
<1>2. TypeOK /\ Phases /\ Late /\ \A j \in Kinds : Armed(j) /\ Aged(j)
  BY DEF Inv
<1>3. CASE ticks = 0
  <2>1. stop(k)
    BY <1>3 DEF set_timer
  <2> DEFINE t == [timer[k] EXCEPT !.active = FALSE]
  <2>2. t \in Timer /\ t.active = FALSE
    BY <1>1 DEF Timer
  <2>3. timer' = [timer EXCEPT ![k] = t] /\ owed' = owed \ {k} /\ age' = age
    BY <1>1, <2>1 DEF stop
  <2> HIDE DEF t
  <2>4. timer' \in [Kinds -> Timer] /\ timer'[k] = t
        /\ \A j \in Kinds \ {k} : timer'[j] = timer[j]
    BY <1>1, <2>2, <2>3
  <2>5. TypeOK'
    BY <1>2, <2>3, <2>4 DEF TypeOK
  <2>6. Armed(k)' /\ Aged(k)'
    BY <2>2, <2>3, <2>4 DEF Armed, Aged
  <2>7. ASSUME NEW j \in Kinds \ {k}
        PROVE  Armed(j)' /\ Aged(j)'
    BY <1>2, <2>3, <2>4 DEF Armed, Aged
  <2> QED
    BY <1>2, <2>3, <2>5, <2>6, <2>7 DEF Inv, Phases, Late
<1>4. CASE ticks # 0
  <2>1. arm(k, ticks) /\ ticks \in 1 .. MaxInterval
    BY <1>4, EventsAssumption DEF set_timer
  <2> DEFINE t == [active |-> TRUE, interval |-> ticks, left |-> ticks]
             owed_k == IF calling = k /\ k = "after" THEN owed ELSE owed \cup {k}
             age_k == IF calling = k THEN age[k] ELSE 0
  <2>2. t \in Timer /\ t.active = TRUE /\ t.left = ticks /\ t.interval = ticks
    BY <2>1, ArmedTimer
  <2>3. timer' = [timer EXCEPT ![k] = t] /\ owed' = owed_k
        /\ age' = [age EXCEPT ![k] = age_k]
    BY <2>1 DEF arm
  <2>4. age_k \in 0 .. MaxInterval
    BY <1>1, EventsAssumption
  <2>5. calling = k => age_k = age[k]
    OBVIOUS
  <2> HIDE DEF t, age_k
  <2>6. /\ timer' \in [Kinds -> Timer] /\ timer'[k] = t
        /\ age' \in [Kinds -> 0 .. MaxInterval] /\ age'[k] = age_k
        /\ \A j \in Kinds \ {k} : timer'[j] = timer[j] /\ age'[j] = age[j]
    BY <1>1, <2>2, <2>3, <2>4
  <2>7. TypeOK'
    BY <1>2, <2>3, <2>6 DEF TypeOK
  <2>8. Armed(k)'
    BY <1>2, <2>2, <2>3, <2>6 DEF Armed
  <2>9. Aged(k)'
    BY <2>1, <2>2, <2>4, <2>6, EventsAssumption DEF Aged
  <2>10. ASSUME NEW j \in Kinds \ {k}
         PROVE  Armed(j)' /\ Aged(j)'
    BY <1>2, <2>3, <2>6 DEF Armed, Aged
  <2>11. Late'
    BY <1>1, <1>2, <2>5, <2>6 DEF Late
  <2> QED
    BY <1>2, <2>7, <2>8, <2>9, <2>10, <2>11 DEF Inv, Phases
<1> QED
  BY <1>3, <1>4

LEMMA CallbackKeeps ==
  ASSUME Inv, NEW k \in Kinds, Callback(k)
  PROVE  Inv'
<1>1. /\ calling # "none" /\ phase = "poll" /\ initialized
      /\ UNCHANGED <<initialized, calling, lag, depth, phase, tracing>>
  BY DEF Callback, program, Inv, Phases
<1>2. CASE (\E ticks \in 0 .. MaxInterval : set_timer(k, ticks)) /\ UNCHANGED registered
  BY <1>1, <1>2, SetTimerKeeps
<1>3. CASE registered' \in {registered \cup {k}, registered \ {k}} /\ UNCHANGED <<timer, owed, age>>
  <2>1. TypeOK'
    BY <1>1, <1>3 DEF Inv, TypeOK
  <2> QED
    BY <1>1, <1>3, <2>1 DEF Inv, Phases, Armed, Aged, Late
<1> QED
  BY <1>2, <1>3 DEF Callback

LEMMA SetTimerStep ==
  ASSUME Inv, NEW k \in Kinds, SetTimer(k)
  PROVE  Inv'
<1>1. /\ phase = "instruction" /\ phase' = "poll" /\ initialized /\ calling = "none"
      /\ UNCHANGED <<initialized, registered, calling, lag, depth, tracing>>
  BY DEF SetTimer, Instruction, Inv, Phases
<1> QED
  BY <1>1, SetTimerKeeps DEF SetTimer

LEMMA LoadKeeps ==
  ASSUME Inv, Load
  PROVE  Inv'
<1>1. /\ initialized' = TRUE /\ registered' = {} /\ calling' = "none" /\ owed' = {}
      /\ timer' = [k \in Kinds |-> Off] /\ age' = [k \in Kinds |-> 0]
      /\ lag' = lag /\ depth' = depth + 1 /\ phase' = "ready" /\ tracing' = FALSE
      /\ depth < MaxDepth
  BY DEF Load, gfa_events_init
<1>2. timer' \in [Kinds -> Timer] /\ age' \in [Kinds -> 0 .. MaxInterval]
  BY <1>1, OffTimer, EventsAssumption
<1>3. TypeOK'
  <2>1. initialized' \in BOOLEAN /\ tracing' \in BOOLEAN
    BY <1>1, Zenon
  <2>2. /\ registered' \subseteq Kinds /\ owed' \subseteq Kinds
        /\ calling' \in Kinds \cup {"none"} /\ lag' \in 0 .. MaxCallback
        /\ depth' \in 0 .. MaxDepth
        /\ phase' \in {"none", "ready", "poll", "instruction", "ended"}
    BY <1>1, EventsAssumption DEF Inv, TypeOK
  <2> QED
    BY <1>2, <2>1, <2>2 DEF TypeOK
<1>4. ASSUME NEW k \in Kinds
      PROVE  Armed(k)' /\ Aged(k)'
  BY <1>1 DEF Armed, Aged, Off
<1> QED
  BY <1>1, <1>3, <1>4, EventsAssumption DEF Inv, TypeOK, Phases, Late

\* The clock.
LEMMA TickKeeps ==
  ASSUME Inv, Tick
  PROVE  Inv'
<1>1. /\ lag' = IF calling = "none" THEN 0 ELSE lag + 1
      /\ UNCHANGED <<initialized, registered, calling, owed, depth, phase, tracing>>
      /\ calling # "none" => lag < MaxCallback
  BY DEF Tick, program
<1>2. lag' \in 0 .. MaxCallback
  BY <1>1, EventsAssumption DEF Inv, TypeOK
<1>3. ASSUME NEW k \in Kinds
      PROVE  /\ timer'[k] \in Timer
             /\ timer'[k].active = timer[k].active
             /\ timer'[k].interval = timer[k].interval
             /\ timer'[k].left >= timer[k].left - 1
             /\ age'[k] = Smaller(age[k] + 1, MaxInterval)
  <2> DEFINE t == timer[k]
             l == Larger(t.left - 1, -MaxCallback)
  <2>1. t \in Timer
    BY DEF Inv, TypeOK
  <2>2. timer'[k] = [t EXCEPT !.left = l]
    BY DEF Tick
  <2>3. age'[k] = Smaller(age[k] + 1, MaxInterval)
    BY DEF Tick
  <2>4. t.left \in -MaxCallback .. MaxInterval
    BY <2>1, TimerFields
  <2>5. l \in -MaxCallback .. MaxInterval /\ l >= t.left - 1
    BY <2>4, EventsAssumption DEF Larger
  <2> HIDE DEF t, l
  <2>6. [t EXCEPT !.left = l] \in Timer
    BY <2>1, <2>5 DEF Timer
  <2>7. [t EXCEPT !.left = l].left = l
    BY <2>1 DEF Timer
  <2> QED
    BY <2>2, <2>3, <2>5, <2>6, <2>7 DEF t
<1>4. ASSUME NEW k \in Kinds
      PROVE  /\ timer[k].interval \in 0 .. MaxInterval /\ timer[k].left \in Int
             /\ timer'[k].left \in Int
             /\ age[k] \in 0 .. MaxInterval /\ age'[k] \in 0 .. MaxInterval
             /\ age'[k] = age[k] + 1 \/ age'[k] = MaxInterval
  <2>1. timer[k] \in Timer /\ age[k] \in 0 .. MaxInterval
    BY DEF Inv, TypeOK
  <2>2. timer'[k] \in Timer
    BY <1>3
  <2> QED
    BY <1>3, <2>1, <2>2, TimerFields, EventsAssumption DEF Smaller
<1>5. timer' \in [Kinds -> Timer] /\ age' \in [Kinds -> 0 .. MaxInterval]
  BY <1>3, <1>4 DEF Tick
<1>6. TypeOK'
  BY <1>1, <1>2, <1>5 DEF Inv, TypeOK
<1>7. ASSUME NEW k \in Kinds
      PROVE  Armed(k)' /\ Aged(k)'
  <2>1. Armed(k) /\ Aged(k)
    BY DEF Inv
  <2>2. Armed(k)'
    BY <1>1, <1>3, <2>1 DEF Armed
  <2>3. Aged(k)'
    BY <1>1, <1>3, <1>4, <2>1, EventsAssumption DEF Aged
  <2> QED
    BY <2>2, <2>3
<1>8. Late'
  <2>1. "every" \in Kinds
    BY DEF Kinds
  <2> QED
    BY <1>1, <1>4, <2>1, EventsAssumption DEF Inv, TypeOK, Late
<1> QED
  BY <1>1, <1>6, <1>7, <1>8 DEF Inv, Phases

\* Steps that change neither timers nor the clock.
LEMMA OtherKeeps ==
  ASSUME Inv, UNCHANGED <<timers, lag>>,
         initialized' \in BOOLEAN, tracing' \in BOOLEAN, depth' \in 0 .. MaxDepth,
         phase' \in {"none", "ready", "poll", "instruction", "ended"},
         Phases', phase' \in {"ready", "poll", "instruction"} =>
                    phase \in {"ready", "poll", "instruction"}
  PROVE  Inv'
<1>1. TypeOK'
  BY DEF Inv, TypeOK, timers
<1> QED
  BY <1>1 DEF Inv, Armed, Aged, Late, timers

LEMMA NextInv == Inv /\ [Next]_vars => Inv'
<1> SUFFICES ASSUME Inv, [Next]_vars
             PROVE  Inv'
  OBVIOUS
<1>1. /\ initialized \in BOOLEAN /\ tracing \in BOOLEAN /\ depth \in 0 .. MaxDepth
      /\ phase \in {"none", "ready", "poll", "instruction", "ended"}
      /\ Phases
  BY DEF Inv, TypeOK
<1>2. CASE PollNothing
  BY <1>1, <1>2, OtherKeeps DEF PollNothing, Phases, timers
<1>3. CASE Trace \/ Compute \/ Finish
  BY <1>1, <1>3, OtherKeeps DEF Trace, Compute, Finish, Instruction, Phases, timers
<1>4. ASSUME NEW k \in Kinds, Register(k)
      PROVE  Inv'
  <2>1. TypeOK'
    BY <1>4 DEF Register, program, Inv, TypeOK
  <2> QED
    BY <1>4, <2>1 DEF Register, program, Inv, Phases, Armed, Aged, Late
<1>5. CASE Execute
  BY <1>1, <1>5, OtherKeeps DEF Execute, Phases, timers
<1>6. CASE Shutdown
  <2>1. calling = "none" /\ depth > 0
    BY <1>1, <1>6 DEF Shutdown, Phases
  <2>2. /\ initialized' = FALSE /\ depth' = depth - 1
        /\ phase' = IF depth > 1 THEN "ended" ELSE "none"
        /\ UNCHANGED <<timers, lag, tracing>>
    BY <1>6 DEF Shutdown, gfa_events_shutdown
  <2>3. Phases'
    BY <1>1, <2>1, <2>2, EventsAssumption DEF Phases, timers
  <2>4. initialized' \in BOOLEAN /\ tracing' \in BOOLEAN
    BY <1>1, <2>2, Zenon
  <2>5. depth' \in 0 .. MaxDepth /\ phase' \in {"none", "ended"}
    BY <1>1, <2>1, <2>2, EventsAssumption
  <2> QED
    BY <2>2, <2>3, <2>4, <2>5, OtherKeeps
<1>7. CASE UNCHANGED vars
  BY <1>1, <1>7, OtherKeeps DEF vars, program, Phases, timers
<1>8. CASE Loop
  BY <1>2, <1>8, PollKeeps, EveryReturnsKeeps, AfterReturnsKeeps DEF Loop
<1>9. CASE Instructions
  BY <1>3, <1>9, SetTimerStep DEF Instructions
<1> QED
  BY <1>4, <1>5, <1>6, <1>7, <1>8, <1>9, CallbackKeeps, LoadKeeps, TickKeeps DEF Next

LEMMA InitInv == Init => Inv
<1> SUFFICES ASSUME Init
             PROVE  Inv
  OBVIOUS
<1>1. timer \in [Kinds -> Timer] /\ age \in [Kinds -> 0 .. MaxInterval]
  BY OffTimer, EventsAssumption DEF Init
<1>2. TypeOK
  <2>1. initialized \in BOOLEAN /\ tracing \in BOOLEAN
    BY Zenon DEF Init
  <2>2. /\ registered \subseteq Kinds /\ owed \subseteq Kinds
        /\ calling \in Kinds \cup {"none"} /\ lag \in 0 .. MaxCallback
        /\ depth \in 0 .. MaxDepth
        /\ phase \in {"none", "ready", "poll", "instruction", "ended"}
    BY EventsAssumption DEF Init
  <2> QED
    BY <1>1, <2>1, <2>2 DEF TypeOK
<1> QED
  BY <1>2 DEF Init, Inv, Phases, Armed, Aged, Late, Off

LEMMA InvHolds == Spec => []Inv
BY InitInv, NextInv, PTL DEF Spec

-----------------------------------------------------------------------------
(***************************************************************************)
(* Theorems.                                                               *)
(***************************************************************************)

\* A timer that is on has an interval, and a deadline at most that far ahead.
THEOREM TypeCorrect == Spec => []TypeOK
<1>1. Inv => TypeOK
  BY DEF Inv
<1> QED
  BY <1>1, InvHolds, PTL

\* No arming is lost and no stop is ignored, and a program that is executed has its
\* timers.
THEOREM ArmedSafe == Spec => []ArmedIsOwed
<1>1. Inv => ArmedIsOwed
  BY DEF Inv, Phases, Armed, ArmedIsOwed, Executing
<1> QED
  BY <1>1, InvHolds, PTL

\* No callback is called before its interval has passed, however long callbacks take and
\* whatever they arm.
THEOREM NeverEarlySafe == Spec => NeverEarly
<1> DEFINE Right == \A k \in Kinds :
             calling # k /\ calling' = k => k \in owed /\ age[k] >= timer[k].interval
<1>1. Inv /\ [Next]_vars => [Right]_vars
  <2> SUFFICES ASSUME Inv, Next, NEW k \in Kinds, calling # k, calling' = k
               PROVE  k \in owed /\ age[k] >= timer[k].interval
    BY DEF vars
  <2>1. Poll \/ EveryReturns
    <3>1. k # "none"
      BY DEF Kinds
    <3> QED
      BY <3>1 DEF Next, Loop, Instructions, PollNothing, AfterReturns, PollDone, Trace, Compute,
         Finish, SetTimer, Callback, Register, Load, gfa_events_init, Execute, Shutdown,
         gfa_events_shutdown, Tick, timers, program
  <2>2. Due(timer[k]) /\ lag' \in Nat /\ phase = "poll"
    BY <2>1, EventsAssumption DEF Poll, EveryReturns, PollAfter, PollDone, Called, Kinds, Inv,
       TypeOK, Phases
  <2>3. timer[k] \in Timer /\ age[k] \in Int
    BY EventsAssumption DEF Inv, TypeOK
  <2>4. timer[k].active /\ timer[k].left <= 0
    BY <2>2, <2>3, DueTimer
  <2>5. k \in owed /\ Aged(k)
    BY <2>2, <2>4 DEF Inv, Armed
  <2>6. timer[k].left \in Int /\ timer[k].interval \in Int
    BY <2>3, TimerFields, EventsAssumption
  <2> QED
    BY <2>3, <2>4, <2>5, <2>6 DEF Aged
<1>2. NeverEarly <=> [][Right]_vars
  BY DEF NeverEarly
<1> QED
  BY <1>1, <1>2, InvHolds, PTL DEF Spec

=============================================================================
