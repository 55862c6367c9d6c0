----------------------------- MODULE LedControl -----------------------------
(***************************************************************************)
(* The LED: set_led() and the protothread led_control of src/main.cpp,     *)
(* with the protothread macros of include/pt.h and the timer of            *)
(* include/async_wait.h they are built from.                               *)
(*                                                                         *)
(* A protothread is a function that is called in every pass of loop() and  *)
(* goes on where it returned: lc says where, is_stopped that it is not     *)
(* called.  A call runs to its next return without interruption; set_led() *)
(* is called in between, by the scheduler.  The time a timer takes is left *)
(* open: Elapse makes it expire, at any moment.                            *)
(*                                                                         *)
(* level is the value led_control last wrote to the LED.                   *)
(***************************************************************************)
EXTENDS Integers

CONSTANTS Top,         \* 0xFF, the brightest level and the end of a transition
          Periods,     \* transition / 0xFF of the calls, 0 for no transition
          Calls        \* bound: how many calls there are in all

ASSUME LedAssumption ==
    /\ Top \in Nat /\ Top >= 2
    /\ Periods \subseteq Nat
    /\ Calls \in Nat

Level == 0 .. Top

VARIABLES led_state, led_transition_delay, pwm_val,   \* what set_led() sets
          current_state, lc, is_stopped,              \* the protothread
          period, elapsed,                            \* its async_wait
          level,
          interrupted,   \* observer: set_led() has been called during a transition
          ending,        \* observer: where the LED ends, after what was asked in the
                         \* middle of the transition: "asked", "opposite" or "open"
          calls
vars == <<led_state, led_transition_delay, pwm_val, current_state, lc, is_stopped,
          period, elapsed, level, interrupted, ending, calls>>
request == <<led_state, led_transition_delay, pwm_val>>
timer == <<period, elapsed>>
----------------------------------------------------------------------------
\* async_wait::reload: a delay of 0 keeps the one before.
reload(ms) ==
    /\ period' = IF ms > 0 THEN ms ELSE period
    /\ elapsed' = (period' = 0)

\* The timer is reloaded and the thread returns, to go on here.
PT_WAIT(ms) == reload(ms) /\ lc' = "wait" /\ UNCHANGED is_stopped

PT_STOP == lc' = "begin" /\ is_stopped' = TRUE
PT_END == PT_STOP

Elapse ==
    /\ lc = "wait" /\ ~elapsed
    /\ elapsed' = TRUE
    /\ UNCHANGED <<request, current_state, lc, is_stopped, period, level,
                   interrupted, ending, calls>>
----------------------------------------------------------------------------
set_led(state, delay, pwm) ==
    /\ led_state' = state /\ led_transition_delay' = delay /\ pwm_val' = pwm
    /\ is_stopped' = FALSE

\* In the middle of a transition a call changes what is asked for and how far the
\* transition is, but not its direction; and from the last position on nothing more
\* is written, so the LED stays where it happens to be.
Ending(state, pwm) ==
    IF pwm = Top - 1 THEN "open" ELSE IF state = current_state THEN "opposite" ELSE "asked"

\* A call of the scheduler.
Request ==
    /\ calls > 0 /\ calls' = calls - 1
    /\ interrupted' = (interrupted \/ ~is_stopped)
    /\ \E state \in BOOLEAN, delay \in Periods, pwm \in Level :
          /\ set_led(state, delay, pwm)
          /\ ending' = IF lc = "wait" THEN Ending(state, pwm) ELSE ending
    /\ UNCHANGED <<current_state, lc, timer, level>>

\* Mutant: the loop runs while pwm_val <= 0xFF, which a uint8_t always is.
Ramp_Forever(pwm, current) ==
    /\ pwm_val' = pwm
    /\ level' = IF current THEN Top - pwm ELSE pwm
    /\ PT_WAIT(led_transition_delay) /\ current_state' = current

\* Mutant: the direction is taken from the state that is asked for.
Ramp_TowardsRequest(pwm, current) ==
    /\ pwm_val' = pwm
    /\ IF pwm < Top
       THEN /\ level' = IF led_state THEN Top - pwm ELSE pwm
            /\ PT_WAIT(led_transition_delay) /\ current_state' = current
       ELSE /\ PT_END /\ current_state' = led_state
            /\ UNCHANGED <<timer, level>>

\* The head of the for loop: a level is written and waited for, or the transition
\* is over.
Ramp(pwm, current) ==
    /\ pwm_val' = pwm
    /\ IF pwm < Top
       THEN /\ level' = IF current THEN Top - pwm ELSE pwm
            /\ PT_WAIT(led_transition_delay) /\ current_state' = current
       ELSE /\ PT_END /\ current_state' = led_state
            /\ UNCHANGED <<timer, level>>

\* Nothing was requested.
NoRequest ==
    /\ pwm_val = Top /\ led_state = current_state
    /\ PT_STOP
    /\ UNCHANGED <<pwm_val, current_state, timer, level, ending>>

\* Without a transition the level is written at once.
Immediate ==
    /\ pwm_val # Top \/ led_state # current_state
    /\ led_transition_delay = 0
    /\ pwm_val' = IF pwm_val = Top THEN 0 ELSE pwm_val
    /\ level' = IF led_state THEN Top ELSE 0
    /\ current_state' = led_state
    /\ PT_END
    /\ IF pwm_val = Top THEN reload(0) ELSE UNCHANGED timer
    /\ ending' = "asked"

\* Mutant: a transition to the state the LED is in is not turned round.
BeginRamp_NotTurned ==
    /\ pwm_val # Top \/ led_state # current_state
    /\ led_transition_delay > 0
    /\ Ramp(IF pwm_val = Top THEN 0 ELSE pwm_val, current_state)
    /\ ending' = "asked"

\* A transition starts at pwm_val, or at 0 if that is 0xFF.  current_state is
\* where it starts from: the opposite of what is requested.
BeginRamp ==
    /\ pwm_val # Top \/ led_state # current_state
    /\ led_transition_delay > 0
    /\ Ramp(IF pwm_val = Top THEN 0 ELSE pwm_val, ~led_state)
    /\ ending' = "asked"

\* Mutant: pwm_val counts beyond eight bits.
Advance_NoWrap ==
    /\ lc = "wait" /\ elapsed
    /\ Ramp(pwm_val + 1, current_state)
    /\ UNCHANGED ending

\* pwm_val is a uint8_t: set to 0xFF during the wait, it wraps to 0.
Advance ==
    /\ lc = "wait" /\ elapsed
    /\ Ramp((pwm_val + 1) % (Top + 1), current_state)
    /\ UNCHANGED ending

led_control ==
    /\ ~is_stopped
    /\ \/ lc = "begin" /\ (NoRequest \/ Immediate \/ BeginRamp)
       \/ Advance
    /\ UNCHANGED <<led_state, led_transition_delay, interrupted, calls>>

Init ==
    /\ led_state = FALSE /\ led_transition_delay = 0 /\ pwm_val = Top
    /\ current_state = FALSE /\ lc = "begin" /\ is_stopped = FALSE
    /\ period = 0 /\ elapsed = TRUE
    /\ level = 0
    /\ interrupted = FALSE /\ ending = "asked"
    /\ calls = Calls

Next == led_control \/ Elapse \/ Request

\* loop() keeps calling the thread, and timers expire.
Spec == Init /\ [][Next]_vars /\ WF_vars(led_control) /\ WF_vars(Elapse)
----------------------------------------------------------------------------
(***************************************************************************)
(* Properties                                                              *)
(***************************************************************************)
TypeOK ==
    /\ led_state \in BOOLEAN /\ current_state \in BOOLEAN /\ is_stopped \in BOOLEAN
    /\ led_transition_delay \in Periods \cup {0} /\ period \in Periods \cup {0}
    /\ elapsed \in BOOLEAN
    /\ pwm_val \in Level /\ level \in Level
    /\ lc \in {"begin", "wait"} /\ calls \in 0 .. Calls
    /\ interrupted \in BOOLEAN /\ ending \in {"asked", "opposite", "open"}

\* Within one level of full or of dark: the last step of a transition is not written.
Shows(on) == IF on THEN level >= Top - 1 ELSE level <= 1

\* Where the LED comes to rest, whatever requests came at rest and in the middle of
\* transitions.  It shows what was asked for last, unless that was asked in the middle
\* of a transition away from it: then the transition goes on to its end, the LED stays
\* at the opposite level, and the thread takes it to show what was asked for (a fade-out
\* that begins while the LED still comes up, src/main.cpp:548-552).  Only after a call
\* that sets the last position in the middle nothing is said.
EndsAtLevel ==
    is_stopped /\ ending # "open" =>
        Shows(IF ending = "opposite" THEN ~led_state ELSE led_state)

\* In a transition nobody interrupts, the LED only moves towards its target.
Smooth ==
    [][Advance /\ led_control /\ ~interrupted
         => IF led_state THEN level' >= level ELSE level' <= level]_vars

\* Every request is carried through: when no more come, the thread comes to rest,
\* also if requests in the middle of a transition set it back.
ComesToRest == <>[]is_stopped
============================================================================
