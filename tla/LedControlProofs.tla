-------------------------- MODULE LedControlProofs --------------------------
(***************************************************************************)
(* What holds of the LED for any number of levels, any delays and any      *)
(* number of requests: where it comes to rest, also after requests in the  *)
(* middle of a transition, and that a transition nobody interrupts goes    *)
(* towards its target.                                                     *)
(***************************************************************************)
EXTENDS LedControl, TLAPS

\* The thread only comes to rest in agreement with the last request (what the LED
\* shows is another matter).
InAgreement == is_stopped => current_state = led_state /\ lc = "begin"

\* The level a transition that started from current_state writes at pwm_val.
Written == level = IF current_state THEN Top - pwm_val ELSE pwm_val

\* What ending promises.  Between transitions the level already belongs to
\* current_state or to its opposite.  In a transition current_state is where the LED
\* comes from; before its last step the level is the one that will stay.
Promised ==
    IF lc = "begin"
    THEN ending # "open" => Shows(IF ending = "opposite" THEN ~current_state ELSE current_state)
    ELSE /\ ending = "asked" => current_state = ~led_state
         /\ ending = "opposite" => current_state = led_state
         /\ ending # "open" /\ pwm_val = Top - 1 => Written

\* As long as nobody interrupts, the level is the one of pwm_val at any time.
Undisturbed ==
    ~interrupted /\ lc = "wait" => current_state = ~led_state /\ pwm_val < Top /\ Written

IInv == TypeOK /\ InAgreement /\ Promised /\ Undisturbed
----------------------------------------------------------------------------
\* The LED starts dark, and the thread asks for nothing.
LEMMA InitIInv == Init => IInv
<1>. SUFFICES ASSUME Init  PROVE IInv
  OBVIOUS
<1>1. TypeOK
  <2>1. pwm_val \in Level /\ level \in Level /\ calls \in 0 .. Calls
    BY LedAssumption DEF Init, Level
  <2>. QED  BY <2>1 DEF Init, TypeOK
<1>2. InAgreement  BY DEF Init, InAgreement
<1>3. Promised /\ Undisturbed
  BY LedAssumption DEF Init, Promised, Undisturbed, Shows
<1>. QED  BY <1>1, <1>2, <1>3 DEF IInv

\* The loop writes a level of the transition, or leaves the last one written.
LEMMA RampStep ==
    ASSUME TypeOK, ~is_stopped, NEW pwm \in Level, NEW current \in BOOLEAN, Ramp(pwm, current),
           UNCHANGED <<led_state, led_transition_delay, interrupted, calls>>,
           ending' \in {"asked", "opposite", "open"}
    PROVE  /\ TypeOK' /\ InAgreement'
           /\ pwm_val' = pwm
           /\ \/ /\ pwm < Top /\ lc' = "wait" /\ current_state' = current
                 /\ Written'
              \/ /\ pwm = Top /\ lc' = "begin" /\ current_state' = led_state
                 /\ level' = level
<1>1. CASE pwm < Top
  BY <1>1, LedAssumption DEF Ramp, PT_WAIT, reload, TypeOK, InAgreement, Level, Written
<1>2. CASE ~(pwm < Top)
  <2>1. pwm = Top  BY <1>2, LedAssumption DEF Level
  <2>. QED
    BY <1>2, <2>1, LedAssumption
    DEF Ramp, PT_END, PT_STOP, TypeOK, InAgreement, Level, timer
<1>. QED  BY <1>1, <1>2

\* A transition that begins writes its first level.
LEMMA BeginRampStep ==
    ASSUME IInv, led_control, lc = "begin", BeginRamp
    PROVE  IInv'
<1>. DEFINE pwm == IF pwm_val = Top THEN 0 ELSE pwm_val
<1>1. pwm \in Level /\ pwm # Top /\ (~led_state) \in BOOLEAN
  BY LedAssumption DEF IInv, TypeOK, Level
<1>2. Ramp(pwm, ~led_state) /\ ending' = "asked"  BY DEF BeginRamp
<1>. HIDE DEF pwm
<1>3. TypeOK /\ ~is_stopped /\ UNCHANGED <<led_state, led_transition_delay, interrupted, calls>>
  BY DEF led_control, IInv
<1>4. /\ TypeOK' /\ InAgreement' /\ pwm_val' = pwm
      /\ \/ pwm < Top /\ lc' = "wait" /\ current_state' = ~led_state /\ Written'
         \/ pwm = Top
  BY <1>1, <1>2, <1>3, RampStep
<1>5. lc' = "wait" /\ current_state' = ~led_state' /\ Written' /\ pwm_val' < Top
  BY <1>1, <1>3, <1>4
<1>. QED  BY <1>2, <1>4, <1>5 DEF IInv, Promised, Undisturbed

\* A transition goes one step further, or ends one level before its target.
LEMMA AdvanceStep ==
    ASSUME IInv, led_control, Advance
    PROVE  IInv'
<1>. DEFINE pwm == (pwm_val + 1) % (Top + 1)
<1>1. /\ pwm \in Level
      /\ pwm_val < Top => pwm = pwm_val + 1
      /\ pwm = Top => pwm_val = Top - 1
  BY LedAssumption DEF IInv, TypeOK, Level
<1>2. /\ Ramp(pwm, current_state) /\ lc = "wait" /\ ~is_stopped
      /\ current_state \in BOOLEAN /\ TypeOK
      /\ UNCHANGED <<led_state, led_transition_delay, interrupted, ending, calls>>
      /\ ending \in {"asked", "opposite", "open"}
  BY DEF led_control, Advance, IInv, TypeOK
<1>. HIDE DEF pwm
<1>3. /\ TypeOK' /\ InAgreement' /\ pwm_val' = pwm
      /\ \/ pwm < Top /\ lc' = "wait" /\ current_state' = current_state /\ Written'
         \/ pwm = Top /\ lc' = "begin" /\ current_state' = led_state /\ level' = level
  BY <1>1, <1>2, RampStep
<1>4. CASE pwm < Top
  <2>1. lc' = "wait" /\ current_state' = current_state /\ Written' /\ pwm_val' < Top
    BY <1>1, <1>3, <1>4, LedAssumption
  <2>2. Promised'
    BY <1>2, <2>1 DEF IInv, Promised
  <2>3. Undisturbed'
    BY <1>2, <2>1 DEF IInv, Undisturbed
  <2>. QED  BY <1>3, <2>2, <2>3 DEF IInv
<1>5. CASE pwm = Top
  <2>1. lc' = "begin" /\ current_state' = led_state /\ level' = level /\ pwm_val = Top - 1
    BY <1>1, <1>3, <1>5, LedAssumption
  <2>2. ASSUME ending # "open"
        PROVE  Shows(~current_state)
    <3>1. Written  BY <1>2, <2>1, <2>2 DEF IInv, Promised
    <3>2. level = IF current_state THEN 1 ELSE Top - 1
      BY <2>1, <3>1, LedAssumption DEF Written
    <3>. QED  BY <1>2, <3>2 DEF Shows
  <2>3. ASSUME ending # "open"
        PROVE  Shows(IF ending = "opposite" THEN ~led_state ELSE led_state)
    <3>1. /\ ending = "asked" => led_state = ~current_state
          /\ ending = "opposite" => led_state = current_state
          /\ led_state \in BOOLEAN
      BY <1>2 DEF IInv, Promised, TypeOK
    <3>2. CASE ending = "asked"
      BY <2>2, <3>1, <3>2
    <3>3. CASE ending = "opposite"
      BY <2>2, <3>1, <3>3
    <3>. QED  BY <1>2, <2>3, <3>2, <3>3
  <2>4. Promised'
    BY <1>2, <2>1, <2>3 DEF Promised, Shows
  <2>5. Undisturbed'
    BY <2>1 DEF Undisturbed
  <2>. QED  BY <1>3, <2>4, <2>5 DEF IInv
<1>. QED  BY <1>3, <1>4, <1>5

\* A request changes what the thread will do, at rest, on its way there, or in the
\* middle of a transition.
LEMMA RequestStep ==
    ASSUME IInv, Request
    PROVE  IInv'
<1>1. PICK state \in BOOLEAN, delay \in Periods, pwm \in Level :
          /\ set_led(state, delay, pwm)
          /\ ending' = IF lc = "wait" THEN Ending(state, pwm) ELSE ending
  BY DEF Request
<1>2. /\ led_state' = state /\ led_transition_delay' = delay /\ pwm_val' = pwm
      /\ is_stopped' = FALSE
      /\ interrupted' = (interrupted \/ ~is_stopped)
      /\ UNCHANGED <<current_state, lc, timer, level>>
  BY <1>1 DEF Request, set_led
<1>3. TypeOK'
  <2>1. calls' \in 0 .. Calls /\ interrupted' \in BOOLEAN
    BY LedAssumption DEF Request, IInv, TypeOK
  <2>2. ending' \in {"asked", "opposite", "open"}
    BY <1>1 DEF Ending, IInv, TypeOK
  <2>. QED  BY <1>1, <1>2, <2>1, <2>2 DEF IInv, TypeOK, timer
<1>4. InAgreement'
  BY <1>2 DEF InAgreement
<1>5. Promised'
  <2>1. CASE lc = "begin"
    BY <1>1, <1>2, <2>1 DEF IInv, Promised, Shows
  <2>2. CASE lc = "wait"
    <3>1. ending' = Ending(state, pwm)
      BY <1>1, <2>2
    <3>2. /\ ending' = "asked" => current_state' = ~led_state'
          /\ ending' = "opposite" => current_state' = led_state'
          /\ ending' # "open" => pwm_val' # Top - 1
      BY <1>1, <1>2, <3>1 DEF Ending, IInv, TypeOK
    <3>. QED  BY <1>2, <2>2, <3>2 DEF Promised
  <2>. QED  BY <2>1, <2>2 DEF IInv, TypeOK
\* Only a request at rest leaves interrupted as it is: it finds lc = "begin".
<1>6. Undisturbed'
  BY <1>2 DEF IInv, InAgreement, Undisturbed
<1>. QED  BY <1>3, <1>4, <1>5, <1>6 DEF IInv

\* Every step keeps the invariant.
LEMMA NextIInv == IInv /\ [Next]_vars => IInv'
<1>. SUFFICES ASSUME IInv, [Next]_vars  PROVE IInv'
  OBVIOUS
<1>1. CASE Elapse
  <2>1. TypeOK'
    BY <1>1 DEF Elapse, IInv, TypeOK, request
  <2>. QED
    BY <1>1, <2>1 DEF Elapse, IInv, InAgreement, Promised, Undisturbed, Written, Shows, request
<1>2. CASE Request
  BY <1>2, RequestStep
<1>3. CASE led_control
  <2>. UNCHANGED <<led_state, led_transition_delay, interrupted, calls>>
    BY <1>3 DEF led_control
  <2>1. CASE lc = "begin" /\ NoRequest
    BY <2>1 DEF NoRequest, PT_STOP, IInv, TypeOK, InAgreement, Promised, Undisturbed, Written,
                Shows, timer
  <2>2. CASE lc = "begin" /\ Immediate
    <3>1. TypeOK'
      BY <2>2, LedAssumption DEF Immediate, PT_END, PT_STOP, reload, IInv, TypeOK, Level, timer
    <3>2. /\ level' = IF led_state THEN Top ELSE 0
          /\ lc' = "begin" /\ ending' = "asked" /\ current_state' = led_state
      BY <2>2 DEF Immediate, PT_END, PT_STOP
    <3>3. InAgreement' /\ Undisturbed'
      BY <3>2 DEF InAgreement, Undisturbed
    <3>4. Promised'
      BY <3>2, LedAssumption DEF Promised, Shows
    <3>. QED  BY <3>1, <3>3, <3>4 DEF IInv
  <2>3. CASE lc = "begin" /\ BeginRamp
    BY <1>3, <2>3, BeginRampStep
  <2>4. CASE Advance
    BY <1>3, <2>4, AdvanceStep
  <2>. QED  BY <1>3, <2>1, <2>2, <2>3, <2>4 DEF led_control
<1>4. CASE UNCHANGED vars
  BY <1>4 DEF vars, request, timer, IInv, TypeOK, InAgreement, Promised, Undisturbed, Written,
              Shows
<1>. QED  BY <1>1, <1>2, <1>3, <1>4 DEF Next

\* It holds at all times.
LEMMA Invariant == Spec => []IInv
BY InitIInv, NextIInv, PTL DEF Spec
----------------------------------------------------------------------------
\* pwm_val stays a byte, also when it is set to its last value while it counts
\* (src/main.cpp:548).
THEOREM TypeCorrect == Spec => []TypeOK
<1>1. IInv => TypeOK  BY DEF IInv
<1>. QED  BY <1>1, Invariant, PTL

\* Where the LED comes to rest for every request, at rest and in the middle of a
\* transition: within one level of what was asked for last, or of the opposite if that
\* was asked against the transition (src/main.cpp:541, 548-552).
THEOREM ArrivesAtLevel == Spec => []EndsAtLevel
<1>1. IInv => EndsAtLevel
  BY DEF IInv, InAgreement, Promised, Shows, EndsAtLevel
<1>. QED  BY <1>1, Invariant, PTL

\* A transition nobody interrupts never moves the LED away from its target
\* (src/main.cpp:549).
THEOREM MovesTowardsTarget == Spec => Smooth
<1>1. ASSUME IInv, Advance, led_control, ~interrupted
      PROVE  IF led_state THEN level' >= level ELSE level' <= level
  <2>1. /\ lc = "wait" /\ pwm_val \in Level /\ current_state \in BOOLEAN
        /\ led_state \in BOOLEAN /\ current_state = ~led_state /\ pwm_val < Top
        /\ level = IF current_state THEN Top - pwm_val ELSE pwm_val
    BY <1>1 DEF Advance, IInv, TypeOK, Undisturbed, Written
  <2>2. (pwm_val + 1) % (Top + 1) = pwm_val + 1
    BY <2>1, LedAssumption DEF Level
  <2>3. Ramp(pwm_val + 1, current_state)
    BY <1>1, <2>2 DEF Advance
  <2>4. pwm_val + 1 < Top =>
          level' = IF current_state THEN Top - (pwm_val + 1) ELSE pwm_val + 1
    BY <2>3 DEF Ramp
  <2>5. ~(pwm_val + 1 < Top) => level' = level
    BY <2>3 DEF Ramp
  <2>6. CASE led_state
    <3>1. level = pwm_val /\ (pwm_val + 1 < Top => level' = pwm_val + 1)
      BY <2>1, <2>4, <2>6
    <3>. QED  BY <2>1, <2>5, <2>6, <3>1, LedAssumption DEF Level
  <2>7. CASE ~led_state
    <3>1. /\ level = Top - pwm_val
          /\ pwm_val + 1 < Top => level' = Top - (pwm_val + 1)
      BY <2>1, <2>4, <2>7
    <3>. QED  BY <2>1, <2>5, <2>7, <3>1, LedAssumption DEF Level
  <2>. QED  BY <2>6, <2>7
<1>2. IInv /\ [Next]_vars =>
        [Advance /\ led_control /\ ~interrupted
           => IF led_state THEN level' >= level ELSE level' <= level]_vars
  BY <1>1
<1>. QED  BY <1>2, Invariant, PTL DEF Spec, Smooth
============================================================================
