--------------------------- MODULE TimeSyncProofs ---------------------------
(***************************************************************************)
(* What holds of the time for every length of the interval, the timeout,   *)
(* the pause and the wrap of millis(), and any number of failures: what    *)
(* the NTP client returns while nothing fails is fresh and right, and what *)
(* the DS1307 is set to is right or was taken from a failed attempt.       *)
(***************************************************************************)
EXTENDS TimeSync, TLAPS

\* The client's counter agrees with the true age of the last update, as long as
\* that is less than a wrap.
Measured == age < Wrap => Since(last_update) = age

\* While nothing fails, the client knows a time it got from an answer, unless it is
\* waiting for one.
Informed == ~trouble /\ ~syncing => message \in Error

\* While nothing fails, an attempt is made in the second in which the update has
\* become older than the interval, and it takes no longer than the timeout; an
\* attempt that is over in its second has made the update new.
Paced ==
    ~trouble =>
        /\ online
        /\ ~Overlooked =>
             IF syncing
             THEN /\ Since(sent) <= Timeout
                  /\ age <= Interval + 1 + Since(sent)
             ELSE /\ age <= Interval + 1
                  /\ tried => age = 0

IInv == TypeOK /\ Measured /\ Informed /\ Paced
----------------------------------------------------------------------------
(***************************************************************************)
(* Arithmetic of millis()                                                  *)
(***************************************************************************)
LEMMA Remainder ==
    ASSUME NEW x \in Int
    PROVE  /\ x % Wrap \in Moment
           /\ x \in 0 .. Wrap - 1 => x % Wrap = x
           /\ x \in Wrap .. 2 * Wrap - 1 => x % Wrap = x - Wrap
           /\ x \in -Wrap .. -1 => x % Wrap = x + Wrap
BY TimeAssumption, SMTT(30) DEF Moment

\* How much time has passed, also across the wrap.
LEMMA Passed ==
    ASSUME millis \in Moment, NEW t \in Moment
    PROVE  /\ Since(t) \in Moment
           /\ Since(t) = IF millis >= t THEN millis - t ELSE millis - t + Wrap
<1>1. millis - t \in Int /\ millis - t \in -Wrap .. Wrap - 1
  BY TimeAssumption DEF Moment
<1>2. (millis - t) % Wrap \in Moment
      /\ (millis - t) % Wrap = IF millis >= t THEN millis - t ELSE millis - t + Wrap
  BY <1>1, Remainder, TimeAssumption, SMTT(30) DEF Moment
<1>. QED  BY <1>2, Zenon DEF Since

\* A second more has passed since any moment, unless a whole wrap has.
LEMMA OneMore ==
    ASSUME millis \in Moment, millis' = (millis + 1) % Wrap, NEW t \in Moment
    PROVE  /\ millis' \in Moment
           /\ Since(t)' = IF Since(t) = Wrap - 1 THEN 0 ELSE Since(t) + 1
<1>1. millis' = IF millis = Wrap - 1 THEN 0 ELSE millis + 1
  <2>1. millis + 1 \in Int /\ millis + 1 \in 0 .. Wrap
    BY TimeAssumption DEF Moment
  <2>. QED  BY <2>1, Remainder, TimeAssumption, SMTT(30) DEF Moment
<1>2. millis' \in Moment  BY <1>1, TimeAssumption DEF Moment
<1>3. Since(t)' = IF millis' >= t THEN millis' - t ELSE millis' - t + Wrap
  <2>1. millis' - t \in Int /\ millis' - t \in -Wrap .. Wrap - 1
    BY <1>2, TimeAssumption DEF Moment
  <2>. QED  BY <1>2, <2>1, Remainder, TimeAssumption, SMTT(30) DEF Since, Moment
<1>. QED  BY <1>1, <1>2, <1>3, Passed, TimeAssumption DEF Moment

\* is_synchronized() is false as soon as the interval is over, unless the update is
\* overlooked.
LEMMA Noticed ==
    ASSUME millis \in Moment, last_update \in Moment, is_synchronized, ~Overlooked
    PROVE  Since(last_update) # Interval + 1
<1>. SUFFICES ASSUME Since(last_update) = Interval + 1  PROVE FALSE
  OBVIOUS
<1>. DEFINE sum == last_update + Interval
<1>1. sum \in Int /\ sum \in 0 .. 2 * Wrap - 1  BY TimeAssumption DEF Moment
<1>. HIDE DEF sum
<1>2. sum % Wrap = IF sum < Wrap THEN sum ELSE sum - Wrap
  BY <1>1, Remainder, TimeAssumption
<1>3. sum % Wrap >= millis /\ last_update # 0 /\ sum # Wrap - 1
  BY DEF sum, is_synchronized, Overlooked
<1>. QED
  BY <1>2, <1>3, Passed, TimeAssumption DEF sum, Moment

\* time() is the timestamp of the message, as long as less than a wrap has passed.
LEMMA TimeValue ==
    ASSUME TypeOK, Measured
    PROVE  /\ time \in Error \cup {Wrong, None}
           /\ last_update # 0 /\ message \in Error /\ age < Wrap => time \in Error
<1>1. last_update \in Moment /\ millis \in Moment /\ message \in Error \cup {Cleared}
      /\ age \in 0 .. Wrap
  BY DEF TypeOK
<1>2. CASE last_update = 0 \/ message = Cleared \/ age = Wrap
  BY <1>2, TimeAssumption DEF time, Error, Cleared, Wrong, None
<1>3. CASE ~(last_update = 0 \/ message = Cleared \/ age = Wrap)
  <2>1. Since(last_update) = age  BY <1>1, <1>3, TimeAssumption DEF Measured
  <2>2. time = message  BY <1>1, <1>3, <2>1 DEF time, Error
  <2>. QED  BY <1>1, <1>3, <2>2
<1>. QED  BY <1>2, <1>3
----------------------------------------------------------------------------
LEMMA InitIInv == Init => IInv
<1>. SUFFICES ASSUME Init  PROVE IInv
  OBVIOUS
<1>1. TypeOK
  <2>1. /\ millis \in Moment /\ last_update \in Moment /\ sent \in Moment /\ paused \in Moment
        /\ age \in 0 .. Wrap /\ left \in 0 .. Disturbances
    BY TimeAssumption DEF Init, Moment
  <2>. QED  BY <2>1 DEF Init, TypeOK
<1>2. Measured  BY TimeAssumption DEF Init, Measured
<1>3. Informed /\ Paced  BY DEF Init, Informed, Paced
<1>. QED  BY <1>1, <1>2, <1>3 DEF IInv

LEMMA NextTypeOK == TypeOK /\ Measured /\ [Next]_vars => TypeOK'
<1>. SUFFICES ASSUME TypeOK, Measured, [Next]_vars  PROVE TypeOK'
  OBVIOUS
<1>1. ASSUME Fail  PROVE left' \in 0 .. Disturbances /\ trouble' \in BOOLEAN
  <2>1. left' \in 0 .. Disturbances  BY <1>1, TimeAssumption DEF Fail, TypeOK
  <2>. QED  BY <1>1, <2>1 DEF Fail
<1>2. ASSUME Fine  PROVE left' \in 0 .. Disturbances /\ trouble' \in BOOLEAN
  BY <1>2 DEF Fine, TypeOK
<1>3. CASE sync
  <2>1. /\ left' \in 0 .. Disturbances /\ trouble' \in BOOLEAN
        /\ message' \in Error \cup {Cleared} /\ sent' \in Moment /\ syncing' \in BOOLEAN
        /\ UNCHANGED <<last_update, age, millis, manager, online>> /\ tried' = TRUE
    BY <1>1, <1>2, <1>3 DEF sync, client, TypeOK
  <2>2. answers' \subseteq 0 .. MaxDelay
    <3>1. PICK rest \in SUBSET answers : answers' = rest \/ answers' = rest \cup {0}
      BY <1>3 DEF sync
    <3>2. answers \subseteq 0 .. MaxDelay /\ 0 \in 0 .. MaxDelay
      BY TimeAssumption DEF TypeOK
    <3>. QED  BY <3>1, <3>2
  <2>. QED  BY <2>1, <2>2 DEF TypeOK, manager
<1>4. CASE Answer
  <2>1. message' \in Error /\ answers' \subseteq 0 .. MaxDelay
    BY <1>4, TimeAssumption DEF Answer, TypeOK, Error
  <2>2. age' \in 0 .. Wrap  BY <1>4, TimeAssumption DEF Answer
  <2>3. trouble' \in BOOLEAN  BY <1>4 DEF Answer, TypeOK
  <2>. QED  BY <1>4, <2>1, <2>2, <2>3 DEF Answer, TypeOK, manager
<1>5. CASE GiveUp
  <2>1. left' \in 0 .. Disturbances /\ trouble' \in BOOLEAN
    BY <1>1, <1>2, <1>5 DEF GiveUp
  <2>. QED  BY <1>5, <2>1 DEF GiveUp, TypeOK, manager
<1>6. CASE clock_manager
  <2>1. left' \in 0 .. Disturbances /\ trouble' \in BOOLEAN
    BY <1>1, <1>2, <1>6 DEF clock_manager
  <2>2. rtc' \in Error \cup {Wrong} /\ paused' \in Moment /\ pausing' \in BOOLEAN
    BY <1>6, TimeValue DEF clock_manager, TypeOK
  <2>. QED  BY <1>6, <2>1, <2>2 DEF clock_manager, TypeOK, client
<1>7. CASE Tick
  <2>1. millis' \in Moment  BY <1>7, OneMore DEF Tick, TypeOK
  <2>2. age' \in 0 .. Wrap  BY <1>7, TimeAssumption DEF Tick, TypeOK
  <2>3. answers' \subseteq 0 .. MaxDelay
    BY <1>7, TimeAssumption DEF Tick, TypeOK
  <2>. QED  BY <1>7, <2>1, <2>2, <2>3 DEF Tick, TypeOK, manager
<1>8. CASE Disconnect
  BY <1>1, <1>8 DEF Disconnect, TypeOK, client, manager
<1>9. CASE Reconnect
  BY <1>9 DEF Reconnect, TypeOK, client, manager
<1>10. CASE UNCHANGED vars
  BY <1>10 DEF vars, TypeOK
<1>. QED
  BY <1>3, <1>4, <1>5, <1>6, <1>7, <1>8, <1>9, <1>10 DEF Next

\* Only an answer changes what the client measures from.
LEMMA NextMeasured == TypeOK /\ Measured /\ [Next]_vars => Measured'
<1>. SUFFICES ASSUME TypeOK, Measured, [Next]_vars  PROVE Measured'
  OBVIOUS
<1>. USE DEF Measured
<1>1. CASE UNCHANGED <<millis, last_update, age>>
  BY <1>1 DEF Since
<1>2. CASE Answer
  <2>1. Since(last_update)' = 0
    <3>1. millis' = millis /\ last_update' = millis' /\ millis \in Moment
      BY <1>2 DEF Answer, TypeOK
    <3>2. (millis - millis) % Wrap = 0  BY <3>1, TimeAssumption DEF Moment
    <3>. QED  BY <3>1, <3>2 DEF Since
  <2>. QED  BY <1>2, <2>1 DEF Answer
<1>3. CASE Tick
  <2>1. /\ last_update' = last_update /\ last_update \in Moment /\ age \in 0 .. Wrap
        /\ age' = IF age = Wrap THEN Wrap ELSE age + 1
    BY <1>3 DEF Tick, TypeOK
  <2>2. Since(last_update)' = IF Since(last_update) = Wrap - 1 THEN 0 ELSE Since(last_update) + 1
    <3>1. (millis' - last_update) % Wrap
            = IF Since(last_update) = Wrap - 1 THEN 0 ELSE Since(last_update) + 1
      BY <1>3, <2>1, OneMore DEF Tick, TypeOK, Since
    <3>. QED  BY <2>1, <3>1 DEF Since
  <2>. QED  BY <2>1, <2>2, TimeAssumption
<1>. QED
  BY <1>1, <1>2, <1>3
  DEF Next, sync, GiveUp, clock_manager, Disconnect, Reconnect, vars, client

LEMMA NextInformed == TypeOK /\ Informed /\ Paced /\ [Next]_vars => Informed'
<1>. SUFFICES ASSUME TypeOK, Informed, Paced, [Next]_vars, ~trouble', ~syncing'
              PROVE  message' \in Error
  BY DEF Informed
<1>1. CASE sync
  BY <1>1 DEF sync, Fail, client, Informed, Fine
<1>2. CASE Answer
  BY <1>2, TimeAssumption DEF Answer, TypeOK, Error
\* Online this is a failure; offline there was one.
<1>3. CASE GiveUp
  BY <1>3 DEF GiveUp, Fail, Fine, Paced
<1>4. CASE clock_manager
  BY <1>4 DEF clock_manager, Fail, Fine, Informed, client
<1>5. CASE Tick
  BY <1>5 DEF Tick, Informed
<1>6. CASE Disconnect
  BY <1>6 DEF Disconnect, Fail
<1>7. CASE Reconnect
  BY <1>7 DEF Reconnect, Informed, client
<1>8. CASE UNCHANGED vars
  BY <1>8 DEF vars, Informed
<1>. QED
  BY <1>1, <1>2, <1>3, <1>4, <1>5, <1>6, <1>7, <1>8 DEF Next

LEMMA NextPaced == TypeOK /\ Measured /\ Paced /\ [Next]_vars => Paced'
<1>. SUFFICES ASSUME TypeOK, Measured, Paced, [Next]_vars, ~trouble'  PROVE Paced'
  BY DEF Paced
<1>1. CASE sync
  \* Nothing has failed, so the wait for the answer begins.
  <2>1. /\ ~trouble /\ online /\ ~syncing /\ syncing' = TRUE /\ sent' = millis
        /\ UNCHANGED <<millis, last_update, age, online>>
    BY <1>1 DEF sync, Fail, Fine, client
  <2>2. Since(sent)' = 0
    <3>1. (millis - millis) % Wrap = 0  BY TimeAssumption DEF TypeOK, Moment
    <3>. QED  BY <2>1, <3>1 DEF Since
  <2>3. Overlooked' = Overlooked  BY <2>1 DEF Overlooked
  <2>. QED  BY <2>1, <2>2, <2>3, TimeAssumption DEF Paced, TypeOK
<1>2. CASE Answer
  <2>1. age' = 0 /\ syncing' = FALSE /\ online' = online /\ trouble' = ~online
    BY <1>2 DEF Answer
  <2>2. 0 <= Interval + 1  BY TimeAssumption
  <2>. QED  BY <2>1, <2>2 DEF Paced
<1>3. CASE GiveUp
  BY <1>3 DEF GiveUp, Fail, Fine, Paced
<1>4. CASE Tick
  <2>1. /\ ~trouble /\ online /\ UNCHANGED <<online, last_update, syncing, sent>>
        /\ tried' = FALSE /\ millis \in Moment /\ last_update \in Moment /\ sent \in Moment
        /\ age \in 0 .. Wrap /\ age' = IF age = Wrap THEN Wrap ELSE age + 1
    BY <1>4 DEF Tick, Paced, TypeOK
  <2>. SUFFICES ASSUME ~Overlooked
                PROVE  IF syncing THEN Since(sent)' <= Timeout
                                       /\ age' <= Interval + 1 + Since(sent)'
                                  ELSE age' <= Interval + 1
    BY <2>1 DEF Paced, Overlooked
  <2>2. CASE syncing
    <3>1. Since(sent) < Timeout /\ Since(sent) \in Moment /\ age <= Interval + 1 + Since(sent)
      BY <1>4, <2>1, <2>2, Passed DEF Tick, Paced
    <3>2. (millis' - sent) % Wrap = Since(sent) + 1
      <4>1. millis' = (millis + 1) % Wrap  BY <1>4 DEF Tick
      <4>2. (millis' - sent) % Wrap = IF Since(sent) = Wrap - 1 THEN 0 ELSE Since(sent) + 1
        BY <2>1, <4>1, OneMore DEF Since
      <4>. QED  BY <3>1, <4>2, TimeAssumption DEF Moment
    <3>3. Since(sent)' = Since(sent) + 1  BY <2>1, <3>2 DEF Since
    <3>. QED  BY <2>1, <2>2, <3>1, <3>3, TimeAssumption DEF Moment
  <2>3. CASE ~syncing
    <3>1. age <= Interval + 1 /\ (tried => age = 0) /\ (is_synchronized \/ tried)
      BY <1>4, <2>1, <2>3 DEF Tick, Paced
    <3>2. is_synchronized => age # Interval + 1
      BY <2>1, <3>1, Noticed, TimeAssumption DEF Measured
    <3>. QED  BY <2>1, <2>3, <3>1, <3>2, TimeAssumption
  <2>. QED  BY <2>2, <2>3
<1>5. CASE UNCHANGED <<millis, last_update, age, syncing, sent, online, trouble, tried>>
  BY <1>5 DEF Paced, Since, Overlooked
<1>6. CASE Disconnect
  BY <1>6 DEF Disconnect, Fail
<1>7. CASE Reconnect
  BY <1>7 DEF Reconnect, Paced
<1>. QED
  BY <1>1, <1>2, <1>3, <1>4, <1>5, <1>6, <1>7
  DEF Next, clock_manager, Fail, Fine, vars, client

LEMMA Invariant == Spec => []IInv
<1>1. IInv /\ [Next]_vars => IInv'
  BY NextTypeOK, NextMeasured, NextInformed, NextPaced DEF IInv
<1>. QED  BY InitIInv, <1>1, PTL DEF Spec
----------------------------------------------------------------------------
\* The DS1307 is only ever set to a time that is right within the delay of the
\* network, or to one that counts as wrong: what time() computes from millis() never
\* leaves that range, whatever wraps (src/ntp.cpp:178-187, src/main.cpp:642).
THEOREM TypeCorrect == Spec => []TypeOK
<1>1. IInv => TypeOK  BY DEF IInv
<1>. QED  BY <1>1, Invariant, PTL

\* While nothing fails, an update is never older than the interval, a second, and
\* the timeout (src/ntp.cpp:155-164).
THEOREM StaysFresh == Spec => []FreshWhileHealthy
<1>1. IInv => FreshWhileHealthy
  <2>. SUFFICES ASSUME IInv, ~trouble, ~Overlooked  PROVE age <= Interval + 1 + Timeout
    BY DEF FreshWhileHealthy
  <2>1. age \in 0 .. Wrap /\ Since(sent) \in Moment
    BY Passed DEF IInv, TypeOK
  <2>2. CASE syncing
    <3>1. Since(sent) <= Timeout /\ age <= Interval + 1 + Since(sent)
      BY <2>2 DEF IInv, Paced
    <3>. QED  BY <2>1, <3>1, TimeAssumption DEF Moment
  <2>3. CASE ~syncing
    <3>1. age <= Interval + 1  BY <2>3 DEF IInv, Paced
    <3>. QED  BY <2>1, <3>1, TimeAssumption
  <2>. QED  BY <2>2, <2>3
<1>. QED  BY <1>1, Invariant, PTL

\* While nothing has failed since the last update, time() is right
\* (src/ntp.cpp:178-187).
THEOREM StaysRight == Spec => []RightWhileHealthy
<1>1. IInv => RightWhileHealthy
  <2>. SUFFICES ASSUME IInv, ~trouble, ~syncing, ~Overlooked, time # None  PROVE time \in Error
    BY DEF RightWhileHealthy
  <2>1. age < Wrap  BY TimeAssumption DEF IInv, TypeOK, Paced
  <2>2. message \in Error  BY DEF IInv, Informed
  <2>3. last_update # 0  BY DEF time
  <2>. QED  BY <2>1, <2>2, <2>3, TimeValue DEF IInv
<1>. QED  BY <1>1, Invariant, PTL
============================================================================
