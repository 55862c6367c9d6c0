-------------------------- MODULE SchedulerProofs --------------------------
(***************************************************************************)
(* Invariants of the scheduler, for every length of the day, every set of  *)
(* entries and any number of disturbances: its types; a lit LED always has *)
(* an owner; if no pass is late the LED is on only inside the window of    *)
(* its owner; no transition that is computed from the minutes of a window  *)
(* begins at the position that means none; and as long as nothing disturbs *)
(* the scheduler no stored record is missed.                               *)
(***************************************************************************)
EXTENDS Scheduler, FiniteSetTheorems, WellFoundedInduction, TLAPS

\* Everything the scheduler holds is an entry.
Entries ==
    /\ \A a \in DOMAIN records : records[a] \in Data
    /\ cache \subseteq Data
    /\ item \in Data
    /\ now \in Minute

\* Every pass comes in its minute: no clock step skips one, and cache() never
\* runs over into the next one.
Punctual == "late" \notin Allowed

\* Where the clock stands while the LED is on: inside the window, or, when the
\* pass of this minute is still to come, at most at its end.
LitWindow ==
    lamp.state =>
        IF waiting
        THEN item.start <= now /\ now < item.end - item.transition_time
        ELSE item.start < now /\ now <= item.end - item.transition_time
----------------------------------------------------------------------------
\* Entries fit into the day, and so do their transitions.
LEMMA DataTimes ==
  ASSUME NEW e \in Data
  PROVE  /\ e.start \in Nat /\ e.end \in Nat /\ e.transition_time \in Nat
         /\ e.end < Day /\ e.transition_time <= e.end
         /\ Day \in Nat
  <1>1. CASE e = BlankEntry
    BY <1>1, SchedulerAssumption DEF BlankEntry
  <1>2. CASE e \in Entry
    <2>1. /\ e \in EntryType /\ e.start < e.end
          /\ 2 * e.transition_time <= e.end - e.start
          /\ Day \in Nat
      BY <1>2, SchedulerAssumption, Zenon
    <2>2. QED
      BY <2>1 DEF EntryType, Minute
  <1>3. QED
    BY <1>1, <1>2 DEF Data

\* The cache only ever holds what was put into it.
LEMMA LoadedEntries ==
  ASSUME Entries, NEW seen, NEW stop
  PROVE  Loaded(seen, stop) \subseteq Data
  BY DEF Entries, Loaded, Trimmed

\* Only entries are ever held, from the start on.
LEMMA EntriesInit == Init => Entries
  <1> SUFFICES ASSUME Init
               PROVE  Entries
    OBVIOUS
  <1>1. \A a \in DOMAIN records : records[a] \in Data
    BY DEF Init
  <1>2. QED
    BY <1>1 DEF Init, Entries, Data

\* Each step of the specification keeps Entries.
LEMMA EntriesStep ==
  ASSUME Entries, [Next]_vars
  PROVE  Entries'
  <1>1. CASE entries_processing
    <2>1. records' = records /\ now' = now
      BY <1>1 DEF entries_processing
    <2>2. CASE NoEntries
      BY <2>1, <2>2, LoadedEntries DEF NoEntries, Entries
    <2>3. ASSUME NEW c \in {cache} \cup {LoadedAll(seen) : seen \in Seen}, NEW i \in c \cup {item},
                 item' = i,
                 EndItem(c, i) \/ FadeOut(c, i) \/ Begin(c, i) \/ Nothing(c, i)
          PROVE  Entries'
      <3>1. c \subseteq Data
        BY LoadedEntries DEF LoadedAll, Entries
      <3>2. cache' \subseteq c
        BY <2>3 DEF EndItem, FadeOut, Begin, Nothing
      <3>3. i \in Data
        BY <2>3, <3>1 DEF Entries
      <3>4. QED
        BY <2>1, <2>3, <3>1, <3>2, <3>3 DEF Entries
    <2>4. QED
      BY <1>1, <2>2, <2>3 DEF entries_processing
  <1>2. ASSUME NEW e \in Entry, web_add_record_cb(e)
        PROVE  Entries'
    <2>1. cache' \subseteq Data
      BY <1>2 DEF web_add_record_cb, cache_push, Trimmed, Entries, Data
    <2>2. ASSUME NEW a \in Slot, NEW d \in Data, Store!Add(a, d)
          PROVE  \A b \in DOMAIN records' : records'[b] \in Data
      BY <2>2 DEF Store!Add, Entries
    <2>3. \A b \in DOMAIN records' : records'[b] \in Data
      BY <1>2, <2>2 DEF web_add_record_cb, Entries, Data
    <2>4. QED
      BY <1>2, <2>1, <2>3 DEF web_add_record_cb, Entries
  <1>3. ASSUME NEW a \in Slot, web_delete_record_cb(a)
        PROVE  Entries'
    <2>1. cache' \subseteq cache
      BY <1>3 DEF web_delete_record_cb
    <2>2. \A b \in DOMAIN records' : records'[b] \in Data
      BY <1>3 DEF web_delete_record_cb, Store!Remove, Entries
    <2>3. QED
      BY <1>3, <2>1, <2>2 DEF web_delete_record_cb, Entries
  <1>4. CASE NextMinute
    <2>1. now' \in Minute
      BY <1>4, SchedulerAssumption DEF NextMinute, Minute, Entries
    <2>2. QED
      BY <1>4, <2>1 DEF NextMinute, Entries
  <1>5. CASE UNCHANGED vars
    BY <1>5 DEF Entries, vars
  <1>6. QED
    BY <1>1, <1>2, <1>3, <1>4, <1>5 DEF Next

\* Each step keeps a lit LED with its owner.
LEMMA OwnerStep ==
  ASSUME LitHasOwner, [Next]_vars
  PROVE  LitHasOwner'
  <1>1. CASE entries_processing
    <2>1. CASE NoEntries
      BY <2>1 DEF NoEntries, LitHasOwner
    <2>2. ASSUME NEW c, NEW i, EndItem(c, i)
          PROVE  LitHasOwner'
      BY <2>2 DEF EndItem, set_led, LitHasOwner
    <2>3. ASSUME NEW c, NEW i, FadeOut(c, i)
          PROVE  LitHasOwner'
      BY <2>3 DEF FadeOut, Caught, set_led, LitHasOwner
    <2>4. ASSUME NEW c, NEW i, Begin(c, i)
          PROVE  LitHasOwner'
      BY <2>4 DEF Begin, Caught, set_led, LitHasOwner
    <2>5. ASSUME NEW c, NEW i, Nothing(c, i)
          PROVE  LitHasOwner'
      BY <2>5 DEF Nothing, Caught, LitHasOwner
    <2>6. QED
      BY <1>1, <2>1, <2>2, <2>3, <2>4, <2>5 DEF entries_processing
  <1>2. ASSUME NEW e \in Entry, web_add_record_cb(e)
        PROVE  LitHasOwner'
    BY <1>2 DEF web_add_record_cb, LitHasOwner
  <1>3. ASSUME NEW a \in Slot, web_delete_record_cb(a)
        PROVE  LitHasOwner'
    BY <1>3 DEF web_delete_record_cb, LitHasOwner
  <1>4. CASE NextMinute
    BY <1>4 DEF NextMinute, LitHasOwner
  <1>5. CASE UNCHANGED vars
    BY <1>5 DEF LitHasOwner, vars
  <1>6. QED
    BY <1>1, <1>2, <1>3, <1>4, <1>5 DEF Next

\* A lit LED is never without the caught entry whose window began.
THEOREM OwnedLight == Spec => []LitHasOwner
  <1>1. Init => LitHasOwner
    BY DEF Init, LitHasOwner
  <1>2. QED
    BY <1>1, OwnerStep, PTL DEF Spec
----------------------------------------------------------------------------
\* The pass of a minute finds the LED on at most at the end of its window, and
\* leaves it on only inside it.
LEMMA PassLitWindow ==
  ASSUME Entries, LitHasOwner, LitWindow, entries_processing
  PROVE  LitWindow'
  <1>1. ~waiting /\ waiting' /\ now' = now
    BY DEF entries_processing
  <1>2. CASE NoEntries
    BY <1>1, <1>2 DEF NoEntries, LitHasOwner, LitWindow
  <1>3. ASSUME NEW c \in {cache} \cup {LoadedAll(seen) : seen \in Seen}, NEW i \in c \cup {item},
               Catch(c, i), item' = i
        PROVE  EndItem(c, i) \/ FadeOut(c, i) \/ Begin(c, i) \/ Nothing(c, i)
                 => LitWindow'
    <2>1. i \in Data
      BY LoadedEntries DEF LoadedAll, Entries
    <2>2. /\ i.start \in Nat /\ i.end \in Nat /\ i.transition_time \in Nat
          /\ i.transition_time <= i.end /\ now \in Nat
      BY <2>1, DataTimes, SchedulerAssumption DEF Entries, Minute
    <2>3. CASE EndItem(c, i)
      BY <2>3 DEF EndItem, set_led, LitWindow
    <2>4. CASE FadeOut(c, i)
      BY <2>4 DEF FadeOut, set_led, LitWindow
    <2>5. CASE Begin(c, i)
      <3>1. i.start <= now /\ now < i.end - i.transition_time
        BY <2>2, <2>5 DEF Begin, FadesOut
      <3>2. QED
        BY <1>1, <1>3, <3>1 DEF LitWindow
    <2>6. CASE Nothing(c, i)
      <3> SUFFICES ASSUME lamp'.state
                   PROVE  i.start <= now /\ now < i.end - i.transition_time
        BY <1>1, <1>3 DEF LitWindow
      <3>1. lamp.state /\ is_processing
        BY <2>6 DEF Nothing, LitHasOwner
      <3>2. i = item /\ i.start < now
        BY <1>1, <1>3, <3>1 DEF Catch, LitWindow
      <3>3. now < i.end - i.transition_time
        BY <2>2, <2>6 DEF Nothing, FadesOut
      <3>4. QED
        BY <2>2, <3>2, <3>3
    <2>7. QED
      BY <2>3, <2>4, <2>5, <2>6
  <1>4. QED
    BY <1>2, <1>3 DEF entries_processing

\* The clock takes the LED at most to the end of its window.
LEMMA ClockLitWindow ==
  ASSUME Punctual, Entries, LitHasOwner, LitWindow, NextMinute
  PROVE  LitWindow'
  <1>1. waiting /\ ~waiting' /\ now' = (now + 1) % Day
    BY DEF NextMinute, Disturb, Punctual
  <1> SUFFICES ASSUME lamp.state
               PROVE  item.start < now' /\ now' <= item.end - item.transition_time
    BY <1>1 DEF LitWindow, NextMinute
  <1>2. item.start <= now /\ now < item.end - item.transition_time
    BY <1>1 DEF LitWindow
  <1>3. /\ item.start \in Nat /\ item.end \in Nat /\ item.transition_time \in Nat
        /\ item.end < Day /\ now \in Nat /\ Day \in Nat
    BY DataTimes, SchedulerAssumption DEF Entries, Minute
  <1>4. now' = now + 1
    BY <1>1, <1>2, <1>3
  <1>5. QED
    BY <1>2, <1>3, <1>4

\* If no pass is late, the LED is on only inside the window of its entry: the
\* scheduler never forgets to switch it off, whatever is added and deleted.
THEOREM LightInWindow ==
  ASSUME Punctual
  PROVE  Spec => []LitOnlyInWindow
  <1> DEFINE IInv == Entries /\ LitHasOwner /\ LitWindow
  <1>1. Init => IInv
    BY EntriesInit DEF Init, LitHasOwner, LitWindow
  <1>2. IInv /\ [Next]_vars => IInv'
    <2> SUFFICES ASSUME IInv, [Next]_vars
                 PROVE  IInv'
      OBVIOUS
    <2>1. Entries' /\ LitHasOwner'
      BY EntriesStep, OwnerStep
    <2>2. CASE entries_processing
      BY <2>1, <2>2, PassLitWindow
    <2>3. ASSUME NEW e \in Entry, web_add_record_cb(e)
          PROVE  LitWindow'
      BY <2>3 DEF web_add_record_cb, LitWindow
    <2>4. ASSUME NEW a \in Slot, web_delete_record_cb(a)
          PROVE  LitWindow'
      BY <2>4 DEF web_delete_record_cb, LitWindow
    <2>5. CASE NextMinute
      BY <2>1, <2>5, ClockLitWindow
    <2>6. CASE UNCHANGED vars
      BY <2>1, <2>6 DEF LitWindow, vars
    <2>7. QED
      BY <2>1, <2>2, <2>3, <2>4, <2>5, <2>6 DEF Next
  <1>3. IInv => LitOnlyInWindow
    BY DEF LitWindow, LitOnlyInWindow
  <1>4. QED
    BY <1>1, <1>2, <1>3, PTL DEF Spec
----------------------------------------------------------------------------
\* The last position is one, and a minute has as many milliseconds at least.
LEMMA TopType == Top \in Nat \ {0} /\ Top <= MinuteMs
  <1>1. Top \in 1 .. MinuteMs
    BY SchedulerAssumption, Zenon
  <1>2. QED
    BY <1>1 DEF MinuteMs

\* A position is cut to the byte it is handed over in.
LEMMA ByteType ==
  ASSUME NEW p \in Int
  PROVE  p % (Top + 1) \in 0 .. Top
  <1> DEFINE size == Top + 1
  <1>1. size \in Nat \ {0} /\ Top = size - 1
    BY TopType
  <1> HIDE DEF size
  <1>2. p % size \in 0 .. size - 1
    BY <1>1
  <1>3. QED
    BY <1>1, <1>2 DEF size

\* Integer division rounds down.
LEMMA QuotientBelow ==
  ASSUME NEW x \in Nat, NEW d \in Nat \ {0}, NEW q \in Nat, x < q * d
  PROVE  x \div d \in 0 .. q - 1
  <1>1. x \div d \in Nat /\ (x \div d) * d <= x
    OBVIOUS
  <1>2. ASSUME x \div d >= q
        PROVE  FALSE
    <2>1. (x \div d) * d >= q * d
      BY <1>1, <1>2
    <2>2. QED
      BY <1>1, <2>1
  <1>3. QED
    BY <1>1, <1>2

\* Before a transition of tt minutes is over, it is below its last step.
LEMMA ProgressBelowTop ==
  ASSUME NEW tt \in Nat, NEW m \in Nat, m < tt
  PROVE  Progress(m, tt) \in 0 .. Top - 1
  <1> DEFINE x == m * MinuteMs
             y == tt * MinuteMs
             d == y \div Top
  <1>1. x \in Nat /\ y \in Nat /\ x + MinuteMs <= y /\ MinuteMs \in Nat /\ 0 <= x
    BY DEF MinuteMs
  <1>2. Top \in Nat \ {0} /\ Top <= MinuteMs
    BY TopType
  <1> HIDE DEF x, y
  <1>3. d \in Nat /\ y < (d + 1) * Top
    BY <1>1, <1>2
  <1> HIDE DEF d
  <1>4. (d + 1) * Top = d * Top + Top /\ d * Top \in Nat
    BY <1>2, <1>3
  <1>5. x < d * Top
    BY <1>1, <1>2, <1>3, <1>4
  <1>6. d # 0
    BY <1>1, <1>2, <1>5
  <1>7. x < Top * d
    BY <1>2, <1>3, <1>5
  <1>8. x \div d \in 0 .. Top - 1
    BY <1>1, <1>2, <1>3, <1>6, <1>7, QuotientBelow
  <1>9. QED
    BY <1>8 DEF Progress, d, x, y

\* A position below Top fits into the byte and is not Top there.
LEMMA BelowTopFits ==
  ASSUME NEW p \in 0 .. Top - 1
  PROVE  p % (Top + 1) # Top
  <1>1. p % (Top + 1) = p
    BY TopType
  <1>2. QED
    BY <1>1, TopType

\* What a branch of the pass hands over.
LEMMA BelowTopPass ==
  ASSUME Entries, NEW c, NEW i \in Data, lamp' # lamp, lamp'.pwm = Top,
         EndItem(c, i) \/ FadeOut(c, i) \/ Begin(c, i) \/ Nothing(c, i)
  PROVE  is_processing /\ ~lamp'.state /\ now % (Top + 1) = Top
  <1>1. i.start \in Nat /\ i.end \in Nat /\ i.transition_time \in Nat /\ now \in Nat
    BY DataTimes, SchedulerAssumption DEF Entries, Minute
  <1>2. Top \in Nat \ {0}
    BY TopType
  <1>3. 0 % (Top + 1) # Top
    BY <1>2
  <1>4. CASE EndItem(c, i)
    <2>1. lamp'.pwm = 0 % (Top + 1)
      BY <1>4 DEF EndItem, set_led
    <2>2. QED
      BY <1>3, <2>1
  <1>5. CASE FadeOut(c, i) /\ is_processing
    BY <1>5 DEF FadeOut, set_led
  <1>6. CASE FadeOut(c, i) /\ ~is_processing
    <2> DEFINE m == now - (i.end - i.transition_time)
    <2>1. m \in Nat /\ m < i.transition_time
      BY <1>1, <1>6 DEF FadeOut, FadesOut
    <2> HIDE DEF m
    <2>2. Progress(m, i.transition_time) % (Top + 1) # Top
      BY <1>1, <2>1, ProgressBelowTop, BelowTopFits
    <2>3. lamp'.pwm = Progress(m, i.transition_time) % (Top + 1)
      BY <1>6 DEF FadeOut, set_led, m
    <2>4. QED
      BY <2>2, <2>3
  <1>7. CASE Begin(c, i) /\ now - i.start >= i.transition_time
    <2>1. lamp'.pwm = 0 % (Top + 1)
      BY <1>7 DEF Begin, set_led
    <2>2. QED
      BY <1>3, <2>1
  <1>8. CASE Begin(c, i) /\ ~(now - i.start >= i.transition_time)
    <2> DEFINE m == now - i.start
    <2>1. m \in Nat /\ m < i.transition_time
      BY <1>1, <1>8 DEF Begin
    <2>2. lamp'.pwm = Progress(m, i.transition_time) % (Top + 1)
      BY <1>8 DEF Begin, set_led
    <2> HIDE DEF m
    <2>3. Progress(m, i.transition_time) % (Top + 1) # Top
      BY <1>1, <2>1, ProgressBelowTop, BelowTopFits
    <2>4. QED
      BY <2>2, <2>3
  <1>9. CASE Nothing(c, i)
    BY <1>9 DEF Nothing
  <1>10. QED
    BY <1>4, <1>5, <1>6, <1>7, <1>8, <1>9

\* Only the minute of the day (src/main.cpp:606) is ever handed over as the position
\* that means "nothing was requested", and only when it is that number: in a day of any
\* length, for every transition time, and however late a window is noticed.
THEOREM NoTopFromWindow == Spec => TopOnlyInFadeOut
  <1>1. ASSUME Entries, [Next]_vars, lamp' # lamp, lamp'.pwm = Top
        PROVE  is_processing /\ ~lamp'.state /\ now % (Top + 1) = Top
    <2>1. CASE entries_processing
      <3>1. CASE NoEntries
        BY <1>1, <3>1 DEF NoEntries
      <3>2. ASSUME NEW c \in {cache} \cup {LoadedAll(seen) : seen \in Seen},
                   NEW i \in c \cup {item},
                   EndItem(c, i) \/ FadeOut(c, i) \/ Begin(c, i) \/ Nothing(c, i)
            PROVE  is_processing /\ ~lamp'.state /\ now % (Top + 1) = Top
        <4>1. i \in Data
          BY <1>1, LoadedEntries DEF LoadedAll, Entries
        <4>2. QED
          BY <1>1, <3>2, <4>1, BelowTopPass
      <3>3. QED
        BY <2>1, <3>1, <3>2 DEF entries_processing
    <2>2. QED
      BY <1>1, <2>1 DEF Next, web_add_record_cb, web_delete_record_cb, NextMinute, vars
  <1>2. Entries /\ [Next]_vars
          => [lamp' # lamp /\ lamp'.pwm = Top
                => is_processing /\ ~lamp'.state /\ now % (Top + 1) = Top]_vars
    BY <1>1
  <1>3. QED
    BY <1>2, EntriesInit, EntriesStep, PTL DEF Spec, TopOnlyInFadeOut
----------------------------------------------------------------------------
\* The types that Entries does not speak of.
Types ==
    /\ DOMAIN records \subseteq Slot
    /\ is_catched \in BOOLEAN /\ is_processing \in BOOLEAN /\ waiting \in BOOLEAN
    /\ lamp \in [state : BOOLEAN, transition : Nat, pwm : 0 .. Top]
    /\ left \in 0 .. Disturbances

\* The device starts with them.
LEMMA TypesInit == Init => Types
  <1> SUFFICES ASSUME Init
               PROVE  Types
    OBVIOUS
  <1>1. DOMAIN records \subseteq Slot
    BY DEF Init
  <1>2. lamp \in [state : BOOLEAN, transition : Nat, pwm : 0 .. Top]
    BY TopType DEF Init
  <1>3. left \in 0 .. Disturbances
    BY SchedulerAssumption DEF Init
  <1>4. is_catched \in BOOLEAN /\ is_processing \in BOOLEAN /\ waiting \in BOOLEAN
    BY DEF Init
  <1>5. QED
    BY <1>1, <1>2, <1>3, <1>4 DEF Types

\* A pass changes none but the thread's own variables, and cuts pwm to eight bits.
LEMMA PassTypes ==
  ASSUME Entries, Types, entries_processing
  PROVE  Types'
  <1>1. waiting' = TRUE /\ records' = records
    BY DEF entries_processing
  <1>2. ASSUME NEW kind, Disturb(kind)
        PROVE  left' \in 0 .. Disturbances
    BY <1>2, SchedulerAssumption DEF Disturb, Types
  <1>3. ASSUME NEW seen, SeeMinutes(seen)
        PROVE  left' \in 0 .. Disturbances
    BY <1>2, <1>3 DEF SeeMinutes, Types
  <1>4. CASE NoEntries
    <2>1. left' \in 0 .. Disturbances
      BY <1>2, <1>3, <1>4 DEF NoEntries
    <2>2. QED
      BY <1>1, <1>4, <2>1 DEF NoEntries, Types
  <1>5. ASSUME NEW c \in {cache} \cup {LoadedAll(seen) : seen \in Seen}, NEW i \in c \cup {item},
               Catch(c, i),
               EndItem(c, i) \/ FadeOut(c, i) \/ Begin(c, i) \/ Nothing(c, i)
        PROVE  Types'
    <2>1. left' \in 0 .. Disturbances
      BY <1>3, <1>5 DEF Catch, Types
    <2>2. is_catched' \in BOOLEAN /\ is_processing' \in BOOLEAN
      BY <1>5 DEF EndItem, FadeOut, Begin, Nothing, Caught, Types
    <2>3. i \in Data
      BY LoadedEntries DEF LoadedAll, Entries
    <2>4. i.start \in Nat /\ i.end \in Nat /\ i.transition_time \in Nat /\ now \in Nat
      BY <2>3, DataTimes, SchedulerAssumption DEF Entries, Minute
    <2>5. i.transition_time * MinuteMs \in Nat
      BY <2>4 DEF MinuteMs
    <2>6. lamp' \in [state : BOOLEAN, transition : Nat, pwm : 0 .. Top]
      <3>1. \A state \in BOOLEAN, transition \in Nat, pwm \in Int :
               [state |-> state, transition |-> transition, pwm |-> pwm % (Top + 1)]
                 \in [state : BOOLEAN, transition : Nat, pwm : 0 .. Top]
        BY ByteType
      <3>2. ASSUME NEW m \in Nat, m < i.transition_time
            PROVE  Progress(m, i.transition_time) \in Int
        BY <2>4, <3>2, ProgressBelowTop
      <3>3. CASE EndItem(c, i)
        <4>1. lamp' = [state |-> FALSE, transition |-> 0, pwm |-> 0 % (Top + 1)]
          BY <3>3 DEF EndItem, set_led
        <4>2. 0 \in Nat /\ 0 \in Int /\ FALSE \in BOOLEAN
          OBVIOUS
        <4>3. QED
          BY <3>1, <4>1, <4>2, Zenon
      <3>4. CASE FadeOut(c, i)
        <4>1. /\ now - (i.end - i.transition_time) \in Nat
              /\ now - (i.end - i.transition_time) < i.transition_time
          BY <2>4, <3>4 DEF FadeOut, FadesOut
        <4>2. PICK pwm \in Int : lamp' = [state |-> FALSE, transition |-> i.transition_time * MinuteMs,
                                         pwm |-> pwm % (Top + 1)]
          BY <2>4, <3>2, <3>4, <4>1 DEF FadeOut, set_led
        <4>3. QED
          BY <2>5, <3>1, <4>2
      <3>5. CASE Begin(c, i)
        <4>1. CASE now - i.start >= i.transition_time
          <5>1. lamp' = [state |-> TRUE, transition |-> 0, pwm |-> 0 % (Top + 1)]
            BY <3>5, <4>1 DEF Begin, set_led
          <5>2. 0 \in Nat /\ 0 \in Int /\ TRUE \in BOOLEAN
            OBVIOUS
          <5>3. QED
            BY <3>1, <5>1, <5>2, Zenon
        <4>2. CASE ~(now - i.start >= i.transition_time)
          <5>1. now - i.start \in Nat /\ now - i.start < i.transition_time
            BY <2>4, <3>5, <4>2 DEF Begin
          <5>2. lamp' = [state |-> TRUE, transition |-> i.transition_time * MinuteMs,
                         pwm |-> Progress(now - i.start, i.transition_time) % (Top + 1)]
            BY <3>5, <4>2 DEF Begin, set_led
          <5>3. Progress(now - i.start, i.transition_time) \in Int
            BY <3>2, <5>1
          <5>4. QED
            BY <2>5, <3>1, <5>2, <5>3
        <4>3. QED
          BY <4>1, <4>2
      <3>6. CASE Nothing(c, i)
        BY <3>6 DEF Nothing, Types
      <3>7. QED
        BY <1>5, <3>3, <3>4, <3>5, <3>6
    <2>7. QED
      BY <1>1, <2>1, <2>2, <2>6 DEF Types
  <1>6. QED
    BY <1>4, <1>5 DEF entries_processing

\* The other steps do not touch the LED.
LEMMA TypesStep ==
  ASSUME Entries, Types, [Next]_vars
  PROVE  Types'
  <1>1. CASE entries_processing
    BY <1>1, PassTypes
  <1>2. ASSUME NEW e \in Entry, web_add_record_cb(e)
        PROVE  Types'
    <2>1. left' \in 0 .. Disturbances
      BY <1>2, SchedulerAssumption DEF web_add_record_cb, Disturb, Types
    <2>2. DOMAIN records' \subseteq Slot
      BY <1>2 DEF web_add_record_cb, Store!Add, Types
    <2>3. QED
      BY <1>2, <2>1, <2>2 DEF web_add_record_cb, Types
  <1>3. ASSUME NEW a \in Slot, web_delete_record_cb(a)
        PROVE  Types'
    <2>1. left' \in 0 .. Disturbances
      BY <1>3, SchedulerAssumption DEF web_delete_record_cb, Disturb, Types
    <2>2. DOMAIN records' \subseteq Slot
      BY <1>3 DEF web_delete_record_cb, Store!Remove, Types
    <2>3. QED
      BY <1>3, <2>1, <2>2 DEF web_delete_record_cb, Types
  <1>4. CASE NextMinute
    <2>1. left' \in 0 .. Disturbances
      BY <1>4, SchedulerAssumption DEF NextMinute, Disturb, Types
    <2>2. QED
      BY <1>4, <2>1 DEF NextMinute, Types
  <1>5. CASE UNCHANGED vars
    BY <1>5 DEF Types, vars
  <1>6. QED
    BY <1>1, <1>2, <1>3, <1>4, <1>5 DEF Next

\* Every variable keeps its type; in particular no transition is divided by 0, and
\* the position of one fits into eight bits (src/main.cpp:600-620).
THEOREM TypeCorrect == Spec => []TypeOK
  <1>1. Init => Types
    BY TypesInit
  <1>2. Entries /\ Types => TypeOK
    BY DEF Entries, Types, TypeOK, Stored
  <1>3. QED
    BY <1>1, <1>2, EntriesInit, EntriesStep, TypesStep, PTL DEF Spec
----------------------------------------------------------------------------
(***************************************************************************)
(* No record is missed.  Without disturbances the records never change;    *)
(* Plan says how far the cache, the entry that is caught and the LED have  *)
(* come at any minute with the records whose windows are not over.         *)
(***************************************************************************)

\* No requests, no late passes and no bus errors.
Undisturbed == Allowed = {}

\* The windows of the stored records do not overlap.
Separate == \A e, f \in Stored : e = f \/ Apart(e, f)

\* The window of e is not over, or its last pass is still to come.
Pending(e) == IF waiting THEN e.end > now ELSE e.end >= now

\* c holds stored records, none of them over, and none that is left out of it
\* comes before one of c.
Earliest(c) ==
    /\ c \subseteq Stored
    /\ \A e \in c : e.end >= now
    /\ \A e \in Stored \ c : e.end >= now => \A f \in c : Before(f, e)

\* i is the first one of c.
Foremost(c, i) == i \in c /\ \A f \in c \ {i} : Before(i, f)

Plan ==
    /\ cache \subseteq Stored
    /\ \A e \in cache : Pending(e)
    /\ \A e \in Stored \ cache : Pending(e) => \A f \in cache : Before(f, e)
    /\ is_processing => is_catched
    /\ is_catched => Foremost(cache, item)
    /\ is_processing /\ now < item.end - item.transition_time => lamp.state
    /\ waiting /\ is_catched /\ item.start <= now => is_processing
    /\ waiting /\ ~is_catched => \A e \in Stored : e.end <= now \/ e.start >= now

\* Every nonempty set of natural numbers has a least member.
LEMMA LeastNat ==
  ASSUME NEW T, T \subseteq Nat, T # {}
  PROVE  \E x \in T : \A y \in T : x <= y
  <1> DEFINE Less == {p \in Nat \X Nat : p[1] < p[2]}
  <1>1. OpToRel(<, Nat) = Less
    BY Zenon DEF OpToRel
  <1>2. IsWellFoundedOn(Less, Nat)
    BY <1>1, NatLessThanWellFounded, Zenon
  <1> HIDE DEF Less
  <1>3. PICK x \in T : \A y \in T : ~(<<y, x>> \in Less)
    BY <1>2, WFMin, Zenon
  <1>4. \A y \in T : ~(y < x)
    BY <1>3 DEF Less
  <1>5. QED
    BY <1>4

\* The fields of an entry determine it, and an entry of a request has a window.
LEMMA DataFields ==
  ASSUME NEW e \in Data, NEW f \in Data
  PROVE  /\ e.start = f.start /\ e.end = f.end /\ e.transition_time = f.transition_time
              => e = f
         /\ e.start < e.end \/ (e.start = 0 /\ e.end = 0)
         /\ e.end = 0 => e = BlankEntry
  <1> DEFINE Times == [start : Nat, end : Nat, transition_time : Nat]
  <1>1. \A d \in Data : d \in Times
    <2> TAKE d \in Data
    <2>1. CASE d \in Entry
      <3>1. d \in EntryType /\ Day \in Nat
        BY <2>1, SchedulerAssumption, Zenon
      <3>2. QED
        BY <3>1 DEF EntryType, Minute
    <2>2. CASE d = BlankEntry
      BY <2>2 DEF BlankEntry
    <2>3. QED
      BY <2>1, <2>2 DEF Data
  <1>2. /\ e.start = f.start /\ e.end = f.end /\ e.transition_time = f.transition_time
              => e = f
    BY <1>1
  <1>3. e.start < e.end \/ e = BlankEntry
    BY SchedulerAssumption DEF Data
  <1>4. e.end = 0 => e = BlankEntry
    BY <1>1, <1>3
  <1>5. QED
    BY <1>2, <1>3, <1>4 DEF BlankEntry

\* operator< of entry_t orders the entries totally.
LEMMA BeforeIsOrder ==
  ASSUME NEW d \in Data, NEW e \in Data, NEW f \in Data
  PROVE  /\ ~Before(e, e)
         /\ e = f \/ Before(e, f) \/ Before(f, e)
         /\ Before(d, e) /\ Before(e, f) => Before(d, f)
         /\ Before(e, f) => e.start <= f.start /\ ~Before(f, e)
  BY DataTimes, DataFields DEF Before

\* Every nonempty set of entries has a first one: cache_top() finds it.
LEMMA TopExists ==
  ASSUME NEW c, c \subseteq Data, c # {}
  PROVE  \E i \in c : Foremost(c, i)
  <1>1. \A e \in c : e.start \in Nat /\ e.end \in Nat /\ e.transition_time \in Nat
    BY DataTimes
  <1>2. PICK s \in {e.start : e \in c} : \A t \in {e.start : e \in c} : s <= t
    <2>1. {e.start : e \in c} \subseteq Nat /\ {e.start : e \in c} # {}
      BY <1>1
    <2>2. QED
      BY <2>1, LeastNat
  <1> DEFINE c2 == {e \in c : e.start = s}
  <1>3. PICK n \in {e.end : e \in c2} : \A t \in {e.end : e \in c2} : n <= t
    <2>1. {e.end : e \in c2} \subseteq Nat /\ {e.end : e \in c2} # {}
      BY <1>1, <1>2
    <2>2. QED
      BY <2>1, LeastNat
  <1> DEFINE c3 == {e \in c2 : e.end = n}
  <1>4. PICK l \in {e.transition_time : e \in c3} :
                \A t \in {e.transition_time : e \in c3} : l <= t
    <2>1. {e.transition_time : e \in c3} \subseteq Nat /\ {e.transition_time : e \in c3} # {}
      BY <1>1, <1>3
    <2>2. QED
      BY <2>1, LeastNat
  <1>5. PICK i \in c3 : i.transition_time = l
    BY <1>4
  <1>6. ASSUME NEW f \in c
        PROVE  /\ i.start <= f.start
               /\ f.start = i.start => i.end <= f.end
               /\ f.start = i.start /\ f.end = i.end
                    => i.transition_time <= f.transition_time
    BY <1>2, <1>3, <1>4, <1>5
  <1>7. i \in c /\ i \in Data
    BY <1>5
  <1>8. ASSUME NEW f \in c \ {i}
        PROVE  Before(i, f)
    <2>1. f \in Data /\ f # i
      OBVIOUS
    <2>2. ~Before(f, i)
      BY <1>1, <1>6, <1>7 DEF Before
    <2>3. QED
      BY <1>7, <2>1, <2>2, BeforeIsOrder
  <1>9. QED
    BY <1>7, <1>8 DEF Foremost

\* cache_top() returns the first one.
LEMMA TopForemost ==
  ASSUME NEW c, c \subseteq Data, c # {}
  PROVE  Foremost(c, cache_top(c))
  <1>1. \E i \in c : \A f \in c \ {i} : Before(i, f)
    BY TopExists DEF Foremost
  <1>2. QED
    BY <1>1, Zenon DEF Foremost, cache_top

\* What CACHE_SIZE leaves of a finite set: something, and no later entry in the
\* place of an earlier one.
LEMMA TrimmedEarliest ==
  ASSUME NEW c, c \subseteq Data, IsFiniteSet(c)
  PROVE  /\ Trimmed(c) \subseteq c
         /\ c # {} => Trimmed(c) # {}
         /\ \A e \in c \ Trimmed(c) : \A f \in Trimmed(c) : Before(f, e)
  <1> DEFINE Ahead(e) == {f \in c : Before(f, e)}
  <1>1. Trimmed(c) = {e \in c : Cardinality(Ahead(e)) < CacheSize - 1}
    BY DEF Trimmed
  <1>2. ASSUME c # {}
        PROVE  Trimmed(c) # {}
    <2>1. PICK i \in c : Foremost(c, i)
      BY <1>2, TopExists
    <2>2. Ahead(i) = {}
      BY <2>1, BeforeIsOrder DEF Foremost
    <2>3. Cardinality(Ahead(i)) = 0
      BY <2>2, FS_EmptySet
    <2>4. QED
      BY <1>1, <2>3, SchedulerAssumption
  <1>3. ASSUME NEW e \in c \ Trimmed(c), NEW f \in Trimmed(c)
        PROVE  Before(f, e)
    <2> SUFFICES ASSUME ~Before(f, e)
                 PROVE  FALSE
      OBVIOUS
    <2>1. f \in c /\ e \in c /\ e # f
      BY <1>1
    <2>2. Before(e, f)
      BY <2>1, BeforeIsOrder
    <2>3. Ahead(e) \in SUBSET Ahead(f) /\ Ahead(f) \in SUBSET c
      BY <2>1, <2>2, BeforeIsOrder
    <2> HIDE DEF Ahead
    <2>4. IsFiniteSet(Ahead(f))
      BY <2>3, FS_Subset
    <2>5. /\ Cardinality(Ahead(e)) <= Cardinality(Ahead(f))
          /\ Cardinality(Ahead(e)) \in Nat /\ Cardinality(Ahead(f)) \in Nat
      BY <2>3, <2>4, FS_Subset, FS_CardinalityType
    <2>6. Cardinality(Ahead(f)) < CacheSize - 1 /\ ~(Cardinality(Ahead(e)) < CacheSize - 1)
      BY <1>1, <2>1
    <2>7. QED
      BY <2>5, <2>6, SchedulerAssumption
  <1>4. QED
    BY <1>1, <1>2, <1>3

\* With a clock that answers, cache() loads the earliest of the records that are
\* not over, and none only if there are none.
LEMMA LoadsEarliest ==
  ASSUME Entries, DOMAIN records \subseteq Slot
  PROVE  /\ Earliest(LoadedAll(InTime))
         /\ LoadedAll(InTime) = {} => \A e \in Stored : e.end < now
  <1> DEFINE slots == {a \in DOMAIN records : a < Cardinality(Slot) /\ Relevant(records[a], InTime[a])}
             rel == {records[a] : a \in slots}
  <1>1. \A a \in DOMAIN records : /\ a < Cardinality(Slot)
                                  /\ InTime[a] = now
                                  /\ records[a].end \in Nat
    <2> TAKE a \in DOMAIN records
    <2>1. Slot = 0 .. Cardinality(Slot) - 1 /\ Cardinality(Slot) \in Nat
      BY SchedulerAssumption, FS_CardinalityType
    <2>2. a \in Slot /\ records[a] \in Data
      BY DEF Entries
    <2>3. InTime[a] = now
      BY <2>2 DEF InTime
    <2>4. QED
      BY <2>1, <2>2, <2>3, DataTimes
  <1>2. now \in Nat
    BY SchedulerAssumption DEF Entries, Minute
  <1>3. rel = {e \in Stored : e.end >= now}
    BY <1>1, <1>2 DEF Relevant, Stored
  <1>4. IsFiniteSet(rel)
    <2>1. IsFiniteSet(slots)
      <3>1. slots \in SUBSET Slot /\ IsFiniteSet(Slot)
        BY SchedulerAssumption
      <3>2. QED
        BY <3>1, FS_Subset
    <2> DEFINE f == [a \in slots |-> records[a]]
    <2>2. f \in Surjection(slots, rel)
      BY DEF Surjection
    <2>3. QED
      BY <2>1, <2>2, FS_Surjection
  <1>5. LoadedAll(InTime) = Trimmed(rel)
    BY DEF LoadedAll, Loaded
  <1> HIDE DEF rel, slots
  <1>6. rel \subseteq Data
    BY <1>3 DEF Stored, Entries
  <1>7. /\ Trimmed(rel) \subseteq rel
        /\ rel # {} => Trimmed(rel) # {}
        /\ \A e \in rel \ Trimmed(rel) : \A f \in Trimmed(rel) : Before(f, e)
    BY <1>4, <1>6, TrimmedEarliest
  <1>8. Earliest(LoadedAll(InTime))
    BY <1>3, <1>5, <1>7 DEF Earliest
  <1>9. ASSUME LoadedAll(InTime) = {}, NEW e \in Stored
        PROVE  e.end < now
    <2>1. e \notin rel /\ e.end \in Nat
      BY <1>5, <1>7, <1>9, DataTimes DEF Stored, Entries
    <2>2. QED
      BY <1>2, <1>3, <2>1
  <1>10. QED
    BY <1>8, <1>9

\* The entry of a pass is the first one of the records that are not over.
LEMMA CatchesForemost ==
  ASSUME Undisturbed, Entries, DOMAIN records \subseteq Slot, Plan, ~waiting,
         NEW c, NEW i, Catch(c, i)
  PROVE  Earliest(c) /\ Foremost(c, i)
  <1>1. Earliest(cache)
    BY DEF Plan, Pending, Earliest
  <1>2. CASE is_catched \/ is_processing
    BY <1>1, <1>2 DEF Catch, Plan
  <1>3. CASE ~(is_catched \/ is_processing)
    <2>1. c # {} /\ i = cache_top(c)
      BY <1>3 DEF Catch
    <2>2. CASE cache # {}
      <3>1. c = cache /\ c \subseteq Data
        BY <1>3, <2>2 DEF Catch, Entries
      <3>2. QED
        BY <1>1, <2>1, <3>1, TopForemost
    <2>3. CASE cache = {}
      <3>1. PICK seen \in Seen : SeeMinutes(seen) /\ c = LoadedAll(seen)
        BY <1>3, <2>3 DEF Catch
      <3>2. seen = InTime
        BY <3>1 DEF SeeMinutes, Disturb, Undisturbed
      <3>3. Earliest(c)
        BY <3>1, <3>2, LoadsEarliest
      <3>4. c \subseteq Data
        BY <3>3 DEF Earliest, Stored, Entries
      <3>5. QED
        BY <2>1, <3>3, <3>4, TopForemost
    <2>4. QED
      BY <2>2, <2>3
  <1>4. QED
    BY <1>2, <1>3

\* Records whose windows are apart: at the end of the window of i no other one is
\* under way, and as long as it lasts no later one begins.
LEMMA ApartOrder ==
  ASSUME NEW e \in Data, NEW i \in Data, e # i, Apart(e, i), NEW t \in Nat
  PROVE  /\ Before(i, e) /\ e.end >= t /\ i.end >= t => e.end > t
         /\ i.end = t => e.end <= t \/ e.start >= t
         /\ Before(i, e) /\ t < i.end => t <= e.start
  <1>1. /\ e.start \in Nat /\ e.end \in Nat /\ i.start \in Nat /\ i.end \in Nat
        /\ e.transition_time \in Nat /\ i.transition_time \in Nat
    BY DataTimes
  <1>2. /\ e.start < e.end \/ (e.start = 0 /\ e.end = 0)
        /\ i.start < i.end \/ (i.start = 0 /\ i.end = 0)
        /\ ~(e.end = 0 /\ i.end = 0)
    BY DataFields
  <1>3. e.end <= i.start \/ i.end <= e.start
    BY DEF Apart
  <1>4. Before(i, e) => i.start <= e.start /\ (i.start = e.start => i.end <= e.end)
    BY <1>1 DEF Before
  <1>5. QED
    BY <1>1, <1>2, <1>3, <1>4

\* A pass of the thread keeps to the plan.
LEMMA PassPlan ==
  ASSUME Undisturbed, Entries, DOMAIN records \subseteq Slot, Separate, Plan,
         entries_processing
  PROVE  Plan'
  <1>1. /\ ~waiting /\ waiting' /\ now' = now /\ records' = records
        /\ Stored' = Stored /\ now \in Nat
    BY SchedulerAssumption DEF entries_processing, Stored, Entries, Minute
  <1>2. \A e \in Stored : e \in Data /\ e.end \in Nat /\ e.start \in Nat
    BY DataTimes DEF Stored, Entries
  <1>3. CASE NoEntries
    <2>1. /\ ~is_catched' /\ ~is_processing' /\ cache = {}
          /\ \E seen \in Seen : /\ SeeMinutes(seen) /\ LoadedAll(seen) = {}
                                /\ UNCHANGED cache
      BY <1>3 DEF NoEntries, Disturb, Undisturbed
    <2>2. LoadedAll(InTime) = {} /\ cache' = {}
      BY <2>1 DEF SeeMinutes, Disturb, Undisturbed
    <2>3. \A e \in Stored : e.end < now
      BY <2>2, LoadsEarliest
    <2>4. \A e \in Stored : e.end <= now
      BY <1>1, <1>2, <2>3
    <2>5. QED
      BY <1>1, <2>1, <2>2, <2>4 DEF Plan
  <1>4. ASSUME NEW c, NEW i, Catch(c, i), item' = i,
               EndItem(c, i) \/ FadeOut(c, i) \/ Begin(c, i) \/ Nothing(c, i)
        PROVE  Plan'
    <2>1. Earliest(c) /\ Foremost(c, i)
      BY <1>1, <1>4, CatchesForemost
    <2>2. /\ c \subseteq Stored /\ i \in c /\ i \in Stored
          /\ \A e \in c : e.end >= now
          /\ \A e \in Stored \ c : e.end >= now => \A f \in c : Before(f, e)
          /\ \A e \in c \ {i} : Before(i, e)
      BY <2>1 DEF Earliest, Foremost
    <2>3. \A e \in Stored \ {i} : Apart(e, i)
      BY <2>2 DEF Separate
    <2>4. /\ i \in Data /\ i.end \in Nat /\ i.start \in Nat /\ i.transition_time \in Nat
          /\ i.transition_time <= i.end
      BY <1>2, <2>2, DataTimes
    <2>5. \A e \in c \ {i} : e.end > now
      <3> SUFFICES ASSUME NEW e \in c \ {i}
                   PROVE  e.end > now
        OBVIOUS
      <3>1. e \in Data /\ Apart(e, i) /\ Before(i, e) /\ e.end >= now /\ i.end >= now
        BY <1>2, <2>2, <2>3
      <3>2. QED
        BY <1>1, <2>4, <3>1, ApartOrder
    <2>6. CASE EndItem(c, i)
      <3>1. i.end = now /\ cache' = c \ {i} /\ ~is_processing' /\ ~is_catched'
        BY <1>1, <2>2, <2>4, <2>6 DEF EndItem
      <3>2. \A e \in Stored : e.end <= now \/ e.start >= now
        <4> SUFFICES ASSUME NEW e \in Stored, e # i
                     PROVE  e.end <= now \/ e.start >= now
          BY <1>1, <3>1
        <4>1. e \in Data /\ Apart(e, i)
          BY <1>2, <2>3
        <4>2. QED
          BY <1>1, <2>4, <3>1, <4>1, ApartOrder
      <3>3. ASSUME NEW e \in Stored \ cache', e.end > now, NEW f \in cache'
            PROVE  Before(f, e)
        <4>1. e # i /\ e \notin c /\ e.end >= now /\ f \in c
          BY <1>1, <1>2, <2>4, <3>1, <3>3
        <4>2. QED
          BY <2>2, <4>1
      <3>4. QED
        BY <1>1, <2>2, <2>5, <3>1, <3>2, <3>3 DEF Plan, Pending
    <2>7. CASE FadeOut(c, i) \/ Begin(c, i) \/ Nothing(c, i)
      <3>1. now < i.end /\ cache' = c /\ is_catched'
        BY <2>7 DEF FadeOut, Begin, Nothing, Caught, Plan
      <3>2. \A e \in cache' : e.end > now
        BY <1>1, <2>4, <2>5, <3>1
      <3>3. ASSUME NEW e \in Stored \ cache', e.end > now, NEW f \in cache'
            PROVE  Before(f, e)
        <4>1. e.end >= now
          BY <1>1, <1>2, <3>3
        <4>2. QED
          BY <2>2, <3>1, <3>3, <4>1
      <3>4. Foremost(cache', item')
        BY <1>4, <2>1, <3>1
      <3>5. /\ is_processing' /\ now < i.end - i.transition_time => lamp'.state
            /\ i.start <= now => is_processing'
        <4>1. CASE FadeOut(c, i)
          <5>1. is_processing' /\ ~(now < i.end - i.transition_time)
            BY <1>1, <2>4, <4>1 DEF FadeOut, FadesOut
          <5>2. QED
            BY <5>1
        <4>2. CASE Begin(c, i)
          BY <4>2 DEF Begin, set_led
        <4>3. CASE Nothing(c, i)
          <5>1. /\ is_processing' = is_processing /\ lamp' = lamp
                /\ now < i.start \/ is_processing
            BY <4>3 DEF Nothing
          <5>2. is_processing => i = item
            BY <1>4 DEF Catch
          <5>3. is_processing /\ now < i.end - i.transition_time => lamp.state
            BY <5>2 DEF Plan
          <5>4. i.start <= now => is_processing
            BY <1>1, <2>4, <5>1
          <5>5. QED
            BY <5>1, <5>3, <5>4
        <4>4. QED
          BY <2>7, <4>1, <4>2, <4>3
      <3>6. QED
        BY <1>1, <1>4, <2>2, <3>1, <3>2, <3>3, <3>4, <3>5 DEF Plan, Pending
    <2>8. QED
      BY <1>4, <2>6, <2>7
  <1>5. QED
    BY <1>3, <1>4 DEF entries_processing

\* The next minute finds what the pass of this one has left, and after midnight
\* that is nothing.
LEMMA ClockPlan ==
  ASSUME Undisturbed, Entries, Plan, NextMinute
  PROVE  Plan'
  <1>1. /\ waiting /\ ~waiting' /\ now' = (now + 1) % Day
        /\ UNCHANGED <<records, cache, item, is_catched, is_processing, lamp>>
        /\ Stored' = Stored
    BY DEF NextMinute, Disturb, Undisturbed, Stored
  <1>2. now \in Nat /\ now < Day /\ Day \in Nat \ {0}
    BY SchedulerAssumption DEF Entries, Minute
  <1>3. \A e \in Stored : e.end \in Nat /\ e.end < Day
    BY DataTimes DEF Stored, Entries
  <1>4. \A e \in cache : e.end > now
    BY <1>1 DEF Plan, Pending
  <1>5. CASE now + 1 = Day
    <2>1. cache = {}
      <3> SUFFICES ASSUME NEW e \in cache
                   PROVE  FALSE
        OBVIOUS
      <3>1. e.end \in Nat /\ e.end < Day /\ e.end > now
        BY <1>3, <1>4 DEF Plan
      <3>2. QED
        BY <1>2, <1>5, <3>1
    <2>2. ~is_catched /\ ~is_processing
      BY <2>1 DEF Plan, Foremost
    <2>3. QED
      BY <1>1, <2>1, <2>2 DEF Plan
  <1>6. CASE now + 1 # Day
    <2>1. now' = now + 1
      BY <1>1, <1>2, <1>6
    <2>2. \A e \in Stored : e.end > now <=> e.end >= now'
      BY <1>2, <1>3, <2>1
    <2>3. \A e \in cache : Pending(e)'
      BY <1>1, <1>4, <2>2 DEF Pending, Plan
    <2>4. \A e \in Stored \ cache : Pending(e)' => \A f \in cache : Before(f, e)
      BY <1>1, <2>2 DEF Pending, Plan
    <2>5. is_processing /\ now' < item.end - item.transition_time => lamp.state
      <3>1. is_processing => item.end \in Nat /\ item.transition_time \in Nat
        BY DataTimes DEF Entries
      <3>2. QED
        BY <1>2, <2>1, <3>1 DEF Plan
    <2>6. QED
      BY <1>1, <2>3, <2>4, <2>5 DEF Plan
  <1>7. QED
    BY <1>5, <1>6

\* In every pass the LED is on if the window of a stored record asks for it.
LEMMA PlanMissesNone ==
  ASSUME Entries, Separate => Plan
  PROVE  NoneMissed
  <1> SUFFICES ASSUME waiting, Separate, NEW e \in Stored,
                      e.start + 1 <= now, now < e.end - e.transition_time
               PROVE  lamp.state
    BY DEF NoneMissed, Separate
  <1>1. /\ e \in Data /\ e.start \in Nat /\ e.end \in Nat /\ e.transition_time \in Nat
        /\ now \in Nat
    BY DataTimes, SchedulerAssumption DEF Stored, Entries, Minute
  <1>2. e.end > now /\ ~(e.start >= now) /\ e.start <= now /\ Pending(e)
    BY <1>1 DEF Pending
  <1>3. is_catched
    BY <1>1, <1>2 DEF Plan
  <1>4. Foremost(cache, item) /\ item \in Stored /\ item.end > now
    BY <1>3 DEF Plan, Foremost, Pending
  <1>5. e = item
    <2> SUFFICES ASSUME e # item
                 PROVE  FALSE
      OBVIOUS
    <2>1. Before(item, e)
      <3>1. CASE e \in cache
        BY <1>4, <3>1 DEF Foremost
      <3>2. CASE e \notin cache
        BY <1>2, <1>4, <3>2 DEF Plan, Foremost
      <3>3. QED
        BY <3>1, <3>2
    <2>2. item \in Data /\ Apart(e, item) /\ now < item.end
      <3>1. item \in Data /\ Apart(e, item)
        BY <1>4 DEF Entries, Separate
      <3>2. QED
        BY <1>1, <1>4, <3>1, DataTimes
    <2>3. now <= e.start
      BY <1>1, <2>1, <2>2, ApartOrder
    <2>4. QED
      BY <1>1, <2>3
  <1>6. is_processing
    BY <1>2, <1>3, <1>5 DEF Plan
  <1>7. QED
    BY <1>5, <1>6 DEF Plan

\* Without requests, late passes and bus errors, and as long as the windows of
\* the stored records do not overlap, no record is missed: in every minute
\* between the first one of its window and its fade-out the LED is on, for any
\* number of records, however few of them the cache holds, and over midnight.
THEOREM MissesNone ==
  ASSUME Undisturbed
  PROVE  Spec => []NoneMissed
  <1> DEFINE IInv == Entries /\ Types /\ (Separate => Plan)
  <1>1. Init => Entries /\ Types
    BY EntriesInit, TypesInit
  <1>2. Init => Plan
    BY DEF Init, Plan
  <1>3. IInv /\ [Next]_vars => IInv'
    <2> SUFFICES ASSUME IInv, [Next]_vars
                 PROVE  Separate' => Plan'
      BY EntriesStep, TypesStep
    <2>1. DOMAIN records \subseteq Slot
      BY DEF Types
    <2>2. CASE entries_processing
      <3>1. Separate' => Separate
        BY <2>2 DEF entries_processing, Separate, Stored
      <3>2. QED
        BY <2>1, <2>2, <3>1, PassPlan
    <2>3. CASE NextMinute
      <3>1. Separate' => Separate
        BY <2>3 DEF NextMinute, Separate, Stored
      <3>2. QED
        BY <2>3, <3>1, ClockPlan
    <2>4. ASSUME NEW e \in Entry, web_add_record_cb(e)
          PROVE  FALSE
      BY <2>4 DEF web_add_record_cb, Disturb, Undisturbed
    <2>5. ASSUME NEW a \in Slot, web_delete_record_cb(a)
          PROVE  FALSE
      BY <2>5 DEF web_delete_record_cb, Disturb, Undisturbed
    <2>6. CASE UNCHANGED vars
      BY <2>6 DEF Separate, Stored, Plan, Pending, vars
    <2>7. QED
      BY <2>2, <2>3, <2>4, <2>5, <2>6 DEF Next
  <1>4. IInv => NoneMissed
    BY PlanMissesNone
  <1>5. QED
    BY <1>1, <1>2, <1>3, <1>4, PTL DEF Spec
=============================================================================
