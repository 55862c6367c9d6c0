----------------------------- MODULE Scheduler -----------------------------
(***************************************************************************)
(* Which record lights the LED, and when: the protothread                  *)
(* entries_processing of src/main.cpp, the cache of upcoming entries of    *)
(* src/eeprom_storage.cpp, and the two web handlers that change records.   *)
(* The records on the chip are the abstract store of RecordStore, which    *)
(* EepromStorage is shown to implement.                                    *)
(*                                                                         *)
(* The thread makes one pass, then waits 60 s: one pass in every minute of *)
(* the day, unless it comes late (the loop returns early without WiFi, the *)
(* real time clock cannot be read, the period drifts by the time the loop  *)
(* takes).  A pass is one action: nothing else runs while it does.         *)
(*                                                                         *)
(* Requests, late passes and bus errors are disturbances.  Allowed says    *)
(* which kinds there are, Disturbances how many in all; with a finite      *)
(* number one can ask what the scheduler gets back to when they are over.  *)
(***************************************************************************)
EXTENDS Integers, FiniteSets

CONSTANTS Slot,         \* the slots of the chain, numbered in its order
          Entry,        \* what requests ask for
          Day,          \* minutes in a day (1440)
          CacheSize,    \* CACHE_SIZE (16)
          Top,          \* 0xFF, the end of a transition
          Allowed,      \* kinds of disturbances: "add", "delete", "late", "bus"
          Disturbances  \* bound: how many disturbances there are in all

Minute == 0 .. Day - 1
MinuteMs == 60 * 1000
EntryType == [start : Minute, end : Minute, transition_time : 0 .. 255]

\* What script.js lets through: the window is not empty and both transitions
\* fit into it.
ASSUME SchedulerAssumption ==
    /\ Day \in Nat \ {0}
    /\ IsFiniteSet(Slot) /\ Slot = 0 .. Cardinality(Slot) - 1
    /\ Entry \subseteq EntryType
    /\ \A e \in Entry : e.start < e.end /\ 2 * e.transition_time <= e.end - e.start
    /\ CacheSize \in Nat /\ CacheSize >= 2
    /\ Top \in 1 .. MinuteMs
    /\ Allowed \subseteq {"add", "delete", "late", "bus"}
    /\ Disturbances \in Nat

\* The record in the first slot of a chip that was never written.
BlankEntry == [start |-> 0, end |-> 0, transition_time |-> 0]
Data == Entry \cup {BlankEntry}

VARIABLES records,        \* the records on the chip, by address
          cache,          \* entriesQueue
          item,           \* the entry the scheduler has caught
          is_catched,
          is_processing,  \* the window of item has begun
          lamp,           \* the last set_led(): state, transition in ms, pwm
          now,            \* minute of the day
          waiting,        \* the thread waits; its pass of this minute is done
          left            \* disturbances still to come
vars == <<records, cache, item, is_catched, is_processing, lamp, now, waiting, left>>

Store == INSTANCE RecordStore
Stored == {records[a] : a \in DOMAIN records}

Disturb(kind) == kind \in Allowed /\ left > 0 /\ left' = left - 1
----------------------------------------------------------------------------
(***************************************************************************)
(* The cache, a std::set ordered by operator< of entry_t                   *)
(***************************************************************************)
Before(e, f) ==
    \/ e.start < f.start
    \/ e.start = f.start /\ e.end < f.end
    \/ e.start = f.start /\ e.end = f.end /\ e.transition_time < f.transition_time

cache_top(c) == CHOOSE e \in c : \A f \in c \ {e} : Before(e, f)

\* Mutant: the earliest entry makes room, not the last one.
Trimmed_First(c) == IF Cardinality(c) >= CacheSize THEN c \ {cache_top(c)} ELSE c

\* What a set of pushes leaves of c: every cache_push() that makes the set reach
\* CACHE_SIZE erases its last element, so the earliest CacheSize - 1 stay.
Trimmed(c) ==
    {e \in c : Cardinality({f \in c : Before(f, e)}) < CacheSize - 1}

cache_push(c, e) == Trimmed(c \cup {e})

Relevant(e, minute) == minute <= e.end

\* What cache() puts into the empty cache when it takes the clock to show seen[a]
\* at the record a, and can read the records before the address stop.
Loaded(seen, stop) ==
    Trimmed({records[a] : a \in {b \in DOMAIN records : /\ b < stop
                                                        /\ Relevant(records[b], seen[b])}})
LoadedAll(seen) == Loaded(seen, Cardinality(Slot))

\* cache() reads the clock again for every record.  Some of these reads can fail,
\* and -1 is 23:59 of the last day of 1969; or the next minute begins on the way.
InTime == [a \in Slot |-> now]
Misread(failed) == [a \in Slot |-> IF a \in failed THEN Day - 1 ELSE now]
Overtaken(from) == [a \in Slot |-> IF a < from THEN now ELSE (now + 1) % Day]

Seen == {InTime} \cup {Misread(failed) : failed \in SUBSET Slot}
                \cup {Overtaken(from) : from \in Slot}
SeeMinutes(seen) ==
    \/ seen = InTime /\ UNCHANGED left
    \/ \E failed \in SUBSET Slot : seen = Misread(failed) /\ Disturb("bus")
    \/ \E from \in Slot : seen = Overtaken(from) /\ Disturb("late")
----------------------------------------------------------------------------
(***************************************************************************)
(* One pass of entries_processing                                          *)
(***************************************************************************)

\* The position is a uint8_t.
set_led(state, transition, pwm) ==
    lamp' = [state |-> state, transition |-> transition, pwm |-> pwm % (Top + 1)]

\* How far, of Top steps, a transition of tt minutes is after m minutes.
Progress(m, tt) == (m * MinuteMs) \div ((tt * MinuteMs) \div Top)

\* is_catched after the thread has made sure of an entry.
Caught == is_catched \/ ~is_processing

\* Mutant: an entry whose window is over keeps the scheduler busy.
EndItem_KeepsProcessing(c, i) ==
    /\ now >= i.end
    /\ cache' = c \ {i}
    /\ is_catched' = FALSE
    /\ set_led(FALSE, 0, 0)
    /\ UNCHANGED is_processing

\* Mutant: the entry stays in the cache.
EndItem_NoPop(c, i) ==
    /\ now >= i.end
    /\ cache' = c
    /\ is_processing' = FALSE /\ is_catched' = FALSE
    /\ set_led(FALSE, 0, 0)

\* Mutant: the LED is left as it is.
EndItem_StaysLit(c, i) ==
    /\ now >= i.end
    /\ cache' = c \ {i}
    /\ is_processing' = FALSE /\ is_catched' = FALSE
    /\ UNCHANGED lamp

EndItem(c, i) ==
    /\ now >= i.end
    /\ cache' = c \ {i}
    /\ is_processing' = FALSE /\ is_catched' = FALSE
    /\ set_led(FALSE, 0, 0)

\* end - transition_time is compared as unsigned: a negative one is never reached.
FadesOut(i) == i.end >= i.transition_time /\ now >= i.end - i.transition_time

\* Mutant: the LED is only ever switched off at the end of the window.
FadeOut_Skipped(c, i) ==
    /\ now < i.end /\ FadesOut(i)
    /\ is_processing' = TRUE
    /\ cache' = c /\ is_catched' = Caught /\ UNCHANGED lamp

\* When the window has begun in an earlier pass, pwm is the minute of the day.
FadeOut(c, i) ==
    /\ now < i.end /\ FadesOut(i)
    /\ IF is_processing
       THEN set_led(FALSE, i.transition_time * MinuteMs, now)
       ELSE set_led(FALSE, i.transition_time * MinuteMs,
                    Progress(now - (i.end - i.transition_time), i.transition_time))
    /\ is_processing' = TRUE
    /\ cache' = c /\ is_catched' = Caught

\* Mutant: the transition is always taken from where the window is.
Begin_NoFullOn(c, i) ==
    /\ now < i.end /\ ~FadesOut(i) /\ now >= i.start /\ ~is_processing
    /\ set_led(TRUE, i.transition_time * MinuteMs,
               IF i.transition_time = 0 THEN 0
               ELSE Progress(now - i.start, i.transition_time))
    /\ is_processing' = TRUE
    /\ cache' = c /\ is_catched' = Caught

Begin(c, i) ==
    /\ now < i.end /\ ~FadesOut(i) /\ now >= i.start /\ ~is_processing
    /\ IF now - i.start >= i.transition_time
       THEN set_led(TRUE, 0, 0)
       ELSE set_led(TRUE, i.transition_time * MinuteMs,
                    Progress(now - i.start, i.transition_time))
    /\ is_processing' = TRUE
    /\ cache' = c /\ is_catched' = Caught

\* Before the window, and while the LED is on within it.
Nothing(c, i) ==
    /\ now < i.end /\ ~FadesOut(i) /\ (now < i.start \/ is_processing)
    /\ cache' = c /\ is_catched' = Caught
    /\ UNCHANGED <<is_processing, lamp>>

\* The entry i the pass is about, and the cache c it comes from.
Catch(c, i) ==
    IF is_catched \/ is_processing
    THEN c = cache /\ i = item /\ UNCHANGED left
    ELSE /\ c # {} /\ i = cache_top(c)
         /\ IF cache # {}
            THEN c = cache /\ UNCHANGED left
            ELSE \E seen \in Seen : SeeMinutes(seen) /\ c = LoadedAll(seen)

\* The cache is empty and cache() returns 0: nothing is relevant, or a read
\* failed on the way, in which case the entries before it are cached all the same.
NoEntries ==
    /\ ~is_catched /\ ~is_processing /\ cache = {}
    /\ \/ \E seen \in Seen : SeeMinutes(seen) /\ LoadedAll(seen) = {} /\ UNCHANGED cache
       \/ \E stop \in Slot : Disturb("bus") /\ cache' = Loaded(InTime, stop)
    /\ UNCHANGED <<item, is_catched, is_processing, lamp>>

entries_processing ==
    /\ ~waiting
    /\ waiting' = TRUE
    /\ \/ NoEntries
       \/ \E c \in {cache} \cup {LoadedAll(seen) : seen \in Seen} : \E i \in c \cup {item} :
            /\ Catch(c, i)
            /\ item' = i
            /\ EndItem(c, i) \/ FadeOut(c, i) \/ Begin(c, i) \/ Nothing(c, i)
    /\ UNCHANGED <<records, now>>
----------------------------------------------------------------------------
(***************************************************************************)
(* Requests and time                                                       *)
(***************************************************************************)

\* insert_node() can fail and leave a blank record or none; its result is
\* ignored and the entry is cached in any case.
web_add_record_cb(e) ==
    /\ Disturb("add")
    /\ \/ \E a \in Slot : /\ \A b \in Slot : b < a => b \in DOMAIN records
                          /\ Store!Add(a, e) \/ ("bus" \in Allowed /\ Store!Add(a, BlankEntry))
       \/ "bus" \in Allowed /\ UNCHANGED records
       \/ Slot = DOMAIN records /\ UNCHANGED records
    /\ cache' = cache_push(cache, e)
    /\ UNCHANGED <<item, is_catched, is_processing, lamp, now, waiting>>

\* Mutant: a deleted record that is being served is dropped at once.
web_delete_record_cb_DropsItem(a) ==
    /\ Disturb("delete")
    /\ Store!Remove(a)
    /\ cache' = cache \ {records[a]}
    /\ is_catched' = (is_catched /\ item # records[a])
    /\ UNCHANGED <<item, is_processing, lamp, now, waiting>>

\* get_node() does not return deleted records, so the cache only loses the entry
\* when delete_node() has failed.
web_delete_record_cb(a) ==
    /\ Disturb("delete")
    /\ a \in DOMAIN records
    /\ \/ Store!Remove(a) /\ UNCHANGED cache
       \/ /\ "bus" \in Allowed
          /\ UNCHANGED records
          /\ cache' \in {cache, cache \ {records[a]}}
    /\ UNCHANGED <<item, is_catched, is_processing, lamp, now, waiting>>

\* Mutant: the minutes are counted on over midnight.
NextMinute_NoWrap ==
    /\ IF waiting THEN UNCHANGED left ELSE Disturb("late")
    /\ now' = now + 1
    /\ waiting' = FALSE
    /\ UNCHANGED <<records, cache, item, is_catched, is_processing, lamp>>

\* The clock goes on; without the pass of this minute only as a disturbance.
NextMinute ==
    /\ IF waiting THEN UNCHANGED left ELSE Disturb("late")
    /\ now' = (now + 1) % Day
    /\ waiting' = FALSE
    /\ UNCHANGED <<records, cache, item, is_catched, is_processing, lamp>>

\* Power on, at any time and with any records on the chip.
Init ==
    /\ records \in UNION {[d -> Data] : d \in {{b \in Slot : b < k} : k \in Slot \cup {Cardinality(Slot)}}}
    /\ cache = {} /\ item = BlankEntry
    /\ is_catched = FALSE /\ is_processing = FALSE
    /\ lamp = [state |-> FALSE, transition |-> 0, pwm |-> Top]
    /\ now \in Minute
    /\ waiting = FALSE
    /\ left = Disturbances

Next == \/ entries_processing
        \/ \E e \in Entry : web_add_record_cb(e)
        \/ \E a \in Slot : web_delete_record_cb(a)
        \/ NextMinute

\* The loop keeps running and time goes on.
Spec == Init /\ [][Next]_vars /\ WF_vars(entries_processing) /\ WF_vars(NextMinute)
----------------------------------------------------------------------------
(***************************************************************************)
(* Properties                                                              *)
(***************************************************************************)
TypeOK ==
    /\ DOMAIN records \subseteq Slot /\ Stored \subseteq Data
    /\ cache \subseteq Data /\ item \in Data
    /\ is_catched \in BOOLEAN /\ is_processing \in BOOLEAN /\ waiting \in BOOLEAN
    /\ lamp \in [state : BOOLEAN, transition : Nat, pwm : 0 .. Top]
    /\ now \in Minute /\ left \in 0 .. Disturbances

\* A lit LED has an owner: the entry the scheduler has caught and whose window it
\* has seen begin.  Nothing else ever switches the LED off, so a LED without an
\* owner would stay on.
LitHasOwner ==
    /\ lamp.state => is_processing
    /\ is_processing => is_catched

\* As long as every pass comes in its minute, the LED is only on inside the
\* window of the entry that owns it, whatever is added and deleted meanwhile.
LitOnlyInWindow ==
    waiting /\ lamp.state => /\ item.start <= now
                             /\ now < item.end - item.transition_time

\* The position Top, which led_control takes for "nothing was requested", is handed
\* over in one case only: by src/main.cpp:606, in the minutes of a fade-out that are
\* Top modulo Top + 1 (4:15, 8:31, ... on the device).  No transition that is computed
\* from the minutes of a window begins there, whenever the window is noticed.
TopOnlyInFadeOut ==
    [][lamp' # lamp /\ lamp'.pwm = Top
         => is_processing /\ ~lamp'.state /\ now % (Top + 1) = Top]_vars

Apart(e, f) == e.end <= f.start \/ f.end <= e.start

\* No record is missed: if the windows of the stored records do not overlap, the
\* LED is on in every minute of every window between the first one, which may go
\* by with taking the previous entry off the list, and the fade-out.
NoneMissed ==
    waiting /\ (\A e, f \in Stored : e = f \/ Apart(e, f))
      => \A e \in Stored :
            e.start + 1 <= now /\ now < e.end - e.transition_time => lamp.state

\* When the disturbances are over (requests, late passes, bus errors), the
\* scheduler gets back to missing no record.
Recovers == <>[]NoneMissed

\* A lit LED is switched off again.
GoesDark == lamp.state ~> ~lamp.state

\* A record that was deleted is forgotten: it leaves the cache and the scheduler,
\* although the delete handler takes it out of neither.
DeletedForgotten ==
    \A e \in Entry :
        e \notin Stored ~> e \in Stored \/ (e \notin cache /\ ~(is_catched /\ item = e))

\* The transition at the end of a window takes its transition_time: "transition
\* + switching on cannot take longer than the time between start and end"
\* (data/script.js:60), twice the duration, once for each end of the window.
FadeOutOnTime ==
    waiting /\ is_processing /\ ~lamp.state
      => lamp.pwm = Progress(now - (item.end - item.transition_time), item.transition_time)
============================================================================
