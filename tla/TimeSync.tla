------------------------------ MODULE TimeSync ------------------------------
(***************************************************************************)
(* How the clock gets its time: the NTP client of src/ntp.cpp and the      *)
(* protothread clock_manager of src/main.cpp that sets the DS1307 from it. *)
(*                                                                         *)
(* A step of time is a second, and the loop passes in every one.  Times of *)
(* day do not matter, only how far they are off, so a timestamp is its     *)
(* error against the real time: the number of seconds since the server     *)
(* wrote it, negated.  What the code computes with, millis(), is kept as   *)
(* it is, a counter that wraps; age is the true time since the last update *)
(* it is measured against.                                                 *)
(*                                                                         *)
(* sync() does not return until an answer or the timeout: nothing else of  *)
(* the program runs then.  Everything else is one action per pass.         *)
(* Failures are disturbances, of which there are Disturbances in all.      *)
(***************************************************************************)
EXTENDS Integers

CONSTANTS Wrap,         \* millis() wraps after so many seconds (2^32 ms)
          Interval,     \* update_interval_ (60)
          Timeout,      \* connection_timeout_ (1)
          Period,       \* the pause of clock_manager (12 hours)
          MaxDelay,     \* longest time a datagram is under way
          Disturbances  \* bound: how many failures there are in all

ASSUME TimeAssumption ==
    /\ Timeout \in Nat \ {0} /\ Interval \in Nat /\ Period \in Nat /\ Disturbances \in Nat
    /\ MaxDelay \in Nat /\ Timeout <= MaxDelay
    /\ Wrap \in Nat /\ Interval + Timeout + 1 < Wrap /\ Period < Wrap

Error == -MaxDelay .. 0
Wrong == 1                 \* any time further off than that
Cleared == 2               \* the message is all zeros: a time in 2036
None == 3                  \* std::nullopt

VARIABLES millis,
          last_update,          \* millis() at the last answer; 0 means never
          message,              \* transmit timestamp of message_
          syncing, sent,        \* sync() is waiting, since sent
          pausing, paused,      \* clock_manager is waiting, since paused
          rtc,                  \* how far the DS1307 is off
          answers,              \* datagrams under way or in the socket, by age
          online,
          age,                  \* observer: true seconds since the last update
          trouble,              \* observer: a failure since the last update
          tried,                \* an attempt was made in this second
          left                  \* failures still to come
vars == <<millis, last_update, message, syncing, sent, pausing, paused, rtc, answers,
          online, age, trouble, tried, left>>
client == <<last_update, message, syncing, sent, age>>
manager == <<pausing, paused, rtc>>

Fail == left > 0 /\ left' = left - 1 /\ trouble' = TRUE
Fine == UNCHANGED <<left, trouble>>

\* Mutant: a millis() that has wrapped counts as no time passed.
Since_NoWrap(t) == IF millis >= t THEN millis - t ELSE 0

\* unsigned difference (async_wait::has_elapsed, ntp_client::time)
Since(t) == (millis - t) % Wrap
----------------------------------------------------------------------------
(***************************************************************************)
(* The NTP client                                                          *)
(***************************************************************************)
\* Mutant: once synchronised, always synchronised.
is_synchronized_Forever == last_update # 0

\* The sum is a size_t and wraps as millis() does.
is_synchronized ==
    (last_update + Interval) % Wrap >= millis /\ last_update # 0

\* How far the result of ntp_client::time is off.  Its timestamp is as old as the
\* update, to which it adds the seconds it believes have passed since.
time ==
    IF last_update = 0 THEN None
    ELSE IF message = Cleared \/ age = Wrap THEN Wrong
    ELSE message - age + Since(last_update)

\* sync() up to the wait.  It drops what has arrived in the meantime; then the
\* name cannot be resolved, or the datagram is written over the old message and
\* is or is not sent.
sync ==
    /\ online /\ ~syncing /\ ~is_synchronized
    /\ tried' = TRUE
    /\ \E rest \in SUBSET answers :
         \/ Fail /\ answers' = rest /\ UNCHANGED client
         \/ /\ Fail
            /\ message' = Cleared
            /\ answers' = rest
            /\ UNCHANGED <<last_update, syncing, sent, age>>
         \/ /\ Fine
            /\ message' = Cleared
            /\ syncing' = TRUE /\ sent' = millis
            /\ answers' = rest \cup {0}
            /\ UNCHANGED <<last_update, age>>
    /\ UNCHANGED <<millis, manager, online>>

\* Any datagram is taken for the answer, also that to an earlier request or a
\* copy of one.
Answer ==
    /\ syncing
    /\ \E a \in answers : /\ message' = -a
                          /\ answers' \in {answers, answers \ {a}}
    /\ last_update' = millis /\ age' = 0
    /\ syncing' = FALSE /\ trouble' = ~online
    /\ UNCHANGED <<millis, sent, manager, online, tried, left>>

\* No answer in time.
GiveUp ==
    /\ syncing /\ Since(sent) >= Timeout
    /\ syncing' = FALSE
    /\ IF online THEN Fail ELSE Fine
    /\ UNCHANGED <<millis, last_update, message, sent, manager, answers, online, age, tried>>
----------------------------------------------------------------------------
(***************************************************************************)
(* clock_manager                                                           *)
(***************************************************************************)
\* Mutant: the thread does not look at the time again.
clock_manager_Once ==
    /\ online /\ ~syncing
    /\ ~pausing
    /\ time # None
    /\ pausing' = TRUE /\ paused' = millis
    /\ rtc' = time /\ Fine
    /\ UNCHANGED <<millis, client, answers, online, tried>>

\* Mutant: the optional is not looked at before its value is taken.
clock_manager_Unchecked ==
    /\ online /\ ~syncing
    /\ pausing => Since(paused) >= Period
    /\ pausing' = TRUE /\ paused' = millis
    /\ rtc' = time /\ Fine
    /\ UNCHANGED <<millis, client, answers, online, tried>>

\* Without a time from NTP the thread tries again in the next pass.  Nobody looks
\* at whether the DS1307 has taken the time.
clock_manager ==
    /\ online /\ ~syncing
    /\ pausing => Since(paused) >= Period
    /\ IF time = None
       THEN pausing' = FALSE /\ Fine /\ UNCHANGED <<paused, rtc>>
       ELSE /\ pausing' = TRUE /\ paused' = millis
            /\ \/ rtc' = time /\ Fine
               \/ rtc' \in {rtc, Wrong} /\ Fail
    /\ UNCHANGED <<millis, client, answers, online, tried>>
----------------------------------------------------------------------------
(***************************************************************************)
(* Time and the network                                                    *)
(***************************************************************************)
\* sync_poll() is called in every pass, many times a second: while the loop runs,
\* no second ends without an attempt that is due, and no wait beyond its timeout.
Tick ==
    /\ online /\ ~syncing => is_synchronized \/ tried
    /\ syncing => Since(sent) < Timeout
    /\ millis' = (millis + 1) % Wrap
    /\ age' = IF age = Wrap THEN Wrap ELSE age + 1
    /\ answers' = {a + 1 : a \in answers} \ {MaxDelay + 1}
    /\ tried' = FALSE
    /\ UNCHANGED <<last_update, message, syncing, sent, manager, online, trouble, left>>

Disconnect ==
    /\ online /\ Fail
    /\ online' = FALSE
    /\ UNCHANGED <<millis, client, manager, answers, tried>>

Reconnect ==
    /\ ~online
    /\ online' = TRUE
    /\ UNCHANGED <<millis, client, manager, answers, trouble, tried, left>>

\* millis() starts with the program; the DS1307 shows anything.
Init ==
    /\ millis = 0
    /\ last_update = 0 /\ message = Cleared
    /\ syncing = FALSE /\ sent = 0
    /\ pausing = FALSE /\ paused = 0
    /\ rtc = Wrong
    /\ answers = {}
    /\ online = FALSE
    /\ age = Wrap /\ trouble = TRUE /\ tried = FALSE
    /\ left = Disturbances

Next == sync \/ Answer \/ GiveUp \/ clock_manager \/ Tick \/ Disconnect \/ Reconnect

\* The loop runs, time goes on, the network comes back, and an answer that is in
\* the socket is found.  A pass calls clock_manager before it calls sync_poll, so
\* that attempts in a row do not keep the thread from its turn.
Spec == /\ Init /\ [][Next]_vars
        /\ WF_vars(sync) /\ WF_vars(Answer) /\ WF_vars(GiveUp) /\ SF_vars(clock_manager)
        /\ WF_vars(Tick) /\ WF_vars(Reconnect)
----------------------------------------------------------------------------
(***************************************************************************)
(* Properties                                                              *)
(***************************************************************************)
Moment == 0 .. Wrap - 1

TypeOK ==
    /\ millis \in Moment /\ last_update \in Moment /\ sent \in Moment /\ paused \in Moment
    /\ message \in Error \cup {Cleared} /\ rtc \in Error \cup {Wrong}
    /\ answers \subseteq 0 .. MaxDelay /\ age \in 0 .. Wrap
    /\ {syncing, pausing, online, trouble, tried} \subseteq BOOLEAN
    /\ left \in 0 .. Disturbances

\* The last update ceases to be valid just before millis() wraps: then the sum in
\* is_synchronized (src/ntp.cpp:163) is never less than millis() again, and the
\* client does not notice that its time gets older.
Overlooked == last_update # 0 /\ last_update + Interval = Wrap - 1

\* While nothing has failed since the last update, time() is as right as the network
\* allows, also across the wrap of millis(), although any late answer is taken for
\* the right one (src/ntp.cpp:144-150, 180-187).
RightWhileHealthy ==
    ~trouble /\ ~syncing /\ ~Overlooked /\ time # None => time \in Error

\* While nothing fails, the last update never gets older than the interval, the
\* second in which that is noticed and the wait for an answer (src/ntp.cpp:155-164).
FreshWhileHealthy == ~trouble /\ ~Overlooked => age <= Interval + 1 + Timeout

\* Failures do no lasting harm: once they are over, the DS1307 is set right and
\* stays so, even if clock_manager has set it from a message that had been cleared
\* (src/main.cpp:630-647).  Only if an update is overlooked it need not.
Recovers == <>[](rtc \in Error) \/ <>Overlooked

\* "Take the internal state into account to return a correct value"
\* (src/ntp.cpp:178): whenever time() returns one, it is right.
TimeRight == ~syncing /\ time # None => time \in Error
============================================================================
