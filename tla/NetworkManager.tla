--------------------------- MODULE NetworkManager ---------------------------
(***************************************************************************)
(* How the program gets on the network and back on it: the protothread     *)
(* network_manager of src/main.cpp and the callbacks the WiFi library      *)
(* calls on its events.                                                    *)
(*                                                                         *)
(* The library is external.  What is assumed of it: begin() makes the      *)
(* station try until it is told to disconnect, also after it has lost a    *)
(* connection; being associated (joined) comes before having an address    *)
(* (up, WL_CONNECTED); a failed attempt and a lost connection are          *)
(* reported, a disconnect() only if there was anything to leave.           *)
(* The callbacks run between two passes of the loop, if they run at all:   *)
(* setup() throws away the handles it gets when it registers them, and a   *)
(* library may take a handler without a handle out of its list again.      *)
(***************************************************************************)
EXTENDS Integers

CONSTANTS MAX_WIFI_TRIES,  \* tries before a pause (15)
          Changes          \* bound: how often the access point vanishes or a
                           \* connection is lost without reason

ASSUME NetworkAssumption ==
    /\ MAX_WIFI_TRIES \in 1 .. 252
    /\ Changes \in Nat

VARIABLES tries_ctr,
          is_stopped,   \* network_context
          waiting,      \* what the thread waits for: "nothing", a "second", a "pause"
          link,         \* the station: "off", "trying", "joined", "up"
          leaving,      \* disconnect() has been called, its event is still to come
          failed,       \* an attempt of the station has failed in this wait
          present,      \* the access point is there
          kept,         \* the library calls the callbacks
          pauses,       \* observer: pauses since WiFi.begin() or a connection, up to 3
          left          \* changes still to come
netvars == <<tries_ctr, is_stopped, waiting, link, leaving, failed, present, kept, pauses, left>>
station == <<link, leaving, failed, present, kept>>

online == link = "up"      \* WiFi.status() == WL_CONNECTED
Change == left > 0 /\ left' = left - 1
----------------------------------------------------------------------------
(***************************************************************************)
(* The callbacks                                                           *)
(***************************************************************************)
\* Mutant: the thread is not woken.
wifi_disconnect_cb_NoResume ==
    /\ tries_ctr' = IF kept THEN tries_ctr + 1 ELSE tries_ctr
    /\ UNCHANGED <<is_stopped, kept>>

wifi_disconnect_cb ==
    /\ tries_ctr' = IF kept THEN tries_ctr + 1 ELSE tries_ctr
    /\ is_stopped' = (is_stopped /\ ~kept)
    /\ UNCHANGED kept

wifi_connected_cb ==
    /\ tries_ctr' = IF kept THEN 0 ELSE tries_ctr
    /\ UNCHANGED <<is_stopped, kept>>
----------------------------------------------------------------------------
(***************************************************************************)
(* One pass of network_manager                                             *)
(***************************************************************************)
\* WiFi.begin() may start over a connection that is just being made.
begin ==
    /\ \/ link # "joined" /\ link' = "trying" /\ UNCHANGED leaving
       \/ link = "joined" /\ UNCHANGED <<link, leaving>>
       \/ link = "joined" /\ link' = "trying" /\ leaving' = TRUE
    /\ UNCHANGED <<failed, present, kept>>

disconnect ==
    /\ link' = "off"
    /\ leaving' \in (IF link = "off" THEN {leaving} ELSE BOOLEAN)
    /\ UNCHANGED <<failed, present, kept>>

PT_STOP ==
    /\ online
    /\ is_stopped' = TRUE
    /\ UNCHANGED <<tries_ctr, waiting, station, pauses>>

\* Mutant: the callbacks can take the counter past its limit.
TooMany_Exactly == tries_ctr = MAX_WIFI_TRIES

TooMany == tries_ctr >= MAX_WIFI_TRIES

TooManyTries ==
    /\ ~online /\ TooMany
    /\ tries_ctr' = 0
    /\ disconnect
    /\ waiting' = "pause" /\ pauses' = IF pauses < 3 THEN pauses + 1 ELSE 3
    /\ UNCHANGED is_stopped

\* Mutant: begin() is called with the first try only after the counter has moved.
Try_LateBegin ==
    /\ ~online /\ ~TooMany
    /\ tries_ctr' = tries_ctr + 1
    /\ IF tries_ctr' = 0 THEN begin /\ pauses' = 0 ELSE UNCHANGED <<station, pauses>>
    /\ waiting' = "second"
    /\ UNCHANGED is_stopped

\* begin() is only called when nothing has been counted yet.
Try ==
    /\ ~online /\ ~TooMany
    /\ IF tries_ctr = 0 THEN begin /\ pauses' = 0 ELSE UNCHANGED <<station, pauses>>
    /\ tries_ctr' = tries_ctr + 1
    /\ waiting' = "second"
    /\ UNCHANGED is_stopped

network_manager ==
    /\ ~is_stopped /\ waiting = "nothing"
    /\ PT_STOP \/ TooManyTries \/ Try
    /\ UNCHANGED left

\* The timer of PT_WAIT expires; by then the event of a disconnect() has come.
Elapse ==
    /\ waiting # "nothing" /\ ~leaving
    /\ waiting' = "nothing" /\ failed' = FALSE
    /\ UNCHANGED <<tries_ctr, is_stopped, link, leaving, present, kept, pauses, left>>
----------------------------------------------------------------------------
(***************************************************************************)
(* The station and the access point                                        *)
(***************************************************************************)
Left ==
    /\ leaving /\ leaving' = FALSE
    /\ wifi_disconnect_cb
    /\ UNCHANGED <<waiting, link, failed, present, pauses, left>>

\* Attempts take longer than a pass and than half a second: at most one event of
\* the kind comes in one wait.
Fail ==
    /\ link = "trying" /\ waiting # "nothing" /\ ~failed
    /\ failed' = TRUE
    /\ wifi_disconnect_cb
    /\ UNCHANGED <<waiting, link, leaving, present, pauses, left>>

Join ==
    /\ link = "trying" /\ ~leaving /\ present
    /\ link' = "joined"
    /\ wifi_connected_cb /\ pauses' = 0
    /\ UNCHANGED <<waiting, leaving, failed, present, left>>

GetIp ==
    /\ link = "joined" /\ present
    /\ link' = "up"
    /\ UNCHANGED <<tries_ctr, is_stopped, waiting, leaving, failed, present, kept, pauses, left>>

Drop ==
    /\ link \in {"joined", "up"}
    /\ IF present THEN Change ELSE UNCHANGED left
    /\ link' = "trying" /\ failed' = TRUE
    /\ wifi_disconnect_cb
    /\ UNCHANGED <<waiting, leaving, present, pauses>>

Vanish ==
    /\ present /\ present' = FALSE /\ Change
    /\ UNCHANGED <<tries_ctr, is_stopped, waiting, link, leaving, failed, kept, pauses>>

Appear ==
    /\ ~present /\ present' = TRUE
    /\ UNCHANGED <<tries_ctr, is_stopped, waiting, link, leaving, failed, kept, pauses, left>>

\* The station may remember a network from an earlier run.
NetInit ==
    /\ tries_ctr = 0 /\ is_stopped = FALSE /\ waiting = "nothing"
    /\ link \in {"off", "trying"} /\ leaving = FALSE /\ failed = FALSE
    /\ pauses = 0
    /\ present \in BOOLEAN /\ kept \in BOOLEAN /\ left = Changes

Reboot ==
    /\ tries_ctr' = 0 /\ is_stopped' = FALSE /\ waiting' = "nothing"
    /\ link' \in {"off", "trying"} /\ leaving' = FALSE /\ failed' = FALSE
    /\ pauses' = 0
    /\ UNCHANGED <<present, kept, left>>

NetNext == \/ network_manager \/ Elapse
           \/ Left \/ Fail \/ Join \/ GetIp \/ Drop \/ Vanish \/ Appear

\* The loop runs, timers expire and events are reported.  A station that gets to
\* try again and again connects in the end, and gets its address at times before the
\* next try starts the connection over, or before the next pause.
NetFairness ==
    /\ WF_netvars(network_manager) /\ WF_netvars(Elapse) /\ WF_netvars(Left) /\ WF_netvars(Drop)
    /\ SF_netvars(Join) /\ SF_netvars(GetIp)

NetSpec == NetInit /\ [][NetNext]_netvars /\ NetFairness
----------------------------------------------------------------------------
(***************************************************************************)
(* Properties                                                              *)
(***************************************************************************)
\* The counter, a uint8_t, stays near its limit: the callbacks add to it as well.
NetTypeOK ==
    /\ tries_ctr \in 0 .. MAX_WIFI_TRIES + 2
    /\ waiting \in {"nothing", "second", "pause"}
    /\ link \in {"off", "trying", "joined", "up"}
    /\ is_stopped \in BOOLEAN /\ leaving \in BOOLEAN
    /\ failed \in BOOLEAN /\ present \in BOOLEAN /\ kept \in BOOLEAN
    /\ pauses \in 0 .. 3 /\ left \in 0 .. Changes

\* If the callbacks are called, the thread only sleeps while the program is
\* connected: whatever takes it off the network wakes it (src/main.cpp:346-349,
\* 490-494).
SleepsOnlyOnline == kept /\ is_stopped => online

\* A pause ends in another attempt, or the next one does: the event of the
\* disconnect() before a pause is counted as a try, so that after it nothing calls
\* WiFi.begin(); that makes one pause in vain, never two in a row
\* (src/main.cpp:495-502).
AtMostOnePauseInVain == pauses <= 2

\* If the access point stays, the program gets on the network and stays there, also
\* if its callbacks are not called (src/main.cpp:180-181): the library tries to get
\* back on its own what the sleeping thread has lost.
Reconnects == <>[]present => <>[]online
============================================================================
