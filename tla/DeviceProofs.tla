---------------------------- MODULE DeviceProofs ----------------------------
(***************************************************************************)
(* What holds of the program on the network for every limit of tries,      *)
(* every number of requests and records, and however often connections are *)
(* lost: the thread of the network never sleeps through the loss of the    *)
(* connection nor pauses in vain twice, a task finds its own arguments, no *)
(* restart loses a task.                                                   *)
(***************************************************************************)
EXTENDS Device, TLAPS

\* A network event can still be counted in this wait: a failed attempt, or the loss
\* of the connection; and the event of a disconnect().
Countable == IF link \in {"joined", "up"} \/ (waiting # "nothing" /\ ~failed) THEN 1 ELSE 0
Pending == IF leaving THEN 1 ELSE 0

NetFlags ==
    /\ is_stopped \in BOOLEAN /\ leaving \in BOOLEAN
    /\ failed \in BOOLEAN /\ present \in BOOLEAN /\ kept \in BOOLEAN

NetTypes ==
    /\ tries_ctr \in Nat
    /\ waiting \in {"nothing", "second", "pause"}
    /\ link \in {"off", "trying", "joined", "up"}
    /\ pauses \in 0 .. 3 /\ left \in 0 .. Changes

\* The events still to come are part of the bound on the counter, if they count.
Budget ==
    /\ IF kept THEN tries_ctr + Pending + Countable <= MAX_WIFI_TRIES + 2
               ELSE tries_ctr <= MAX_WIFI_TRIES
    /\ leaving => waiting # "nothing" /\ link \in {"off", "trying"}

NetInv == NetTypes /\ NetFlags /\ Budget

\* After a pause nothing is left that could be counted but the event of its own
\* disconnect(), and after the second not even that.
PauseInv ==
    /\ pauses > 0 => link = "off"
    /\ pauses > 1 => pauses = 2 /\ tries_ctr = 0 /\ ~leaving

\* At most one task waits, and none once handleClient() may be called.
TaskInv ==
    \/ task_queue = <<>>
    \/ task_queue = <<arg>> /\ turn = "web_server"

\* Uploads on the way are those there can be.
WireInv ==
    /\ sent \in 0 .. Requests
    /\ \A r \in wire : r.kind = "upload" => r.n \in Upload
----------------------------------------------------------------------------
\* A step of the program is one of the network, a restart, or not about it.
LEMMA NetworkSteps ==
  ASSUME [Next]_vars
  PROVE  NetNext \/ Reboot \/ UNCHANGED netvars
  BY DEF Next, Network, Browser, loop, Serve, vars

\* Each step keeps the types.
LEMMA NetTypesStep ==
  ASSUME NetTypes, NetNext \/ Reboot \/ UNCHANGED netvars
  PROVE  NetTypes'
  <1> USE NetworkAssumption DEF NetTypes
  <1>1. CASE network_manager
    <2>1. CASE PT_STOP
      BY <1>1, <2>1 DEF network_manager, PT_STOP, station
    <2>2. CASE TooManyTries
      BY <1>1, <2>2 DEF network_manager, TooManyTries, disconnect
    <2>3. CASE Try
      BY <1>1, <2>3 DEF network_manager, Try, begin, station
    <2>4. QED
      BY <1>1, <2>1, <2>2, <2>3 DEF network_manager
  <1>2. CASE Elapse
    BY <1>2 DEF Elapse
  <1>3. CASE Left \/ Fail
    BY <1>3 DEF Left, Fail, wifi_disconnect_cb
  <1>4. CASE Join \/ GetIp
    BY <1>4 DEF Join, GetIp, wifi_connected_cb
  <1>5. CASE Drop
    BY <1>5 DEF Drop, Change, wifi_disconnect_cb
  <1>6. CASE Vanish \/ Appear
    BY <1>6 DEF Vanish, Appear, Change
  <1>7. CASE Reboot
    BY <1>7 DEF Reboot
  <1>8. CASE UNCHANGED netvars
    BY <1>8 DEF netvars, station
  <1>9. QED
    BY <1>1, <1>2, <1>3, <1>4, <1>5, <1>6, <1>7, <1>8 DEF NetNext

\* Each step keeps the flags Booleans.
LEMMA NetFlagsStep ==
  ASSUME NetFlags, NetNext \/ Reboot \/ UNCHANGED netvars
  PROVE  NetFlags'
  <1> USE DEF NetFlags
  <1>1. CASE network_manager
    <2>1. CASE PT_STOP
      BY <1>1, <2>1 DEF network_manager, PT_STOP, station
    <2>2. CASE TooManyTries
      BY <1>1, <2>2 DEF network_manager, TooManyTries, disconnect
    <2>3. CASE Try
      BY <1>1, <2>3 DEF network_manager, Try, begin, station
    <2>4. QED
      BY <1>1, <2>1, <2>2, <2>3 DEF network_manager
  <1>2. CASE Elapse
    BY <1>2 DEF Elapse
  <1>3. CASE Left \/ Fail
    BY <1>3 DEF Left, Fail, wifi_disconnect_cb
  <1>4. CASE Join \/ GetIp
    BY <1>4 DEF Join, GetIp, wifi_connected_cb
  <1>5. CASE Drop
    BY <1>5 DEF Drop, wifi_disconnect_cb
  <1>6. CASE Vanish \/ Appear
    BY <1>6 DEF Vanish, Appear
  <1>7. CASE Reboot
    BY <1>7 DEF Reboot
  <1>8. CASE UNCHANGED netvars
    BY <1>8 DEF netvars, station
  <1>9. QED
    BY <1>1, <1>2, <1>3, <1>4, <1>5, <1>6, <1>7, <1>8 DEF NetNext

\* What is counted was countable before, and only a try adds to the sum.
LEMMA BudgetStep ==
  ASSUME NetTypes, NetFlags, Budget, NetNext \/ Reboot \/ UNCHANGED netvars
  PROVE  Budget'
  <1> USE NetworkAssumption DEF NetTypes, NetFlags, Budget, Countable, Pending
  <1>1. CASE network_manager
    <2>1. CASE PT_STOP
      BY <1>1, <2>1 DEF network_manager, PT_STOP, station
    <2>2. CASE TooManyTries
      BY <1>1, <2>2 DEF network_manager, TooManyTries, disconnect
    <2>3. CASE Try
      BY <1>1, <2>3 DEF network_manager, Try, TooMany, begin, station
    <2>4. QED
      BY <1>1, <2>1, <2>2, <2>3 DEF network_manager
  <1>2. CASE Elapse
    BY <1>2 DEF Elapse
  <1>3. CASE Left
    BY <1>3 DEF Left, wifi_disconnect_cb
  <1>4. CASE Fail
    BY <1>4 DEF Fail, wifi_disconnect_cb
  <1>5. CASE Join
    BY <1>5 DEF Join, wifi_connected_cb
  <1>6. CASE GetIp
    BY <1>6 DEF GetIp
  <1>7. CASE Drop
    BY <1>7 DEF Drop, wifi_disconnect_cb
  <1>8. CASE Vanish \/ Appear
    BY <1>8 DEF Vanish, Appear
  <1>9. CASE Reboot
    BY <1>9 DEF Reboot
  <1>10. CASE UNCHANGED netvars
    BY <1>10 DEF netvars, station
  <1>11. QED
    BY <1>1, <1>2, <1>3, <1>4, <1>5, <1>6, <1>7, <1>8, <1>9, <1>10 DEF NetNext

\* A second pause in a row leaves nothing to count: the next try calls begin().
LEMMA PauseInvStep ==
  ASSUME NetInv, PauseInv, NetNext \/ Reboot \/ UNCHANGED netvars
  PROVE  PauseInv'
  <1> USE DEF NetInv, NetTypes, NetFlags, Budget, PauseInv
  <1>1. CASE network_manager
    <2>1. CASE PT_STOP
      BY <1>1, <2>1 DEF network_manager, PT_STOP, station
    <2>2. CASE TooManyTries
      BY <1>1, <2>2, NetworkAssumption DEF network_manager, TooManyTries, TooMany, disconnect
    <2>3. CASE Try
      BY <1>1, <2>3 DEF network_manager, Try, begin, station
    <2>4. QED
      BY <1>1, <2>1, <2>2, <2>3 DEF network_manager
  <1>2. CASE Elapse
    BY <1>2 DEF Elapse
  <1>3. CASE Left \/ Fail
    BY <1>3 DEF Left, Fail, wifi_disconnect_cb
  <1>4. CASE Join \/ GetIp
    BY <1>4 DEF Join, GetIp, wifi_connected_cb
  <1>5. CASE Drop
    BY <1>5 DEF Drop, wifi_disconnect_cb
  <1>6. CASE Vanish \/ Appear
    BY <1>6 DEF Vanish, Appear
  <1>7. CASE Reboot \/ UNCHANGED netvars
    BY <1>7 DEF Reboot, netvars, station
  <1>8. QED
    BY <1>1, <1>2, <1>3, <1>4, <1>5, <1>6, <1>7 DEF NetNext

\* Whatever takes the program off the network wakes the thread.
LEMMA SleepStep ==
  ASSUME SleepsOnlyOnline, NetNext \/ Reboot \/ UNCHANGED netvars
  PROVE  SleepsOnlyOnline'
  <1> USE DEF SleepsOnlyOnline, online
  <1>1. CASE network_manager
    BY <1>1 DEF network_manager, PT_STOP, TooManyTries, Try, station
  <1>2. CASE Elapse \/ Vanish \/ Appear
    BY <1>2 DEF Elapse, Vanish, Appear
  <1>3. CASE Left \/ Fail \/ Drop
    BY <1>3 DEF Left, Fail, Drop, wifi_disconnect_cb
  <1>4. CASE Join \/ GetIp
    BY <1>4 DEF Join, GetIp, wifi_connected_cb
  <1>5. CASE Reboot \/ UNCHANGED netvars
    BY <1>5 DEF Reboot, netvars, station
  <1>6. QED
    BY <1>1, <1>2, <1>3, <1>4, <1>5 DEF NetNext
----------------------------------------------------------------------------
\* A task that is queued is the only one, and its request was parsed last.
LEMMA TaskInvStep ==
  ASSUME TaskInv, [Next]_vars
  PROVE  TaskInv'
  <1> USE DEF TaskInv
  <1>1. CASE Network
    BY <1>1 DEF Network, webvars
  <1>2. CASE Browser
    BY <1>2 DEF Browser, Page, submit, update, click, Send, Answer, Break, server
  <1>3. CASE loop
    BY <1>3 DEF loop, web_server
  <1>4. CASE Serve
    <2>1. task_queue = <<>> /\ turn' = "web_server"
      BY <1>4 DEF Serve, handleClient
    <2>2. ASSUME NEW r, Queue(r)
          PROVE  TaskInv'
      BY <2>1, <2>2 DEF Queue
    <2>3. ASSUME NEW r, web_upload_ota_cb(r)
          PROVE  TaskInv'
      BY <2>1, <2>3 DEF web_upload_ota_cb
    <2>4. QED
      BY <1>4, <2>1, <2>2, <2>3 DEF Serve, handleClient
  <1>5. CASE UNCHANGED vars
    BY <1>5 DEF vars, webvars
  <1>6. QED
    BY <1>1, <1>2, <1>3, <1>4, <1>5 DEF Next

\* Requests are numbered as they are sent, and the server only takes them away.
LEMMA WireInvStep ==
  ASSUME WireInv, [Next]_vars
  PROVE  WireInv'
  <1> USE DEF WireInv
  <1>1. CASE Network
    BY <1>1 DEF Network, webvars
  <1>2. CASE Browser
    <2>1. ASSUME NEW kind, NEW row, Send(kind, row)
          PROVE  WireInv'
      BY <2>1, WebAssumption DEF Send
    <2>2. CASE Answer \/ Break
      BY <2>2 DEF Answer, Break, page
    <2>3. QED
      BY <1>2, <2>1, <2>2 DEF Browser, Page, submit, update, click
  <1>3. CASE loop
    BY <1>3 DEF loop, web_server, page
  <1>4. CASE Serve
    <2>1. wire' \subseteq wire /\ sent' = sent
      BY <1>4 DEF Serve, handleClient, Queue, web_upload_ota_cb, page
    <2>2. QED
      BY <2>1
  <1>5. CASE UNCHANGED vars
    BY <1>5 DEF vars, webvars
  <1>6. QED
    BY <1>1, <1>2, <1>3, <1>4, <1>5 DEF Next

\* The program is replaced only by the end of an upload.
LEMMA ImageStep ==
  ASSUME [Next]_vars, image' # image
  PROVE  /\ turn = "handleClient"
         /\ \E r \in wire : web_upload_ota_cb(r) /\ Installed(r.n)
  <1>1. CASE Serve
    BY <1>1 DEF Serve, handleClient, Queue, web_upload_ota_cb, Aborted, Failed, otavars
  <1>2. CASE ~Serve
    BY <1>2 DEF Next, Network, Browser, Page, submit, update, click, Send, Answer, Break,
                loop, web_server, server, vars, webvars, otavars
  <1>3. QED
    BY <1>1, <1>2
----------------------------------------------------------------------------
\* All of it together, from the start on.
LEMMA DeviceInvariant == Spec => [](NetInv /\ PauseInv /\ SleepsOnlyOnline /\ TaskInv /\ WireInv)
  <1>1. Init => NetInv
    <2> SUFFICES ASSUME NetInit
                 PROVE  NetInv
      BY DEF Init
    <2>1. NetTypes
      BY NetworkAssumption DEF NetInit, NetTypes
    <2>2. NetFlags
      BY DEF NetInit, NetFlags
    <2>3. Budget
      BY NetworkAssumption DEF NetInit, Budget, Pending, Countable
    <2>4. QED
      BY <2>1, <2>2, <2>3 DEF NetInv
  <1>2. Init => PauseInv /\ SleepsOnlyOnline
    BY DEF Init, NetInit, PauseInv, SleepsOnlyOnline
  <1>3. Init => TaskInv
    BY DEF Init, WebInit, OtaInit, TaskInv
  <1>4. Init => WireInv
    BY WebAssumption DEF Init, WebInit, LoadRequest, WireInv
  <1>5. QED
    BY <1>1, <1>2, <1>3, <1>4, NetworkSteps, NetTypesStep, NetFlagsStep, BudgetStep, PauseInvStep,
       SleepStep, TaskInvStep,
       WireInvStep, PTL DEF Spec, NetInv

\* The counter of tries goes at most two past its limit (src/main.cpp:346-353,
\* 495-503).
THEOREM CounterBounded == Spec => []NetTypeOK
  <1>1. NetInv => NetTypeOK
    BY NetworkAssumption DEF NetInv, NetTypes, NetFlags, Budget, Pending, Countable, NetTypeOK
  <1>2. QED
    BY <1>1, DeviceInvariant, PTL

\* network_manager stops only while connected; every loss wakes it
\* (src/main.cpp:346-353, 485-494).
THEOREM AwakeOffline == Spec => []SleepsOnlyOnline
  BY DeviceInvariant, PTL

\* For every limit of tries, of two pauses in a row at most one is in vain
\* (src/main.cpp:495-502).
THEOREM NoSecondPauseInVain == Spec => []AtMostOnePauseInVain
  <1>1. NetInv /\ PauseInv => AtMostOnePauseInVain
    BY DEF NetInv, NetTypes, PauseInv, AtMostOnePauseInVain
  <1>2. QED
    BY <1>1, DeviceInvariant, PTL

\* A task reads the arguments of its own request, whatever else is under way
\* (src/main.cpp:190-198, 513-526).
THEOREM ArgumentsOwned == Spec => []OwnArguments
  <1>1. TaskInv => OwnArguments
    BY DEF TaskInv, OwnArguments
  <1>2. QED
    BY <1>1, DeviceInvariant, PTL

\* The restart after an update loses no task (src/main.cpp:475-478).
THEOREM NoTaskLost == Spec => RestartLosesNoTask
  <1>1. TaskInv /\ [Next]_vars => [image' # image => task_queue = <<>>]_webvars
    BY ImageStep DEF TaskInv
  <1>2. QED
    BY <1>1, DeviceInvariant, PTL DEF Spec, RestartLosesNoTask

============================================================================
