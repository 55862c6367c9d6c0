------------------------------- MODULE Device -------------------------------
(***************************************************************************)
(* The program on the network: loop() of src/main.cpp with network_manager *)
(* and, while the program is online, the web server.  Without a connection *)
(* loop() returns before web_server and handleClient().  An update of the  *)
(* firmware restarts everything but the records and the page.              *)
(***************************************************************************)
EXTENDS NetworkManager, WebServer

vars == <<netvars, webvars>>

\* WiFi.status() is looked at once in a pass, before web_server.
loop == online /\ web_server /\ UNCHANGED netvars

Init == NetInit /\ WebInit

Network == NetNext /\ UNCHANGED webvars
Browser == \/ Page /\ UNCHANGED netvars
           \/ ~online /\ Break /\ UNCHANGED netvars

\* An update that was installed ends in a restart.
Serve == handleClient /\ IF image' = image THEN UNCHANGED netvars ELSE Reboot

Next == Network \/ Browser \/ loop \/ Serve

\* The loop keeps running, answers arrive; and the fairness of the network.
Fairness == /\ NetFairness /\ WF_vars(loop) /\ WF_vars(Serve)
            /\ WF_vars(Answer /\ UNCHANGED netvars)

Spec == Init /\ [][Next]_vars /\ Fairness
----------------------------------------------------------------------------
TypeOK == NetTypeOK /\ WebTypeOK

\* If the access point stays, nothing waits for ever: every request that was sent is
\* answered or its connection breaks, and what was queued when the program went
\* offline runs when it is back (src/main.cpp:253-263).
EverythingServed == <>[]present => <>[](wire = {} /\ task_queue = <<>> /\ answers = {})
============================================================================
