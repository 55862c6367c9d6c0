------------------------------ MODULE MCDevice ------------------------------
(***************************************************************************)
(* An instance of Device for model checking: where the callbacks are not   *)
(* called, which concerns the network only, the user asks for nothing but  *)
(* the list.                                                               *)
(***************************************************************************)
EXTENDS Device

MCInit == Init /\ (kept \/ sent = Requests)
MCSpec == MCInit /\ [][Next]_vars /\ Fairness
============================================================================
