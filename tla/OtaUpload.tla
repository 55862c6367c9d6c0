------------------------------ MODULE OtaUpload ------------------------------
(***************************************************************************)
(* An update of the firmware: web_upload_ota_cb of src/main.cpp over the   *)
(* Update object of the ESP8266 library.                                   *)
(*                                                                         *)
(* The web server reads a whole upload in one call of handleClient() and   *)
(* calls the handler for its start, each of its chunks and its end; if the *)
(* connection breaks off, the handler is called too and does nothing.  So  *)
(* an upload is one action.                                                *)
(*                                                                         *)
(* The library is external.  What is assumed of it: begin() does nothing   *)
(* but return false while an update is running, otherwise it starts a new  *)
(* one; write() appends, or fails and lets every later write() and the     *)
(* end() fail; end() ends the update, and installs what was written unless *)
(* something failed; and nothing but end() ends an update, so one whose    *)
(* upload breaks off stays running and the next upload is appended to it.  *)
(***************************************************************************)
EXTENDS Integers

CONSTANT Upload           \* the uploads there can be

Part == [of : Upload, whole : BOOLEAN]

VARIABLES running,        \* an update is running
          parts,          \* what it has written: parts of uploads
          error,          \* a write has failed since begin()
          image           \* what the last end() installed
otavars == <<running, parts, error, image>>

\* The parts there are after writing what has come of u.
written(u, whole) == (IF running THEN parts ELSE {}) \cup {[of |-> u, whole |-> whole]}

\* The connection breaks off: the status UPLOAD_FILE_ABORTED is not handled.  Of a
\* new update that cannot begin, nothing is written.
Aborted(u) ==
    /\ \/ ~running /\ UNCHANGED <<running, parts, error>>
       \/ /\ running' = TRUE
          /\ IF running /\ error
             THEN UNCHANGED <<parts, error>>
             ELSE parts' = written(u, FALSE) /\ error' \in BOOLEAN
    /\ UNCHANGED image

\* begin() or a write() has failed, so does end().
Failed(u) ==
    /\ running' = FALSE /\ parts' = {} /\ error' = FALSE
    /\ UNCHANGED image

\* Nothing has failed; the program restarts.
Installed(u) ==
    /\ ~(running /\ error)
    /\ image' = written(u, TRUE)
    /\ running' = FALSE /\ parts' = {} /\ error' = FALSE

OtaInit == running = FALSE /\ parts = {} /\ error = FALSE /\ image = {}

OtaTypeOK ==
    /\ running \in BOOLEAN /\ error \in BOOLEAN
    /\ parts \subseteq Part /\ image \subseteq Part
============================================================================
