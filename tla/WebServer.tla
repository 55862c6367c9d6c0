------------------------------ MODULE WebServer ------------------------------
(***************************************************************************)
(* The way of a request: the page of data/script.js, the handlers setup()  *)
(* of src/main.cpp installs, the queue of tasks, and the protothread       *)
(* web_server that carries them out.                                       *)
(*                                                                         *)
(* handleClient() parses one request and calls its handler, which queues a *)
(* task; the arguments stay in the server.  The task runs in the next pass *)
(* and reads the arguments then.  A pass is web_server and handleClient(), *)
(* in this order.                                                          *)
(*                                                                         *)
(* What a record says does not matter, only which one it is: the number of *)
(* the request that made it, or a negative number for one that was there.  *)
(* A page is open; what it shows are rows.  Requests and answers are under *)
(* way in any order.  The records are those of RecordStore; what the       *)
(* handlers do to the cache is part of Scheduler.                          *)
(***************************************************************************)
EXTENDS OtaUpload, Sequences, FiniteSets

CONSTANTS Slot,      \* addresses of records
          Requests   \* bound: how many requests the user makes

ASSUME WebAssumption == Requests \in Nat /\ Slot \subseteq Nat /\ 0 \in Slot /\ Upload = 1 .. Requests

NoAddress == -1                \* undefined in the page, null on the way
Blank == -1
Old(a) == -2 - a
What == {Blank} \cup {Old(a) : a \in Slot} \cup 0 .. Requests

VARIABLES records,   \* by address
          wire,      \* requests on the way to the server
          arg,       \* the arguments of the request parsed last
          task_queue,
          answers,   \* answers on the way to the page
          rows,      \* what the page shows
          loaded,    \* the page shows the list of records it asked for
          sent,      \* requests so far
          turn,      \* of the loop: "web_server" or "handleClient"
          plain      \* observer: nothing unusual has happened (see Properties)
webvars == <<records, wire, arg, task_queue, answers, rows, loaded, sent, turn, plain, otavars>>
page == <<rows, loaded, sent>>
server == <<records, arg, task_queue, turn, otavars>>

Request == [n : 0 .. Requests, kind : {"get", "add", "delete", "upload"},
            what : What, address : Slot \cup {NoAddress}]
LoadRequest == [n |-> 0, kind |-> "get", what |-> Blank, address |-> NoAddress]

Store == INSTANCE RecordStore WITH Entry <- What, BlankEntry <- Blank
----------------------------------------------------------------------------
(***************************************************************************)
(* The page                                                                *)
(***************************************************************************)
Send(kind, row) ==
    /\ sent < Requests /\ sent' = sent + 1
    /\ wire' = wire \cup {[n |-> sent + 1, kind |-> kind,
                           what |-> IF kind = "add" THEN sent + 1 ELSE row.what,
                           address |-> row.address]}
    /\ UNCHANGED <<rows, loaded, answers, server>>

NoRow == [what |-> Blank, address |-> NoAddress]

submit == Send("add", NoRow) /\ plain' = (plain /\ loaded)

\* The row stays until the answer comes, so it can be clicked twice.
Clicked(row) ==
    \E r \in wire \cup {task_queue[i] : i \in DOMAIN task_queue} \cup {a.to : a \in answers} :
        r.kind = "delete" /\ r.what = row.what /\ r.address = row.address
click(row) ==
    /\ Send("delete", row)
    /\ plain' = (plain /\ loaded /\ row.address # NoAddress /\ ~Clicked(row))

update == Send("upload", NoRow) /\ UNCHANGED plain

\* Mutant: the row of a deleted record stays.
success_KeepsRow(a) ==
    /\ rows' = CASE a.to.kind = "get" -> rows \cup a.list
                 [] a.to.kind = "add" -> rows \cup {[what |-> a.body.what, address |-> NoAddress]}
                 [] OTHER -> rows
    /\ loaded' = (loaded \/ a.to.kind = "get")

\* The success functions: a row is added as the answer says, without an address;
\* the row that was clicked is removed, whatever the answer says.
success(a) ==
    /\ rows' = CASE a.to.kind = "get" -> rows \cup a.list
                 [] a.to.kind = "add" -> rows \cup {[what |-> a.body.what, address |-> NoAddress]}
                 [] a.to.kind = "delete" -> rows \ {[what |-> a.to.what, address |-> a.to.address]}
    /\ loaded' = (loaded \/ a.to.kind = "get")

Answer ==
    \E a \in answers : /\ success(a)
                       /\ answers' = answers \ {a}
                       /\ UNCHANGED <<wire, sent, plain, server>>

Page == submit \/ update \/ Answer \/ \E row \in rows : click(row)

\* Connections break, with the network.
Break ==
    /\ wire \cup {a.to : a \in answers} # {}
    /\ wire' = {} /\ answers' = {}
    /\ plain' = FALSE
    /\ UNCHANGED <<page, server>>
----------------------------------------------------------------------------
(***************************************************************************)
(* Tasks                                                                   *)
(***************************************************************************)
Fine == UNCHANGED plain
Fault == plain' = FALSE

\* insert_node() uses the lowest free slot; it can fail, and its result is ignored.
web_add_record_cb ==
    \/ \E a \in Slot : /\ \A b \in Slot : b < a => b \in DOMAIN records
                       /\ \/ Store!Add(a, arg.what) /\ Fine
                          \/ Store!Add(a, Blank) /\ Fault
    \/ UNCHANGED records /\ Fault

\* Text that is no number counts as 0.
str_to_int(address) == IF address = NoAddress THEN 0 ELSE address

web_delete_record_cb ==
    LET a == str_to_int(arg.address)
    IN  \/ Store!Remove(a) /\ Fine
        \/ a \notin DOMAIN records /\ UNCHANGED records /\ Fine
        \/ UNCHANGED records /\ Fault

web_get_record_cb == UNCHANGED records /\ Fine

create_json == {[what |-> records[a], address |-> a] : a \in DOMAIN records}

\* The task of the request t runs.  What it answers with and what it does comes
\* from the arguments in the server.
functor(t) ==
    /\ CASE t.kind = "get" -> web_get_record_cb
         [] t.kind = "add" -> web_add_record_cb
         [] t.kind = "delete" -> web_delete_record_cb
    /\ answers' = answers \cup {[to |-> t, body |-> arg,
                                 list |-> IF t.kind = "get" THEN create_json ELSE {}]}

\* Mutant: the thread may yield once more before it looks at the queue.
web_server_Yields ==
    /\ turn = "web_server" /\ turn' = "handleClient"
    /\ \/ UNCHANGED <<records, answers, task_queue, plain>>
       \/ task_queue # <<>> /\ functor(Head(task_queue)) /\ task_queue' = Tail(task_queue)
    /\ UNCHANGED <<wire, arg, page, otavars>>

web_server ==
    /\ turn = "web_server" /\ turn' = "handleClient"
    /\ IF task_queue = <<>>
       THEN UNCHANGED <<records, answers, task_queue, plain>>
       ELSE functor(Head(task_queue)) /\ task_queue' = Tail(task_queue)
    /\ UNCHANGED <<wire, arg, page, otavars>>
----------------------------------------------------------------------------
(***************************************************************************)
(* handleClient                                                            *)
(***************************************************************************)
\* A request for a task: it is queued, and its arguments stay in the server.
Queue(r) ==
    /\ r.kind # "upload"
    /\ arg' = r /\ task_queue' = Append(task_queue, r)
    /\ wire' = wire \ {r}
    /\ UNCHANGED <<answers, plain, otavars>>

\* An upload is carried out at once.
web_upload_ota_cb(r) ==
    /\ r.kind = "upload"
    /\ arg' = r
    /\ \/ /\ Aborted(r.n) \/ Failed(r.n)
          /\ wire' = wire \ {r}
          /\ UNCHANGED <<answers, task_queue, plain>>
       \/ /\ Installed(r.n)
          /\ wire' = {} /\ answers' = {} /\ task_queue' = <<>>
          /\ plain' = (plain /\ wire = {r} /\ answers = {} /\ loaded)

\* Mutant: all requests that have come are parsed.
handleClient_All ==
    /\ turn = "handleClient" /\ turn' = "web_server"
    /\ \/ wire = {} /\ UNCHANGED <<arg, task_queue, wire, answers, plain, otavars>>
       \/ \E r \in wire : web_upload_ota_cb(r)
       \/ \E r \in wire :
            /\ \A q \in wire : q.kind # "upload" /\ q.n <= r.n
            /\ arg' = r /\ wire' = {} /\ UNCHANGED <<answers, plain, otavars>>
            /\ task_queue' = task_queue \o [i \in 1 .. Cardinality(wire) |->
                   CHOOSE q \in wire : Cardinality({p \in wire : p.n < q.n}) = i - 1]
    /\ UNCHANGED <<records, page>>

\* One call takes one request.
handleClient ==
    /\ turn = "handleClient" /\ turn' = "web_server"
    /\ \/ wire = {} /\ UNCHANGED <<arg, task_queue, wire, answers, plain, otavars>>
       \/ \E r \in wire : Queue(r) \/ web_upload_ota_cb(r)
    /\ UNCHANGED <<records, page>>

WebInit ==
    /\ records \in {[a \in {b \in Slot : b < k} |-> Old(a)] : k \in Slot \cup {Cardinality(Slot)}}
    /\ wire = {LoadRequest} /\ answers = {}
    /\ arg = LoadRequest /\ task_queue = <<>> /\ turn = "web_server"
    /\ rows = {} /\ loaded = FALSE
    /\ sent \in {0, Requests}      \* or the user asks for nothing but the list
    /\ plain = TRUE
    /\ OtaInit
----------------------------------------------------------------------------
(***************************************************************************)
(* Properties.  plain says that the user has waited for the list, has only *)
(* clicked rows with an address and none of them twice, that no operation  *)
(* on the chip has failed for want of space or of the bus, and that no     *)
(* connection has broken.                                                  *)
(***************************************************************************)
WebTypeOK ==
    /\ DOMAIN records \subseteq Slot /\ \A a \in DOMAIN records : records[a] \in What
    /\ wire \subseteq Request /\ arg \in Request /\ task_queue \in Seq(Request)
    /\ rows \subseteq [what : What, address : Slot \cup {NoAddress}]
    /\ sent \in 0 .. Requests /\ turn \in {"web_server", "handleClient"}
    /\ loaded \in BOOLEAN /\ plain \in BOOLEAN
    /\ OtaTypeOK

\* A task finds the arguments of its own request in the server, although it reads
\* them in a later pass, and other requests are waiting to be parsed
\* (src/main.cpp:190-198, 255-263, 401): there is never a second task.
OwnArguments == task_queue # <<>> => task_queue = <<arg>>

\* In plain use the page shows what is stored once everything is answered, in
\* whatever order requests and answers have come: every record has a row, and a row
\* that has an address has that of its record (data/script.js:70-92).
PageShowsRecords ==
    plain /\ loaded /\ wire = {} /\ task_queue = <<>> /\ answers = {} =>
        /\ {r.what : r \in rows} = {records[a] : a \in DOMAIN records}
        /\ \A r \in rows : r.address # NoAddress => records[r.address] = r.what

\* What a step takes from the records.
Lost == {records[a] : a \in DOMAIN records \ DOMAIN records'}

\* The button of a row (data/script.js:27, 81-92) deletes the record of the row and
\* no other: in plain use, also if its address has been given to a new record.
DeletesInPlainUse == [][plain /\ Lost # {} => Lost = {Head(task_queue).what}]_webvars

\* An upload that replaces the program comes when no task is waiting: no request
\* that has been taken is lost with the restart (src/main.cpp:253-263, 475-478).
RestartLosesNoTask == [][image' # image => task_queue = <<>>]_webvars

\* The button of a row says "delete" (data/script.js:27), and the page sends the
\* address it has for the row (line 87): what goes is the record of the row, also if
\* the row was added by this page; or a record that was blank anyway.
DeletesTheRow == [][loaded /\ Lost # {} => Lost \subseteq {Head(task_queue).what, Blank}]_webvars
============================================================================
