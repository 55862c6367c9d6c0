----------------------------- MODULE PageProofs -----------------------------
(***************************************************************************)
(* What holds of the web page for every number of requests and of records: *)
(* in plain use it shows what is stored once everything is answered, and   *)
(* its buttons delete the records of their rows, in whatever order         *)
(* requests are taken and answers come.  A request is open until it has    *)
(* been carried out, then its answer is under way.                         *)
(***************************************************************************)
EXTENDS DeviceProofs

Queued == {task_queue[i] : i \in DOMAIN task_queue}
Open == wire \cup Queued

RowType == [what : What, address : Slot \cup {NoAddress}]
AnswerType == [to : Request, body : Request, list : SUBSET RowType]
Row(r) == [what |-> r.what, address |-> r.address]

WebTypes ==
    /\ DOMAIN records \subseteq Slot /\ \A a \in DOMAIN records : records[a] \in What
    /\ Open \subseteq Request /\ arg \in Request /\ answers \subseteq AnswerType
    /\ rows \subseteq RowType /\ sent \in 0 .. Requests
    /\ turn \in {"web_server", "handleClient"} /\ loaded \in BOOLEAN /\ plain \in BOOLEAN

\* A request is in one place only and known by its number; the list is asked for
\* once.
Numbered ==
    /\ \A r \in Open : r.n <= sent /\ (r.kind = "get" <=> r.n = 0)
                                   /\ (r.kind = "add" => r.what = r.n)
    /\ \A a \in answers : /\ a.to.n <= sent /\ (a.to.kind = "get" <=> a.to.n = 0)
                          /\ a.to.kind = "add" => a.to.what = a.to.n
                          /\ a.to.kind # "upload" /\ a.body = a.to
    /\ wire \cap Queued = {} /\ \A r \in Queued : r.kind # "upload"
    /\ \A q, r \in Open : q.n = r.n => q = r
    /\ \A a, b \in answers : a.to.n = b.to.n => a = b
    /\ \A a \in answers, r \in Open : a.to.n # r.n
    /\ loaded => (\A r \in Open : r.n # 0) /\ (\A a \in answers : a.to.n # 0)

\* Every record is there once, and none yet that is still to be added.
Distinct ==
    /\ \A a, b \in DOMAIN records : records[a] = records[b] => a = b
    /\ \A a \in DOMAIN records : records[a] <= sent
    /\ \A r \in Open, a \in DOMAIN records : r.kind = "add" => records[a] # r.n

\* Before the page has its list, nothing is changed: the list on its way is right.
Unloaded ==
    /\ rows = {}
    /\ \A r \in Open : r.kind \notin {"add", "delete"}
    /\ \A a \in answers : a.to.kind = "get" /\ a.list = create_json

\* Every row is there once, and none yet for what is still to be added.
RowsDistinct ==
    /\ \A q, r \in rows : q.what = r.what => q = r
    /\ \A r \in rows : r.what <= sent
    /\ \A r \in rows, q \in Open : q.kind = "add" => q.n # r.what
    /\ \A r \in rows, b \in answers : b.to.kind = "add" => b.to.n # r.what

\* Rows and records belong to each other, but for what the page has not been told.
RowsMatch ==
    /\ \A a \in DOMAIN records :
         \/ \E r \in rows : r.what = records[a] /\ r.address \in {a, NoAddress}
         \/ \E b \in answers : b.to.kind = "add" /\ b.to.n = records[a]
    /\ \A r \in rows :
         \/ \E a \in DOMAIN records : records[a] = r.what /\ r.address \in {a, NoAddress}
         \/ \E b \in answers : b.to.kind = "delete" /\ Row(b.to) = r

\* A deletion that is still to be carried out names the record of its row; one that
\* has been leaves a row without a record.  An addition has made its record.
TasksMatch ==
    /\ \A r \in Open : r.kind = "delete" =>
          r.address \in DOMAIN records /\ records[r.address] = r.what /\ Row(r) \in rows
    /\ \A q, r \in Open :
          q.kind = "delete" /\ r.kind = "delete" /\ q.what = r.what => q = r
    /\ \A b \in answers : b.to.kind = "delete" =>
          Row(b.to) \in rows /\ \A a \in DOMAIN records : records[a] # b.to.what
    /\ \A b, c \in answers :
          b.to.kind = "delete" /\ c.to.kind = "delete" /\ b.to.what = c.to.what => b = c
    /\ \A b \in answers : b.to.kind = "add" => \E a \in DOMAIN records : records[a] = b.to.n

PlainInv ==
    plain => /\ Distinct
             /\ ~loaded => Unloaded
             /\ loaded => RowsDistinct /\ RowsMatch /\ TasksMatch

PageInv == WebTypes /\ Numbered /\ PlainInv
----------------------------------------------------------------------------
\* At most one task waits.
LEMMA QueuedOnes ==
  ASSUME NEW t
  PROVE  /\ task_queue = <<>> => Queued = {}
         /\ task_queue = <<t>> => Queued = {t}
  BY DEF Queued

LEMMA InitPageInv == Init => PageInv
  <1> SUFFICES ASSUME WebInit
               PROVE  PageInv
    BY DEF Init
  <1>1. Open = {LoadRequest} /\ Queued = {} /\ wire = {LoadRequest}
    BY QueuedOnes DEF WebInit, Open
  <1>2. LoadRequest \in Request /\ LoadRequest.n = 0 /\ LoadRequest.kind = "get"
    BY WebAssumption DEF LoadRequest, Request, What
  <1>3. PICK k \in Slot \cup {Cardinality(Slot)} :
           records = [a \in {b \in Slot : b < k} |-> Old(a)]
    BY DEF WebInit
  <1>4. /\ DOMAIN records \subseteq Slot
        /\ \A a \in DOMAIN records : records[a] = -2 - a /\ records[a] \in What
    BY <1>3 DEF Old, What
  <1>5. sent \in 0 .. Requests
    BY WebAssumption DEF WebInit
  <1>6. WebTypes
    BY <1>1, <1>2, <1>4, <1>5 DEF WebInit, WebTypes
  <1>7. Numbered
    BY <1>1, <1>2, <1>5 DEF WebInit, Numbered
  <1>8. Distinct
    <2>1. \A a \in DOMAIN records : a \in Nat /\ records[a] = -2 - a
      BY <1>4, WebAssumption
    <2>2. sent \in Nat
      BY <1>5, WebAssumption
    <2>3. \A a \in DOMAIN records : records[a] <= sent
      BY <2>1, <2>2
    <2>4. \A r \in Open : r.kind # "add"
      BY <1>1, <1>2
    <2>5. QED
      BY <2>1, <2>3, <2>4 DEF Distinct
  <1>9. Unloaded /\ ~loaded
    BY <1>1, <1>2 DEF WebInit, Unloaded
  <1>10. QED
    BY <1>6, <1>7, <1>8, <1>9 DEF PageInv, PlainInv
----------------------------------------------------------------------------
(***************************************************************************)
(* Steps that only take requests and answers away                          *)
(***************************************************************************)
LEMMA FewerStep ==
  ASSUME PageInv,
         Open' \subseteq Open, answers' \subseteq answers,
         wire' \cap Queued' = {}, \A r \in Queued' : r.kind # "upload",
         arg' \in Request, turn' \in {"web_server", "handleClient"},
         UNCHANGED <<records, rows, loaded, sent>>,
         plain' \in BOOLEAN, plain' => plain /\ answers' = answers
  PROVE  PageInv'
  <1>1. WebTypes'
    BY DEF PageInv, WebTypes
  <1>2. Numbered'
    BY DEF PageInv, Numbered
  <1>3. create_json' = create_json
    BY DEF create_json
  <1>4. ASSUME plain'
        PROVE  /\ Distinct'
               /\ ~loaded => Unloaded'
               /\ loaded => RowsDistinct' /\ RowsMatch' /\ TasksMatch'
    <2>1. answers' = answers /\ plain
      BY <1>4
    <2>2. Distinct'
      BY <2>1 DEF PageInv, PlainInv, Distinct
    <2>3. ~loaded => Unloaded'
      BY <1>3, <2>1 DEF PageInv, PlainInv, Unloaded
    <2>4. loaded => RowsDistinct'
      BY <2>1 DEF PageInv, PlainInv, RowsDistinct
    <2>5. loaded => RowsMatch'
      BY <2>1 DEF PageInv, PlainInv, RowsMatch
    <2>6. loaded => TasksMatch'
      BY <2>1 DEF PageInv, PlainInv, TasksMatch
    <2>7. QED
      BY <2>2, <2>3, <2>4, <2>5, <2>6
  <1>5. QED
    BY <1>1, <1>2, <1>4 DEF PageInv, PlainInv
----------------------------------------------------------------------------
(***************************************************************************)
(* The user                                                                *)
(***************************************************************************)
\* A new request has a number of its own.
LEMMA SendStep ==
  ASSUME PageInv, NEW kind \in {"add", "delete", "upload"}, NEW row \in RowType,
         Send(kind, row),
         \/ kind = "upload" /\ plain' = plain
         \/ kind = "add" /\ plain' = (plain /\ loaded)
         \/ /\ kind = "delete" /\ row \in rows
            /\ plain' = (plain /\ loaded /\ row.address # NoAddress /\ ~Clicked(row))
  PROVE  PageInv'
  <1> DEFINE new == [n |-> sent + 1, kind |-> kind,
                     what |-> IF kind = "add" THEN sent + 1 ELSE row.what,
                     address |-> row.address]
  <1>1. /\ sent \in 0 .. Requests /\ sent < Requests /\ sent' = sent + 1
        /\ wire' = wire \cup {new}
        /\ UNCHANGED <<rows, loaded, answers, records, arg, task_queue, turn>>
    BY DEF Send, server, PageInv, WebTypes
  <1>2. Queued' = Queued /\ Open' = Open \cup {new}
    BY <1>1 DEF Queued, Open
  <1>3. new \in Request
    <2>1. row.what \in What /\ sent + 1 \in What /\ sent + 1 \in 0 .. Requests
      BY <1>1, WebAssumption DEF RowType, What
    <2>2. QED
      BY <2>1 DEF RowType, Request
  <1>4. /\ new.n = sent + 1 /\ new.kind = kind /\ new.address = row.address
        /\ kind = "add" => new.what = sent + 1
        /\ kind # "add" => new.what = row.what
    OBVIOUS
  <1> HIDE DEF new
  <1>5. /\ \A r \in Open : r \in Request /\ r.n \in 0 .. Requests
        /\ \A b \in answers : b.to \in Request /\ b.to.n \in 0 .. Requests
    BY DEF PageInv, WebTypes, AnswerType, Request
  <1>6. plain' \in BOOLEAN /\ (plain' => plain)
    <2>1. CASE plain' = plain
      BY <2>1 DEF PageInv, WebTypes
    <2>2. CASE plain' = (plain /\ loaded)
      BY <2>2
    <2>3. CASE plain' = (plain /\ loaded /\ row.address # NoAddress /\ ~Clicked(row))
      BY <2>3
    <2>4. QED
      BY <2>1, <2>2, <2>3
  <1>7. WebTypes'
    <2>1. sent' \in 0 .. Requests
      BY <1>1, WebAssumption
    <2>2. QED
      BY <1>1, <1>2, <1>3, <1>6, <2>1 DEF PageInv, WebTypes
  <1>8. Numbered'
    <2>1. /\ \A r \in Open : r.n <= sent
          /\ \A b \in answers : b.to.n <= sent
      BY DEF PageInv, Numbered
    <2>2. wire' \cap Queued' = {}
      BY <1>1, <1>2, <1>4, <1>5, <2>1 DEF PageInv, Numbered, Open
    <2>3. QED
      BY <1>1, <1>2, <1>4, <1>5, <2>1, <2>2 DEF PageInv, Numbered
  <1>9. ASSUME plain'
        PROVE  /\ Distinct'
               /\ ~loaded => Unloaded'
               /\ loaded => RowsDistinct' /\ RowsMatch' /\ TasksMatch'
    <2>1. Distinct /\ plain
      BY <1>6, <1>9 DEF PageInv, PlainInv
    <2>2. \A a \in DOMAIN records : records[a] \in Int
      BY WebAssumption DEF PageInv, WebTypes, What, Blank, Old
    <2>3. Distinct'
      BY <1>1, <1>2, <1>4, <2>1, <2>2 DEF Distinct
    <2>4. ~loaded => Unloaded'
      <3>1. create_json' = create_json
        BY <1>1 DEF create_json
      <3>2. ~loaded => kind = "upload"
        BY <1>9
      <3>3. QED
        BY <1>1, <1>2, <1>4, <2>1, <3>1, <3>2 DEF PageInv, PlainInv, Unloaded
    <2>5. ASSUME loaded
          PROVE  RowsDistinct' /\ RowsMatch' /\ TasksMatch'
      <3>1. RowsDistinct /\ RowsMatch /\ TasksMatch
        BY <2>1, <2>5 DEF PageInv, PlainInv
      <3>2. \A r \in rows : r \in RowType /\ r.what \in Int
        BY WebAssumption DEF PageInv, WebTypes, RowType, What, Blank, Old
      <3>3. RowsDistinct'
        BY <1>1, <1>2, <1>4, <3>1, <3>2 DEF RowsDistinct
      <3>4. RowsMatch'
        BY <1>1, <3>1 DEF RowsMatch
      <3>5. CASE kind # "delete"
        <4>1. \A r \in Open' : r.kind = "delete" => r \in Open
          BY <1>2, <1>4, <3>5
        <4>2. UNCHANGED <<rows, records, answers>>
          BY <1>1
        <4>3. QED
          BY <3>1, <3>3, <3>4, <4>1, <4>2 DEF TasksMatch
      \* The row that was clicked has its record, and no other click is on its way.
      <3>6. CASE kind = "delete"
        <4>1. row \in rows /\ row.address # NoAddress /\ ~Clicked(row)
          BY <1>9, <3>6
        <4>2. Row(new) = row
          BY <1>4, <3>2, <3>6, <4>1 DEF Row, RowType
        <4>3. /\ \A r \in Open : ~(r.kind = "delete" /\ r.what = row.what /\ r.address = row.address)
              /\ \A b \in answers : ~(b.to.kind = "delete" /\ b.to.what = row.what
                                                          /\ b.to.address = row.address)
          BY <4>1 DEF Clicked, Open, Queued
        <4>4. \A b \in answers : ~(b.to.kind = "delete" /\ Row(b.to) = row)
          BY <4>3 DEF Row
        <4>5. row.address \in DOMAIN records /\ records[row.address] = row.what
          BY <3>1, <4>1, <4>4 DEF RowsMatch
        <4>6. \A r \in Open : ~(r.kind = "delete" /\ r.what = row.what)
          <5>1. ASSUME NEW r \in Open, r.kind = "delete", r.what = row.what
                PROVE  FALSE
            <6>1. Row(r) \in rows /\ Row(r).what = r.what /\ Row(r).address = r.address
              BY <3>1, <5>1 DEF TasksMatch, Row
            <6>2. Row(r) = row
              BY <3>1, <4>1, <5>1, <6>1 DEF RowsDistinct
            <6>3. QED
              BY <4>3, <5>1, <6>1, <6>2
          <5>2. QED
            BY <5>1
        <4>7. /\ \A r \in Open' : r \in Open \/ r = new
              /\ new.what = row.what /\ new.address = row.address
          BY <1>2, <1>4, <3>6
        <4>8. \A r \in Open' : r.kind = "delete" =>
                 r.address \in DOMAIN records /\ records[r.address] = r.what /\ Row(r) \in rows
          BY <3>1, <4>1, <4>2, <4>5, <4>7 DEF TasksMatch
        <4>9. \A q, r \in Open' :
                 q.kind = "delete" /\ r.kind = "delete" /\ q.what = r.what => q = r
          BY <3>1, <4>6, <4>7 DEF TasksMatch
        <4>10. QED
          <5>1. UNCHANGED <<rows, records, answers>>
            BY <1>1
          <5>2. QED
            BY <3>1, <3>3, <3>4, <4>8, <4>9, <5>1 DEF TasksMatch
      <3>7. QED
        BY <3>3, <3>4, <3>5, <3>6
    <2>6. QED
      BY <2>3, <2>4, <2>5
  <1>10. QED
    BY <1>1, <1>7, <1>8, <1>9 DEF PageInv, PlainInv
----------------------------------------------------------------------------
(***************************************************************************)
(* The answers                                                             *)
(***************************************************************************)
\* The list comes: the page shows it, and nothing else is on its way.
LEMMA ListStep ==
  ASSUME PageInv, NEW b \in answers, b.to.kind = "get", success(b),
         answers' = answers \ {b},
         UNCHANGED <<wire, sent, plain, records, arg, task_queue, turn>>
  PROVE  PageInv'
  <1>1. /\ rows' = rows \cup b.list /\ loaded' = TRUE
        /\ Open' = Open /\ Queued' = Queued
    BY DEF success, Open, Queued
  <1>2. b.to.n = 0 /\ ~loaded
    BY DEF PageInv, Numbered, WebTypes
  <1>3. WebTypes'
    <2>1. b.list \subseteq RowType
      BY DEF PageInv, WebTypes, AnswerType
    <2>2. QED
      BY <1>1, <2>1 DEF PageInv, WebTypes
  <1>4. Numbered'
    BY <1>1, <1>2 DEF PageInv, Numbered
  <1>5. ASSUME plain
        PROVE  Distinct' /\ RowsDistinct' /\ RowsMatch' /\ TasksMatch'
    <2>1. Distinct /\ Unloaded
      BY <1>2, <1>5 DEF PageInv, PlainInv
    <2>2. answers' = {}
      BY <1>2, <2>1 DEF PageInv, Numbered, Unloaded
    <2>3. rows' = create_json
      BY <1>1, <2>1 DEF Unloaded
    <2>4. \A r \in rows' : r.address \in DOMAIN records /\ r.what = records[r.address]
                            /\ r = [what |-> records[r.address], address |-> r.address]
      BY <2>3 DEF create_json
    <2>5. \A a \in DOMAIN records : \E r \in rows' : r.what = records[a] /\ r.address = a
      <3>1. TAKE a \in DOMAIN records
      <3>2. [what |-> records[a], address |-> a] \in rows'
        BY <2>3 DEF create_json
      <3>3. QED
        BY <3>2
    <2>6. Distinct'
      BY <1>1, <2>1 DEF Distinct
    <2>7. RowsDistinct'
      <3>1. \A q, r \in rows' : q.what = r.what => q = r
        BY <2>1, <2>4 DEF Distinct
      <3>2. \A r \in rows' : r.what <= sent
        BY <2>1, <2>4 DEF Distinct
      <3>3. QED
        BY <1>1, <2>1, <2>2, <3>1, <3>2 DEF RowsDistinct, Unloaded
    <2>8. RowsMatch'
      BY <2>4, <2>5 DEF RowsMatch
    <2>9. TasksMatch'
      BY <1>1, <2>1, <2>2 DEF TasksMatch, Unloaded
    <2>10. QED
      BY <2>6, <2>7, <2>8, <2>9
  <1>6. QED
    BY <1>1, <1>3, <1>4, <1>5 DEF PageInv, PlainInv

\* The answer to an addition: its row gets the record it has been without.
LEMMA AddedStep ==
  ASSUME PageInv, NEW b \in answers, b.to.kind = "add", success(b),
         answers' = answers \ {b},
         UNCHANGED <<wire, sent, plain, records, arg, task_queue, turn>>
  PROVE  PageInv'
  <1> DEFINE row == [what |-> b.to.n, address |-> NoAddress]
  <1>1. /\ rows' = rows \cup {row} /\ loaded' = loaded
        /\ Open' = Open /\ Queued' = Queued
    <2>1. b.body = b.to /\ b.to.what = b.to.n
      BY DEF PageInv, Numbered
    <2>2. QED
      BY <2>1 DEF success, Open, Queued, PageInv, WebTypes
  <1>2. row.what = b.to.n /\ row.address = NoAddress
    OBVIOUS
  <1>3. row \in RowType
    <2>1. b.to.n = b.to.what /\ b.to \in Request
      BY DEF PageInv, WebTypes, Numbered, AnswerType
    <2>2. QED
      BY <2>1 DEF Request, RowType
  <1> HIDE DEF row
  <1>4. WebTypes'
    BY <1>1, <1>3 DEF PageInv, WebTypes
  <1>5. Numbered'
    BY <1>1 DEF PageInv, Numbered
  <1>6. ASSUME plain
        PROVE  loaded /\ Distinct' /\ RowsDistinct' /\ RowsMatch' /\ TasksMatch'
    <2>1. loaded /\ Distinct /\ RowsDistinct /\ RowsMatch /\ TasksMatch
      BY <1>6 DEF PageInv, PlainInv, Unloaded
    <2>2. Distinct'
      BY <1>1, <2>1 DEF Distinct
    <2>3. RowsDistinct'
      <3>1. b.to.n <= sent /\ \A r \in rows : r.what # row.what
        BY <1>2, <2>1 DEF PageInv, Numbered, RowsDistinct
      <3>2. \A q \in Open : q.kind = "add" => q.n # row.what
        BY <1>2 DEF PageInv, Numbered
      <3>3. \A c \in answers' : c.to.kind = "add" => c.to.n # row.what
        BY <1>2 DEF PageInv, Numbered
      <3>4. QED
        BY <1>1, <1>2, <2>1, <3>1, <3>2, <3>3 DEF RowsDistinct
    <2>4. RowsMatch'
      <3>1. ASSUME NEW a \in DOMAIN records
            PROVE  \/ \E r \in rows' : r.what = records[a] /\ r.address \in {a, NoAddress}
                   \/ \E c \in answers' : c.to.kind = "add" /\ c.to.n = records[a]
        BY <1>1, <1>2, <2>1 DEF RowsMatch
      <3>2. ASSUME NEW r \in rows'
            PROVE  \/ \E a \in DOMAIN records : records[a] = r.what /\ r.address \in {a, NoAddress}
                   \/ \E c \in answers' : c.to.kind = "delete" /\ Row(c.to) = r
        <4>1. CASE r \in rows
          BY <2>1, <4>1 DEF RowsMatch
        <4>2. CASE r = row
          BY <1>2, <2>1, <4>2 DEF TasksMatch
        <4>3. QED
          BY <1>1, <4>1, <4>2
      <3>3. QED
        BY <3>1, <3>2 DEF RowsMatch
    <2>5. TasksMatch'
      BY <1>1, <2>1 DEF TasksMatch
    <2>6. QED
      BY <2>1, <2>2, <2>3, <2>4, <2>5
  <1>7. QED
    BY <1>1, <1>4, <1>5, <1>6 DEF PageInv, PlainInv

\* The answer to a deletion: the row that is removed has lost its record.
LEMMA RemovedStep ==
  ASSUME PageInv, NEW b \in answers, b.to.kind = "delete", success(b),
         answers' = answers \ {b},
         UNCHANGED <<wire, sent, plain, records, arg, task_queue, turn>>
  PROVE  PageInv'
  <1>1. /\ rows' = rows \ {Row(b.to)} /\ loaded' = loaded
        /\ Open' = Open /\ Queued' = Queued
    BY DEF success, Open, Queued, PageInv, WebTypes, Row
  <1>2. WebTypes'
    BY <1>1 DEF PageInv, WebTypes
  <1>3. Numbered'
    BY <1>1 DEF PageInv, Numbered
  <1>4. ASSUME plain
        PROVE  loaded /\ Distinct' /\ RowsDistinct' /\ RowsMatch' /\ TasksMatch'
    <2>1. loaded /\ Distinct /\ RowsDistinct /\ RowsMatch /\ TasksMatch
      BY <1>4 DEF PageInv, PlainInv, Unloaded
    <2>2. Distinct'
      BY <1>1, <2>1 DEF Distinct
    <2>3. RowsDistinct'
      BY <1>1, <2>1 DEF RowsDistinct
    <2>4. /\ Row(b.to) \in rows /\ Row(b.to).what = b.to.what
          /\ \A a \in DOMAIN records : records[a] # b.to.what
      BY <2>1 DEF TasksMatch, Row
    <2>5. RowsMatch'
      <3>1. ASSUME NEW a \in DOMAIN records
            PROVE  \/ \E r \in rows' : r.what = records[a] /\ r.address \in {a, NoAddress}
                   \/ \E c \in answers' : c.to.kind = "add" /\ c.to.n = records[a]
        BY <1>1, <2>1, <2>4 DEF RowsMatch
      <3>2. ASSUME NEW r \in rows'
            PROVE  \/ \E a \in DOMAIN records : records[a] = r.what /\ r.address \in {a, NoAddress}
                   \/ \E c \in answers' : c.to.kind = "delete" /\ Row(c.to) = r
        BY <1>1, <2>1 DEF RowsMatch
      <3>3. QED
        BY <3>1, <3>2 DEF RowsMatch
    <2>6. TasksMatch'
      \* No other deletion is about this row.
      <3>1. ASSUME NEW r \in Open, r.kind = "delete"
            PROVE  Row(r) \in rows'
        BY <1>1, <2>1, <2>4, <3>1 DEF TasksMatch, Row
      <3>2. ASSUME NEW c \in answers', c.to.kind = "delete"
            PROVE  Row(c.to) \in rows'
        <4>1. c \in answers /\ c # b
          BY <3>2
        <4>2. c.to.what # b.to.what /\ Row(c.to) \in rows /\ Row(c.to).what = c.to.what
          BY <2>1, <3>2, <4>1 DEF TasksMatch, Row
        <4>3. QED
          BY <1>1, <2>4, <4>2
      <3>3. QED
        BY <1>1, <2>1, <3>1, <3>2 DEF TasksMatch
    <2>7. QED
      BY <2>1, <2>2, <2>3, <2>5, <2>6
  <1>5. QED
    BY <1>1, <1>2, <1>3, <1>4 DEF PageInv, PlainInv
----------------------------------------------------------------------------
(***************************************************************************)
(* The task                                                                *)
(***************************************************************************)
\* web_server carries out the only task, with the arguments in the server.
Carried ==
    /\ task_queue = <<arg>> /\ functor(arg) /\ task_queue' = <<>>
    /\ turn' \in {"web_server", "handleClient"}
    /\ UNCHANGED <<wire, arg, rows, loaded, sent>>

\* The request that was open is answered.
LEMMA CarriedAnswer ==
  ASSUME PageInv, Carried
  PROVE  /\ Queued' = {} /\ Open' = wire /\ Open = wire \cup {arg} /\ (arg \notin wire)
         /\ arg \in Request /\ arg.kind \in {"get", "add", "delete"}
         /\ \E b \in AnswerType :
              /\ answers' = answers \cup {b} /\ b.to = arg /\ b.body = arg
              /\ arg.kind = "get" => b.list = create_json
  <1>1. /\ Queued = {arg} /\ Queued' = {} /\ Open' = wire /\ Open = wire \cup {arg}
    BY QueuedOnes DEF Carried, Queued, Open
  <1>2. (arg \notin wire) /\ arg \in Request /\ arg.kind # "upload"
    BY <1>1 DEF PageInv, WebTypes, Numbered
  <1>3. arg.kind \in {"get", "add", "delete"}
    BY <1>2 DEF Request
  <1> DEFINE b == [to |-> arg, body |-> arg,
                   list |-> IF arg.kind = "get" THEN create_json ELSE {}]
  <1>4. answers' = answers \cup {b} /\ b.to = arg /\ b.body = arg
        /\ (arg.kind = "get" => b.list = create_json)
    BY DEF Carried, functor
  <1>5. b \in AnswerType
    <2>1. create_json \subseteq RowType
      BY DEF create_json, RowType, PageInv, WebTypes
    <2>2. QED
      BY <1>2, <2>1 DEF AnswerType
  <1>6. QED
    BY <1>1, <1>2, <1>3, <1>4, <1>5

\* What it does to the records.  In plain use nothing fails.
LEMMA CarriedRecords ==
  ASSUME PageInv, Carried
  PROVE  /\ DOMAIN records' \subseteq Slot
         /\ \A a \in DOMAIN records' : records'[a] \in What
         /\ plain' \in BOOLEAN /\ (plain' => plain)
         /\ arg.kind = "get" => records' = records
         /\ arg.kind = "add" /\ plain' => \E a \in Slot : Store!Add(a, arg.what)
         /\ arg.kind = "delete" /\ plain' =>
              LET a == str_to_int(arg.address)
              IN  Store!Remove(a) \/ (a \notin DOMAIN records /\ records' = records)
  <1>1. arg \in Request /\ arg.what \in What /\ Blank \in What
    BY CarriedAnswer DEF Request, What
  <1>2. /\ DOMAIN records \subseteq Slot /\ \A a \in DOMAIN records : records[a] \in What
        /\ plain \in BOOLEAN
    BY DEF PageInv, WebTypes
  <1>3. CASE arg.kind = "get"
    BY <1>2, <1>3 DEF Carried, functor, web_get_record_cb, Fine
  <1>4. CASE arg.kind = "add"
    <2>1. web_add_record_cb
      BY <1>4 DEF Carried, functor
    <2>2. ASSUME NEW a \in Slot, NEW e \in What, Store!Add(a, e)
          PROVE  DOMAIN records' \subseteq Slot /\ \A c \in DOMAIN records' : records'[c] \in What
      BY <1>2, <2>2 DEF Store!Add
    <2>3. CASE UNCHANGED records /\ Fault
      BY <1>2, <1>4, <2>3 DEF Fault
    <2>4. ASSUME NEW a \in Slot, Store!Add(a, arg.what), Fine
          PROVE  plain' = plain /\ \E c \in Slot : Store!Add(c, arg.what)
      BY <2>4 DEF Fine
    <2>5. ASSUME NEW a \in Slot, Store!Add(a, Blank), Fault
          PROVE  plain' = FALSE
      BY <2>5 DEF Fault
    <2>6. QED
      BY <1>1, <1>2, <1>4, <2>1, <2>2, <2>3, <2>4, <2>5 DEF web_add_record_cb
  <1>5. CASE arg.kind = "delete"
    <2>1. web_delete_record_cb
      BY <1>5 DEF Carried, functor
    <2>2. ASSUME NEW a, Store!Remove(a)
          PROVE  DOMAIN records' \subseteq Slot /\ \A c \in DOMAIN records' : records'[c] \in What
      BY <1>2, <2>2 DEF Store!Remove
    <2> DEFINE a == str_to_int(arg.address)
    <2>3. CASE Store!Remove(a) /\ Fine
      BY <1>2, <1>5, <2>2, <2>3 DEF Fine
    <2>4. CASE a \notin DOMAIN records /\ UNCHANGED records /\ Fine
      BY <1>2, <1>5, <2>4 DEF Fine
    <2>5. CASE UNCHANGED records /\ Fault
      BY <1>2, <1>5, <2>5 DEF Fault
    <2>6. QED
      BY <2>1, <2>3, <2>4, <2>5 DEF web_delete_record_cb
  <1>6. QED
    BY <1>3, <1>4, <1>5, CarriedAnswer

\* The list: it is as the records are.
LEMMA GetStep ==
  ASSUME PageInv, Carried, arg.kind = "get", plain'
  PROVE  ~loaded /\ Distinct' /\ Unloaded'
  <1>1. records' = records /\ plain
    BY CarriedRecords
  <1>2. Open' \subseteq Open /\ arg \in Open
    BY CarriedAnswer
  <1>3. PICK b \in AnswerType :
           answers' = answers \cup {b} /\ b.to = arg /\ b.list = create_json
    BY CarriedAnswer
  <1>4. ~loaded
    BY <1>2 DEF PageInv, Numbered
  <1>5. Distinct /\ Unloaded
    BY <1>1, <1>4 DEF PageInv, PlainInv
  <1>6. rows' = rows /\ sent' = sent /\ create_json' = create_json
    BY <1>1 DEF Carried, create_json
  <1>7. Distinct'
    BY <1>1, <1>2, <1>5, <1>6 DEF Distinct
  <1>8. Unloaded'
    BY <1>2, <1>3, <1>5, <1>6 DEF Unloaded
  <1>9. QED
    BY <1>4, <1>7, <1>8

\* The new record is one of its own, and the page is told of it.
LEMMA AddStep ==
  ASSUME PageInv, Carried, arg.kind = "add", plain'
  PROVE  loaded /\ Distinct' /\ RowsDistinct' /\ RowsMatch' /\ TasksMatch'
  <1>1. PICK a \in Slot : Store!Add(a, arg.what)
    BY CarriedRecords
  <1>2. Open' \subseteq Open /\ arg \in Open /\ (arg \notin Open')
    BY CarriedAnswer
  <1>3. PICK b \in AnswerType : answers' = answers \cup {b} /\ b.to = arg
    BY CarriedAnswer
  <1>4. loaded /\ Distinct /\ RowsDistinct /\ RowsMatch /\ TasksMatch
    <2>1. plain
      BY CarriedRecords
    <2>2. QED
      BY <1>2, <2>1 DEF PageInv, PlainInv, Unloaded
  <1>5. arg.what = arg.n /\ arg.n <= sent
    BY <1>2 DEF PageInv, Numbered
  <1>6. /\ a \notin DOMAIN records /\ DOMAIN records' = DOMAIN records \cup {a}
        /\ records'[a] = arg.n /\ \A c \in DOMAIN records : records'[c] = records[c]
    BY <1>1, <1>5 DEF Store!Add
  <1>7. UNCHANGED <<rows, loaded, sent>>
    BY DEF Carried
  <1>8. Distinct'
    <2>1. \A c \in DOMAIN records : records[c] # arg.n
      BY <1>2, <1>4 DEF Distinct
    <2>2. \A r \in Open' : r.n # arg.n
      BY <1>2 DEF PageInv, Numbered
    <2>3. QED
      BY <1>2, <1>4, <1>5, <1>6, <1>7, <2>1, <2>2 DEF Distinct
  <1>9. \A r \in rows : r.what # arg.n
    BY <1>2, <1>4 DEF RowsDistinct
  <1>10. RowsDistinct'
    BY <1>2, <1>3, <1>4, <1>7, <1>9 DEF RowsDistinct
  <1>11. RowsMatch'
    <2>1. ASSUME NEW c \in DOMAIN records'
          PROVE  \/ \E r \in rows' : r.what = records'[c] /\ r.address \in {c, NoAddress}
                 \/ \E d \in answers' : d.to.kind = "add" /\ d.to.n = records'[c]
      <3>1. CASE c = a
        BY <1>3, <1>6, <3>1
      <3>2. CASE c \in DOMAIN records
        BY <1>3, <1>4, <1>6, <1>7, <3>2 DEF RowsMatch
      <3>3. QED
        BY <1>6, <3>1, <3>2
    <2>2. ASSUME NEW r \in rows'
          PROVE  \/ \E c \in DOMAIN records' : records'[c] = r.what /\ r.address \in {c, NoAddress}
                 \/ \E d \in answers' : d.to.kind = "delete" /\ Row(d.to) = r
      BY <1>3, <1>4, <1>6, <1>7 DEF RowsMatch
    <2>3. QED
      BY <2>1, <2>2 DEF RowsMatch
  <1>12. TasksMatch'
    <2>1. \A c \in answers' : c.to.kind = "delete" => c \in answers
      BY <1>3
    <2>2. ASSUME NEW c \in answers', c.to.kind = "delete"
          PROVE  Row(c.to) \in rows' /\ \A x \in DOMAIN records' : records'[x] # c.to.what
      <3>1. Row(c.to) \in rows /\ \A x \in DOMAIN records : records[x] # c.to.what
        BY <1>4, <2>1, <2>2 DEF TasksMatch
      <3>2. c.to.what # arg.n
        BY <1>9, <3>1 DEF Row
      <3>3. QED
        BY <1>6, <1>7, <3>1, <3>2
    <2>3. \A r \in Open' : r.kind = "delete" =>
             r.address \in DOMAIN records' /\ records'[r.address] = r.what /\ Row(r) \in rows'
      BY <1>2, <1>4, <1>6, <1>7 DEF TasksMatch
    <2>4. \A c \in answers' : c.to.kind = "add" => \E x \in DOMAIN records' : records'[x] = c.to.n
      BY <1>3, <1>4, <1>6 DEF TasksMatch
    <2>5. QED
      BY <1>2, <1>4, <2>1, <2>2, <2>3, <2>4 DEF TasksMatch
  <1>13. QED
    BY <1>4, <1>8, <1>10, <1>11, <1>12

\* In plain use a deletion that is carried out has the address of its record.
LEMMA DeleteFinds ==
  ASSUME PageInv, Carried, arg.kind = "delete", plain'
  PROVE  /\ plain /\ loaded
         /\ arg.address \in DOMAIN records /\ records[arg.address] = arg.what
         /\ Row(arg) \in rows
         /\ Store!Remove(arg.address)
  <1>1. plain /\ arg \in Open
    BY CarriedRecords, CarriedAnswer
  <1>2. loaded /\ TasksMatch
    BY <1>1 DEF PageInv, PlainInv, Unloaded
  <1>3. arg.address \in DOMAIN records /\ records[arg.address] = arg.what /\ Row(arg) \in rows
    BY <1>1, <1>2 DEF TasksMatch
  <1>4. str_to_int(arg.address) = arg.address
    BY <1>3, WebAssumption DEF str_to_int, NoAddress, PageInv, WebTypes
  <1>5. QED
    BY <1>1, <1>2, <1>3, <1>4, CarriedRecords

\* The record of the row is gone, and the page is told of it.
LEMMA DeleteStep ==
  ASSUME PageInv, Carried, arg.kind = "delete", plain'
  PROVE  loaded /\ Distinct' /\ RowsDistinct' /\ RowsMatch' /\ TasksMatch'
  <1> DEFINE d == arg.address
  <1>1. /\ plain /\ loaded /\ d \in DOMAIN records /\ records[d] = arg.what /\ Row(arg) \in rows
        /\ DOMAIN records' = DOMAIN records \ {d}
        /\ \A a \in DOMAIN records' : records'[a] = records[a]
    BY DeleteFinds DEF Store!Remove
  <1>2. Open' \subseteq Open /\ arg \in Open /\ (arg \notin Open')
    BY CarriedAnswer
  <1>3. PICK b \in AnswerType : answers' = answers \cup {b} /\ b.to = arg
    BY CarriedAnswer
  <1>4. Distinct /\ RowsDistinct /\ RowsMatch /\ TasksMatch
    BY <1>1 DEF PageInv, PlainInv
  <1>5. UNCHANGED <<rows, loaded, sent>>
    BY DEF Carried
  <1>6. Row(arg).what = arg.what /\ Row(arg).address = d
    BY DEF Row
  <1> HIDE DEF d
  <1>7. Distinct'
    BY <1>1, <1>2, <1>4, <1>5 DEF Distinct
  <1>8. RowsDistinct'
    BY <1>2, <1>3, <1>4, <1>5 DEF RowsDistinct
  <1>9. RowsMatch'
    <2>1. ASSUME NEW c \in DOMAIN records'
          PROVE  \/ \E r \in rows' : r.what = records'[c] /\ r.address \in {c, NoAddress}
                 \/ \E x \in answers' : x.to.kind = "add" /\ x.to.n = records'[c]
      BY <1>1, <1>3, <1>4, <1>5 DEF RowsMatch
    <2>2. ASSUME NEW r \in rows'
          PROVE  \/ \E c \in DOMAIN records' : records'[c] = r.what /\ r.address \in {c, NoAddress}
                 \/ \E x \in answers' : x.to.kind = "delete" /\ Row(x.to) = r
      <3>1. CASE \E x \in answers : x.to.kind = "delete" /\ Row(x.to) = r
        BY <1>3, <3>1
      <3>2. CASE \E c \in DOMAIN records : records[c] = r.what /\ r.address \in {c, NoAddress}
        <4>1. PICK c \in DOMAIN records : records[c] = r.what /\ r.address \in {c, NoAddress}
          BY <3>2
        <4>2. CASE c = d
          <5>1. r = Row(arg)
            BY <1>1, <1>4, <1>5, <1>6, <4>1, <4>2 DEF RowsDistinct
          <5>2. QED
            BY <1>3, <5>1
        <4>3. CASE c # d
          BY <1>1, <4>1, <4>3
        <4>4. QED
          BY <4>2, <4>3
      <3>3. QED
        BY <1>4, <1>5, <3>1, <3>2 DEF RowsMatch
    <2>3. QED
      BY <2>1, <2>2 DEF RowsMatch
  <1>10. TasksMatch'
    <2>1. ASSUME NEW r \in Open', r.kind = "delete"
          PROVE  r.address \in DOMAIN records' /\ records'[r.address] = r.what /\ Row(r) \in rows'
      <3>1. r.address \in DOMAIN records /\ records[r.address] = r.what /\ Row(r) \in rows
        BY <1>2, <1>4, <2>1 DEF TasksMatch
      <3>2. r.what # arg.what
        BY <1>2, <1>4, <2>1 DEF TasksMatch
      <3>3. QED
        BY <1>1, <1>5, <3>1, <3>2
    <2>2. ASSUME NEW c \in answers', c.to.kind = "delete"
          PROVE  Row(c.to) \in rows' /\ \A x \in DOMAIN records' : records'[x] # c.to.what
      <3>1. CASE c \in answers
        BY <1>1, <1>4, <1>5, <2>2, <3>1 DEF TasksMatch
      <3>2. CASE c = b
        BY <1>1, <1>3, <1>4, <1>5, <3>2 DEF Distinct
      <3>3. QED
        BY <1>3, <3>1, <3>2
    <2>3. \A c \in answers : c.to.kind = "delete" => c.to.what # arg.what
      BY <1>1, <1>4 DEF TasksMatch
    <2>4. ASSUME NEW c \in answers', c.to.kind = "add"
          PROVE  \E x \in DOMAIN records' : records'[x] = c.to.n
      <3>1. c \in answers
        BY <1>3, <2>4
      <3>2. PICK x \in DOMAIN records : records[x] = c.to.n
        BY <1>4, <2>4, <3>1 DEF TasksMatch
      <3>3. c.to.n # arg.what
        BY <1>1, <1>4, <1>6, <2>4, <3>1 DEF RowsDistinct
      <3>4. QED
        BY <1>1, <3>2, <3>3
    <2>5. QED
      BY <1>2, <1>3, <1>4, <2>1, <2>2, <2>3, <2>4 DEF TasksMatch
  <1>11. QED
    BY <1>1, <1>7, <1>8, <1>9, <1>10

\* Whatever the task, the invariant is kept.
LEMMA CarriedStep ==
  ASSUME PageInv, Carried
  PROVE  PageInv'
  <1>1. PICK b \in AnswerType : answers' = answers \cup {b} /\ b.to = arg /\ b.body = arg
    BY CarriedAnswer
  <1>2. /\ Queued' = {} /\ Open' \subseteq Open /\ arg \in Open /\ (arg \notin Open')
        /\ arg.kind \in {"get", "add", "delete"}
    BY CarriedAnswer
  <1>3. UNCHANGED <<wire, arg, rows, loaded, sent>> /\ turn' \in {"web_server", "handleClient"}
    BY DEF Carried
  <1>4. WebTypes'
    BY <1>1, <1>2, <1>3, CarriedRecords DEF PageInv, WebTypes
  <1>5. Numbered'
    BY <1>1, <1>2, <1>3 DEF PageInv, Numbered
  <1>6. ASSUME plain'
        PROVE  /\ Distinct'
               /\ ~loaded' => Unloaded'
               /\ loaded' => RowsDistinct' /\ RowsMatch' /\ TasksMatch'
    BY <1>2, <1>3, <1>6, GetStep, AddStep, DeleteStep
  <1>7. QED
    BY <1>4, <1>5, <1>6 DEF PageInv, PlainInv
----------------------------------------------------------------------------
(***************************************************************************)
(* Every step                                                              *)
(***************************************************************************)
\* The user, and the answers that come.
LEMMA PageStep ==
  ASSUME PageInv, Page
  PROVE  PageInv'
  <1>1. NoRow \in RowType
    BY DEF NoRow, RowType, What
  <1>2. CASE submit
    BY <1>1, <1>2, SendStep DEF submit
  <1>3. CASE update
    BY <1>1, <1>3, SendStep DEF update
  <1>4. ASSUME NEW row \in rows, click(row)
        PROVE  PageInv'
    <2>1. row \in RowType
      BY DEF PageInv, WebTypes
    <2>2. QED
      BY <1>4, <2>1, SendStep DEF click
  <1>5. CASE Answer
    <2>1. PICK b \in answers : /\ success(b) /\ answers' = answers \ {b}
                               /\ UNCHANGED <<wire, sent, plain, server>>
      BY <1>5 DEF Answer
    <2>2. b.to.kind \in {"get", "add", "delete"}
      BY DEF PageInv, WebTypes, Numbered, AnswerType, Request
    <2>3. UNCHANGED <<wire, sent, plain, records, arg, task_queue, turn>>
      BY <2>1 DEF server
    <2>4. QED
      BY <2>1, <2>2, <2>3, ListStep, AddedStep, RemovedStep
  <1>6. QED
    BY <1>2, <1>3, <1>4, <1>5 DEF Page

\* The server takes a request.
LEMMA ServeStep ==
  ASSUME PageInv, task_queue = <<>>, handleClient
  PROVE  PageInv'
  <1>1. /\ turn' \in {"web_server", "handleClient"}
        /\ UNCHANGED <<records, rows, loaded, sent>>
        /\ plain \in BOOLEAN /\ Queued = {} /\ Open = wire
    BY QueuedOnes DEF handleClient, page, PageInv, WebTypes, Open
  <1>2. CASE wire = {} /\ UNCHANGED <<arg, task_queue, wire, answers, plain, otavars>>
    <2>1. Queued' = Queued /\ Open' = Open /\ arg' \in Request
      BY <1>2 DEF Queued, Open, PageInv, WebTypes
    <2>2. QED
      BY <1>1, <1>2, <2>1, FewerStep
  <1>3. ASSUME NEW r \in wire, Queue(r)
        PROVE  PageInv'
    <2>1. /\ r.kind # "upload" /\ arg' = r /\ task_queue' = <<r>> /\ wire' = wire \ {r}
          /\ UNCHANGED <<answers, plain>>
      BY <1>3 DEF Queue
    <2>2. Queued' = {r} /\ Open' = wire /\ r \in Request
      BY <1>1, <2>1 DEF Queued, Open, PageInv, WebTypes
    <2>3. QED
      BY <1>1, <2>1, <2>2, FewerStep
  <1>4. ASSUME NEW r \in wire, web_upload_ota_cb(r)
        PROVE  PageInv'
    <2>1. /\ arg' = r /\ wire' \subseteq wire /\ answers' \subseteq answers /\ task_queue' = <<>>
          /\ plain' \in BOOLEAN /\ (plain' => plain /\ answers' = answers)
      <3>1. CASE UNCHANGED <<answers, task_queue, plain>> /\ wire' = wire \ {r}
        BY <1>1, <1>4, <3>1 DEF web_upload_ota_cb
      <3>2. CASE /\ wire' = {} /\ answers' = {} /\ task_queue' = <<>>
                 /\ plain' = (plain /\ wire = {r} /\ answers = {} /\ loaded)
        <4>1. plain' \in BOOLEAN /\ (plain' => plain /\ answers = {})
          BY <3>2
        <4>2. QED
          BY <1>4, <3>2, <4>1 DEF web_upload_ota_cb
      <3>3. QED
        BY <1>4, <3>1, <3>2 DEF web_upload_ota_cb
    <2>2. Queued' = {} /\ Open' = wire' /\ r \in Request
      BY <1>1, <2>1 DEF Queued, Open, PageInv, WebTypes
    <2>3. Open' \subseteq Open /\ wire' \cap Queued' = {} /\ \A q \in Queued' : q.kind # "upload"
      BY <1>1, <2>1, <2>2
    <2>4. QED
      BY <1>1, <2>1, <2>2, <2>3, FewerStep
  <1>5. QED
    BY <1>2, <1>3, <1>4 DEF handleClient

LEMMA PageInvStep ==
  ASSUME PageInv, TaskInv, [Next]_vars
  PROVE  PageInv'
  <1>1. plain \in BOOLEAN /\ arg \in Request /\ turn \in {"web_server", "handleClient"}
        /\ wire \cap Queued = {} /\ \A r \in Queued : r.kind # "upload"
    BY DEF PageInv, WebTypes, Numbered
  <1>2. ASSUME UNCHANGED <<records, wire, arg, task_queue, answers, rows, loaded, sent, plain>>,
               turn' \in {"web_server", "handleClient"}
        PROVE  PageInv'
    <2>1. Queued' = Queued /\ Open' = Open
      BY <1>2 DEF Queued, Open
    <2>2. QED
      BY <1>1, <1>2, <2>1, FewerStep
  <1>3. CASE Network \/ UNCHANGED vars
    BY <1>1, <1>2, <1>3 DEF Network, vars, webvars
  <1>4. CASE Browser
    <2>1. CASE Break
      <3>1. /\ wire' = {} /\ answers' = {} /\ plain' = FALSE
            /\ UNCHANGED <<records, arg, task_queue, rows, loaded, sent, turn>>
        BY <2>1 DEF Break, page, server
      <3>2. Queued' = Queued /\ Open' \subseteq Open
        BY <3>1 DEF Queued, Open
      <3>3. QED
        BY <1>1, <3>1, <3>2, FewerStep
    <2>2. QED
      BY <1>4, <2>1, PageStep DEF Browser
  <1>5. CASE loop
    <2>1. CASE task_queue = <<>>
      BY <1>2, <1>5, <2>1 DEF loop, web_server, page
    <2>2. CASE task_queue # <<>>
      <3>1. task_queue = <<arg>>
        BY <2>2 DEF TaskInv
      <3>2. Carried
        BY <1>5, <3>1 DEF loop, web_server, page, Carried
      <3>3. QED
        BY <3>2, CarriedStep
    <2>3. QED
      BY <2>1, <2>2
  <1>6. CASE Serve
    <2>1. task_queue = <<>> /\ handleClient
      BY <1>6 DEF Serve, handleClient, TaskInv
    <2>2. QED
      BY <2>1, ServeStep
  <1>7. QED
    BY <1>3, <1>4, <1>5, <1>6 DEF Next

\* The update is only touched by an upload.
LEMMA OtaTypesStep ==
  ASSUME OtaTypeOK, WireInv, [Next]_vars
  PROVE  OtaTypeOK'
  <1>1. CASE UNCHANGED otavars
    BY <1>1 DEF otavars, OtaTypeOK
  <1>2. ASSUME NEW r \in wire, web_upload_ota_cb(r)
        PROVE  OtaTypeOK'
    <2>1. r.n \in Upload
      BY <1>2 DEF WireInv, web_upload_ota_cb
    <2>2. \A whole \in BOOLEAN : written(r.n, whole) \subseteq Part
      BY <2>1 DEF written, Part, OtaTypeOK
    <2>3. CASE Aborted(r.n)
      BY <2>2, <2>3 DEF Aborted, OtaTypeOK
    <2>4. CASE Failed(r.n)
      BY <2>4 DEF Failed, OtaTypeOK
    <2>5. CASE Installed(r.n)
      BY <2>2, <2>5 DEF Installed, OtaTypeOK
    <2>6. QED
      BY <1>2, <2>3, <2>4, <2>5 DEF web_upload_ota_cb
  <1>3. UNCHANGED otavars \/ \E r \in wire : web_upload_ota_cb(r)
    BY DEF Next, Network, Browser, Page, submit, update, click, Send, Answer, Break, loop,
           web_server, Serve, handleClient, Queue, server, vars, webvars
  <1>4. QED
    BY <1>1, <1>2, <1>3

LEMMA PageInvariant == Spec => [](PageInv /\ TaskInv /\ NetTypeOK /\ OtaTypeOK)
  <1>1. Init => OtaTypeOK
    BY DEF Init, WebInit, OtaInit, OtaTypeOK
  <1>2. Spec => [](TaskInv /\ WireInv)
    BY DeviceInvariant, PTL
  <1>3. QED
    BY <1>1, <1>2, InitPageInv, PageInvStep, OtaTypesStep, CounterBounded, PTL DEF Spec
----------------------------------------------------------------------------
\* Every variable of the program on the network has its type.
THEOREM TypeCorrect == Spec => []TypeOK
  <1>1. PageInv /\ TaskInv /\ NetTypeOK /\ OtaTypeOK => TypeOK
    <2> SUFFICES ASSUME PageInv, TaskInv, NetTypeOK, OtaTypeOK
                 PROVE  TypeOK
      OBVIOUS
    <2>1. WebTypes
      BY DEF PageInv
    <2>2. task_queue \in Seq(Request)
      <3>1. CASE task_queue = <<>>
        BY <3>1
      <3>2. CASE task_queue = <<arg>>
        BY <2>1, <3>2 DEF WebTypes
      <3>3. QED
        BY <3>1, <3>2 DEF TaskInv
    <2>3. QED
      BY <2>1, <2>2 DEF TypeOK, WebTypeOK, WebTypes, Open, RowType
  <1>2. QED
    BY <1>1, PageInvariant, PTL

\* For every number of requests and records: in plain use the page shows what is
\* stored once everything is answered, in whatever order requests and answers have
\* come (data/script.js:70-92, src/main.cpp:190-245).
THEOREM PageShows == Spec => []PageShowsRecords
  <1>1. PageInv => PageShowsRecords
    <2> SUFFICES ASSUME PageInv, plain, loaded, answers = {}
                 PROVE  /\ {r.what : r \in rows} = {records[a] : a \in DOMAIN records}
                        /\ \A r \in rows : r.address # NoAddress => records[r.address] = r.what
      BY DEF PageShowsRecords
    <2>1. RowsMatch
      BY DEF PageInv, PlainInv
    <2>2. \A a \in DOMAIN records : \E r \in rows : r.what = records[a]
      BY <2>1 DEF RowsMatch
    <2>3. \A r \in rows : \E a \in DOMAIN records :
             records[a] = r.what /\ r.address \in {a, NoAddress}
      BY <2>1 DEF RowsMatch
    <2>4. QED
      BY <2>2, <2>3
  <1>2. QED
    BY <1>1, PageInvariant, PTL

\* For every number of requests and records: in plain use the button of a row deletes
\* the record of this row and no other (data/script.js:81-92, src/main.cpp:202-214).
THEOREM DeletesOwnRow == Spec => DeletesInPlainUse
  <1>1. ASSUME PageInv, TaskInv, [Next]_vars, plain, Lost # {}
        PROVE  Lost = {Head(task_queue).what}
    <2>1. records' # records
      BY <1>1 DEF Lost
    <2>2. loop /\ task_queue # <<>>
      BY <1>1, <2>1 DEF Next, Network, Browser, Page, submit, update, click, Send, Answer,
         Break, loop, web_server, Serve, handleClient, server, vars, webvars
    <2>3. task_queue = <<arg>>
      BY <1>1, <2>2 DEF TaskInv
    <2>4. Carried
      BY <2>2, <2>3 DEF loop, web_server, page, Carried
    <2>5. arg.kind = "delete" /\ plain'
      <3>1. CASE arg.kind = "get"
        BY <1>1, <2>1, <2>4, <3>1, CarriedRecords
      <3>2. CASE arg.kind = "add"
        <4>1. web_add_record_cb
          BY <2>4, <3>2 DEF Carried, functor
        <4>2. DOMAIN records \subseteq DOMAIN records'
          BY <4>1 DEF web_add_record_cb, Store!Add
        <4>3. QED
          BY <1>1, <4>2 DEF Lost
      <3>3. CASE arg.kind = "delete"
        BY <1>1, <2>1, <2>4, <3>3 DEF Carried, functor, web_delete_record_cb, Fine
      <3>4. QED
        BY <1>1, <2>4, <3>1, <3>2, <3>3, CarriedAnswer
    <2>6. /\ arg.address \in DOMAIN records /\ records[arg.address] = arg.what
          /\ Store!Remove(arg.address)
      BY <1>1, <2>4, <2>5, DeleteFinds
    <2>7. Lost = {arg.what}
      BY <2>6 DEF Store!Remove, Lost
    <2>8. QED
      BY <2>3, <2>7
  <1>2. Spec => [](PageInv /\ TaskInv)
    BY PageInvariant, PTL
  <1>3. QED
    BY <1>1, <1>2, PTL DEF Spec, DeletesInPlainUse
============================================================================
