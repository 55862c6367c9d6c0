# plant_controller: a verification project in TLA+

`plant_controller` is the firmware of an ESP8266 that lights plants. A web page
lets the user keep a list of records *(start minute, end minute, transition in
minutes)*; the list lives on a 24C32 EEPROM. A scheduler looks at a DS1307 clock
once a minute and switches or fades a LED. NTP sets the clock.

This directory holds TLA+ modules of the program's components, TLC configurations
that check them on small instances, and theorems that TLAPS checks.
`PROJECT.json` lists the runs, the mutants that show that each property can fail,
the source lines behind each definition, the hazards of the code and the theorems.

## 1. Inventory

The program is single-threaded. `loop()` (main.cpp:242) calls protothreads in a
fixed order, functions that return at a wait and continue there on the next call.
The WiFi callbacks run between passes. "Concurrency" is therefore the order in
which whole calls come, the time between them, and what the outside world (the
bus, the power, the network, the user) does in between.

| component | state | operations | talks to |
|---|---|---|---|
| EEPROM record list (`eeprom_storage.cpp`) | the bytes of the chip: 6-byte records, linked by `next_node`, flag `deleted` | `insert_node`, `delete_node`, `get_all_nodes`, `get_node` | 24C32 driver |
| 24C32 driver (`24c32.cpp`) | none; splits at page boundaries | `write_page`, `read_random` | I2C bus |
| cache of upcoming entries (`eeprom_storage.cpp`) | `entriesQueue`, an ordered set below 16 | `cache`, `cache_push`, `cache_pop`, `cache_top` | list, DS1307 |
| scheduler `entries_processing` (`main.cpp`) | `item`, `is_catched`, `is_processing`, a timer | one pass a minute | cache, DS1307, `set_led` |
| LED: `set_led`, `led_control` (`main.cpp`) | requested state, period and position; `current_state`; timer | a step of a transition | PWM pin |
| protothreads, timers (`pt.h`, `async_wait.h`) | `lc`, `is_stopped`; period and begin | `PT_WAIT`, `PT_STOP`, `reload`, ... | `millis()` |
| DS1307 driver (`ds1307.cpp`) | seven BCD registers on the chip | `time`, `set_time`, `set_oscillator`, `is_enabled` | I2C bus |
| NTP client (`ntp.cpp`) | the last message, `last_update_` | `sync`, `sync_poll`, `time` | UDP |
| `clock_manager` (`main.cpp`) | timer of 12 hours | sets the DS1307 from NTP | NTP client, DS1307 |
| `network_manager`, WiFi callbacks (`main.cpp`) | `tries_ctr`, timer | connect, pause, give up | WiFi library |
| `web_server`, request handlers (`main.cpp`) | `task_queue` | add, delete, list records | list, cache, web page |
| web page (`data/`) | rows of a table | validates, adds, deletes | request handlers |
| OTA upload (`main.cpp`) | state of the `Update` library | start, write, end | flash |
| `setup`, `loop` (`main.cpp`) | sawtooth `ctr` on the LED pin | order of the threads | all |
| not modelled: SNTP printer, logging, MIME types, `led_coroutine.h` | - | output only, or not compiled | - |

What makes them correct, and what is hard about it:

- **Record list.** An acknowledged record is listed, unchanged, until it is
  deleted, through reuse of deleted slots, page splits, bus errors and power cuts
  between two page writes; the walk along the links ends and stays inside the page
  buffer; space is reclaimed.
- **Scheduler and cache.** No record is missed, the LED is on only inside a window,
  a lit LED goes dark; after late passes, failed reads, requests and evictions the
  scheduler gets back to that.
- **LED.** A request in the middle of a transition must leave the thread in a state
  from which the next request is understood; the thread comes to rest; where the LED
  ends is known from what was asked, and when.
- **DS1307.** Whatever order of operations and failures: the registers can be
  decoded, and the time of day is right.
- **NTP, clock_manager.** Time computed from a message and from `millis()` must
  survive failed synchronisations and the wrap of `millis()`.
- **Network, web.** The program gets back to the network; a request is answered
  with its own arguments; the page deletes the record it shows.

`PROJECT.json` lists the hazards one by one, at their lines.

## 2. Plan

Order of work, the most important behaviour first (done so far: 1 to 8, and 10 for the modules there are):

1. `RecordStore` (abstract), `EepromStorage` (implements it), `EepromStorageProofs`,
   `RecordListProofs`.
2. `Scheduler`, over `RecordStore`; `MCScheduler`; `SchedulerProofs`.
3. `LedControl`, `LedControlProofs`.
4. `Ds1307`, `MCDs1307`, `Ds1307Proofs`.
5. `TimeSync`: NTP client and `clock_manager`, with `millis()` modulo a wrap, lost and
   late replies, the message cleared before a failed attempt, the sentinel 0;
   `TimeSyncProofs`.
6. `NetworkManager`: tries, pause, callbacks that the library may have dropped.
7. `OtaUpload`: whole, failed and broken-off updates.
8. `WebServer` with the page: queue of tasks, arguments read late, rows without an
   address; `Device`, which composes it with the network and the restart after an
   update; `MCDevice`; `DeviceProofs`, `PageProofs`.
9. A composition of `Scheduler` and `LedControl` at the scale of steps of a
   transition, with the sawtooth of `loop()`.
10. Proofs, component by component: done for every safety property the passing runs
    check, and for the refinement of `RecordStore` (section 5). Left: what composition 9
    will need, and a form of `NoneMissed` for the state after the last disturbance.

## 3. The modules

### RecordStore and EepromStorage

`RecordStore` is what callers may assume: a finite map from addresses to entries.
Adding uses a free address, removing takes away exactly the record named, and an
interrupted insertion leaves nothing or one blank record.

`EepromStorage` is the code over the chip. Its memory is counted in 16-bit words: a
record is three (low halves of the times; high halves and transition; link and
flag), a page of 32 bytes is sixteen, so one word is left over, which matters. Data
are abstracted to "low/high half of entry e", addresses are not. `insert_node` is
the scan for the lowest slot that is deleted (`ReuseSlot`) or ends the chain
(`AppendSlot`); `NextAddress` is the choice of the next slot with its unsigned
comparison. Each operation chooses how far its page writes got (`Progress`), which
stands for a bus error and for a power cut alike: the program keeps nothing but the
chip. A failed read changes nothing and is a stuttering step. The mapping to
`RecordStore` is `records <- get_all_nodes(mem)`.

### Scheduler

One pass of `entries_processing` is one action with a disjunct for each branch: end
of the window (`EndItem`), fade-out (`FadeOut`), begin (`Begin`), nothing to do
(`Nothing`), no entries (`NoEntries`); `Catch` says which entry it is about. The
minute is the unit of time. A pass belongs to its minute (`waiting`); a minute that
goes by without one is a *disturbance*, as are requests and failed transactions.
`Disturbances` bounds how many there are, `Allowed` which kinds. `Loaded` is
`cache()`, which reads the clock again at each record: these reads may fail
(`Misread`, 23:59) or see the next minute (`Overtaken`). `lamp` is the last call of
`set_led`, whose position is a `uint8_t`; `Top` stands for its 0xFF. The records are the
abstract store, on a chip whose slots are used in order. The assumption on `Entry` is what the page lets through
(data/script.js:51-62).

### LedControl

`led_control` split at its returns: at `lc = "begin"` it stops, writes the level at
once or begins a transition; at `lc = "wait"` it advances. `Ramp` is the head of the
`for` loop. `reload`, `PT_WAIT`, `PT_STOP` and `PT_END` are the macros. Time is left
open: `Elapse` expires the timer at any moment, so every interleaving of `Request`
with the steps of a transition is covered. `period` keeps the number the timer
waits for. `ending` is an observer of what a call in the middle of a transition does:
it changes how far the transition is and what the thread will note at its end, but not
its direction, so the LED ends where it was asked to be or at the opposite level
(`"opposite"`); a call that sets the last position leaves it where it is (`"open"`).
`level` is what the thread last wrote to the pin. On the device `loop()` writes a
sawtooth to the same pin at the beginning of every pass (main.cpp:245), so the pin
shows `level` only from the passes in which the thread writes; that is left out here.

### Ds1307

The registers are bytes, so the BCD coding, the oscillator bit and the 12-hour
format are modelled as they are; `moment` notes which time they should show. The
calendar is that of `localtime()` and is built from the lengths of months,
independently of the table and the arithmetic in the driver. The times it is set to lie
between 2000 and `LastYear`, at most 2099: `set_time()` takes any time (ds1307.cpp:117),
but NTP is taken to hand over no other, except for the 2036-02-07 06:28:16 of a cleared message,
which lies in that range too. While `moment` is known the chip counts by the calendar
(`Tick`); registers that a failure has spoilt count on as well, each from what it holds
(`TickSpoilt`), with the day after one that its month does not have left open. The day of
the week counts on from what was written, 0 to 6 at first, then 1 to 7. `Rewrite` is the
read-change-write that two operations share, with the 0 a failed read leaves.
A write that fails before the chip has taken anything is a stuttering step.
`set_format` has no caller in the program; it is modelled because the decoding of
the 12-hour format is used for a chip that comes that way.

### TimeSync

The NTP client and the protothread that sets the DS1307 from it. Times of day are
abstracted to how far they are off; `millis()` is kept as a counter that wraps, since
every comparison of the client and of `async_wait` is made with it. `sync()` is
split where it waits: `sync` up to the wait (it clears the message, line 131, before
each of the steps that may fail), then `Answer` or `GiveUp`; while it waits nothing
else of the loop runs. Any datagram counts as an answer. `age`, `trouble` and `tried`
are observers or schedule: how old the last update really is, whether anything has
failed since, and that a pass of this second has been made. A failure of the network
or of the write to the DS1307 is a disturbance, of which there are finitely many.
The zone is a constant offset and is left out.

### NetworkManager

`network_manager` has a disjunct for each branch: connected (`PT_STOP`), `TooManyTries`
and `Try`; `Elapse` is the end of its `PT_WAIT`. The station (`link`) and the access
point (`present`) are external. What is assumed of them:
`begin()` makes the station try until `disconnect()`, also after it has lost a
connection; association comes before the address; a failed attempt and a lost
connection are reported, a `disconnect()` later than its call (`leaving`) and only if
there was something to leave. The callbacks are called or not (`kept`): `setup()`
throws away the handles that keep them registered (main.cpp:180-181), and whether the
library then still calls them is not the program's to say. `pauses` is an observer:
how many pauses of five minutes there were since `WiFi.begin()` or a connection.

### OtaUpload, WebServer

`OtaUpload` is `web_upload_ota_cb` over the `Update` object. The server reads a whole
upload in one call, so an upload is one action with one of three ends: `Aborted`,
`Failed`, `Installed`. The library is external. Assumed of it: `begin()` does nothing
but return `false` while an update is running, and nothing but `end()` ends one, so an
update whose upload breaks off stays running and the chunks of the next upload are
appended to it.

`WebServer` is the way of a request from the page to the records and back. `submit`,
`click` and `update` put a request on the `wire`; `handleClient` takes one of them, in
any order, keeps its arguments in the server (`arg`) and queues its task, or carries
an upload out; `web_server` runs the first task (`functor`), which reads `arg`, not
the arguments it came with; `Answer` brings an answer to the page (`success`). The
records are those of `RecordStore` (`Store!Add`, `Store!Remove`), which `EepromStorage`
is shown to implement. A record is only which one it is: the number of the request
that made it. `plain` observes that nothing unusual has happened: the user waited for
the list, clicked rows with an address and none twice, no operation on the chip
failed and no connection broke.

### Device, MCDevice

`loop()` with `network_manager` and, while the program is online, `web_server` and
`handleClient()`; a task queued before the connection is lost waits until it is back,
connections break meanwhile (`Break`). An installed update restarts everything but the
records and the page (`Reboot`). `MCDevice` starts only behaviours in which either the
callbacks are called or the user asks for nothing but the list. Whether the callbacks
are called matters to the network only, and so that half of the states need not be
multiplied with all that the user may do.

## 4. The runs

| run | question | bounds, and why they suffice |
|---|---|---|
| `eeprom_small` | Does the list keep its promise under failures? Does it implement `RecordStore`? | 3 pages of 7 words (two records and a word left over, as on the device), 2 entries; `LastAppend = 7` lets the chain cross a page boundary once, by the check that works in the first page, and stops it before the place where the next run fails; so no record is split between pages here |
| `eeprom_third_page` | Does a link ever lead where no whole record fits? | the page of the device, 3 pages; **violated** |
| `eeprom_erased` | The same promise on a chip of 0xFF bytes | 2 pages; **violated** by the second insertion |
| `sched_day` | Undisturbed: is any minute of any record missed, is the LED ever on outside? Which transitions are handed the position that means none? | day of 6 minutes, all entries of it, up to 3 records, cache of 3 (keeps 2), power on at any minute: records outnumber the cache; `Top = 3`, so that minute 3 of a fade-out is that position and a computed position can reach it by mistake |
| `sched_faults` | Requests, late passes and failures: does the scheduler recover, does the LED go dark, are deleted records forgotten? | 3 entries (in a row, overlapping), any 2 disturbances, each anywhere |
| `sched_fadeout` | Does the fade-out take its time? | as `sched_day`, on the real day of 1440 minutes; **violated** |
| `led` | Is the thread right after any requests, at rest or in the middle? | 4 steps instead of 255, 3 requests: one can interrupt another that has interrupted a third |
| `rtc` | Does the clock show what it was set to? Can its registers always be decoded? | ends of years and Februaries from 2024 to 2029 (one leap cycle and the next leap year), the time of a cleared message (2036), the hours around noon and midnight, 2 seconds counted, from spoilt registers too, 1 failure |
| `sync` | Is the time right and fresh while nothing fails? Is the DS1307 right in the end? | `millis()` wraps after 9 seconds, updates every 3, answers up to 2 seconds late, the thread pauses for 4, any 2 failures: wraps come in every phase of an update, of an answer and of the pause |
| `sync_failed` | Whenever `time()` returns a time, is it right? | as above; **violated** |
| `device` | Does the program get on the network and stay there? Is every request answered with its own arguments? Does the page show what is stored and delete what it shows? Does an update lose a task? | 2 tries before a pause (the counter passes its limit by the callbacks, as with 15), one lost connection or vanished access point (each ends in another attempt, with any number of pauses), 2 addresses, the list and 2 requests: add and delete, two adds, two deletes, two uploads, or an upload among them, in every order of arrival and answer |
| `web_delete` | Does the button of a row delete its record? | as above, without loss of the connection; **violated** |

`CHECK_DEADLOCK FALSE` stands where the bound ends all behaviour (requests used up)
or where the run is about its first violation.

What the violated runs show (`findings` in `PROJECT.json`):

- *eeprom_third_page.* `PAGE_SIZE - next_address < sizeof(entry_t)`
  (eeprom_storage.cpp:83) is unsigned and `next_address` counts from the start of the
  chip: the check works in the first page only. The eleventh record lands on the last
  two bytes of page 1, and readers decode it from beyond their buffer.
- *eeprom_erased.* A chip as it is delivered reads as "all deleted, next 0xFFF": the
  first insertion keeps that link, the second record is never found.
- *sched_fadeout.* main.cpp:606 hands over the minute of the day: in every minute of a
  fade-out, the first one included, when the window was begun in an earlier pass. Only a
  fade-out that is itself the first thing noticed of a window (after a late pass or a
  restart) gets its position computed, once.
- *sync_failed.* After a failed attempt `time()` computes with a cleared message.
- *web_delete.* A row the page adds after a submit has no address (script.js:76). Its
  button sends `null`, which `str_to_int` takes for 0: the record at address 0 is
  deleted, and the row that disappears from the page is another one.

Passing properties also record defects. `TopOnlyInFadeOut` says where a fade-out goes
wrong in yet another way: in the minutes 255, 511, ... of the day (4:15, 8:31, ...)
main.cpp:606 hands over the position that `led_control` takes for "none requested". A
fade-out that is under way then starts again at full brightness (`pwm_val` wraps to 0);
one that has come to its end stays dark. `EndsAtLevel` says that a request in the
middle of a transition need not be obeyed: if it asks for the level the transition comes from (a fade-out that
begins while the LED still comes up), the transition goes on in its direction, and the
thread then notes what was asked for (main.cpp:548-552), so that both states agree and
the LED shows the opposite. `AtMostOnePauseInVain` says two, not one: the event of the
`disconnect()` before a pause counts as a try (main.cpp:348), the counter is not 0 after
the pause, nothing calls `WiFi.begin()`, and fifteen seconds later comes the next
pause. `PageShowsRecords` and `DeletesInPlainUse` hold in `plain` use only. Switching the
LED off at once in the middle of a fade-out starts that fade again from full brightness,
with the period of the old one, since `PT_WAIT(0)` keeps it (async_wait.h:79-85);
`EndsAtLevel` speaks of where the LED comes to rest, not of when.
`RightWhileHealthy`, `FreshWhileHealthy` and `Recovers` leave out the case `Overlooked`: if the sum in `is_synchronized`
(ntp.cpp:163) falls on the last moment before the wrap, no `millis()` is ever greater,
and the client never asks again. A sum that falls into the last pass before the wrap
(20 ms or more, once in 49.7 days) has the same effect until the next wrap.
`ShowsTime` says that `ds1307::time()` is
one day short in years that follow a leap year (ds1307.cpp:156), and right
otherwise. The time of day is right in every year, and that is all the scheduler
uses.

Of one defect no property speaks. The status of an upload that breaks off is not handled
(main.cpp:455-482): if the `Update` object keeps what was written, as is assumed, the
next upload is appended to it and `end()` installs parts of two. The model has these
behaviours; that they exist follows from the assumption on the library alone.

### Fairness

`Scheduler` assumes `WF` of the pass and of the minute: `loop()` runs for ever and
time goes on. A minute that passes the thread by is a disturbance, of which there
are finitely many; that is the meaning of "recovers when they are over".
`LedControl` assumes `WF` of the thread (`loop()` calls it in every pass, also
without network) and of `Elapse` (a timer that runs expires). Neither assumes that
requests come or that anything goes well. `Device` assumes `WF` of the passes
(`loop`, `Serve`), of the thread, its timer and the reports of the station, and of the
answers on their way; `SF` of `Join` and `GetIp`, because a station that gets to try
again and again connects at times, although the thread takes it off the network before a
pause. For `GetIp` this is an assumption on library and access point, not on the code.
`wifi_connected_cb` sets the counter to 0 (main.cpp:351-353) as soon as the station is
associated, so the next try, at most a second later, calls `WiFi.begin()` again, which may
start the connection over. Assumed is that in one of infinitely many associations the
address arrives before that try, or the try leaves the association alone and the address
arrives before the next pause. Were it always later, the program would never get on the
network. It is not assumed that the access point stays: `Reconnects` and
`EverythingServed` have that as their premise. `TimeSync` assumes that the loop runs, time
goes on, the network comes back (`WF` of `Reconnect`) and an answer that is in the
socket is read; `SF` of `clock_manager`, because a pass calls the thread before it
calls `sync_poll` (main.cpp:258, 262), so that between two attempts the thread has its
turn. `EepromStorage` and `Ds1307` have safety
properties only.

## 5. What is proved

For all values of the constants, by TLAPS.

**EepromStorageProofs, RecordListProofs.** Assumptions: a zeroed chip (`~Erased`) and
`TwoPages`, that no link is made from a slot whose successor might not fit into the
first two pages (the violated runs show that neither can be dropped). `AckedListed`
and `EntriesFitTheirPage` are not inductive. `IInv` (theorem `Inductive`) adds the
shape of the memory: there is a last slot, within the first two pages; every
slot before it links to `NextAddress` of itself, every slot from it on has the link 0,
and acknowledged records lie intact in slots up to it that are not deleted. With it the
lowest slot at which the scan stops is not behind the last one, so that a reused slot
keeps a link that is right, and an append touches only the last slot and the one
behind it, whatever part of it is written (`ReuseEffect`, `DeleteEffect`,
`AppendEffect`). `TypeCorrect` and `LinksFitTheirPage` follow.
The lemmas before are the arithmetic of pages and the effect of `Written` on slots
that do not overlap.

`RecordListProofs` adds the walk of `get_all_nodes()`, a recursive function. It has a
solution (`WalkExists`), it stays on the list (`WalkStays`), it only goes up
(`WalkClimbs`), it ends because it has more links than there are slots (`WalkEnds`, by
the pigeonhole principle), and so it meets exactly the slots up to the last one
(`ChainOfList`): had it missed one, it would never get past it. Each of these takes the
least link at which the claim fails, since well-founded induction over an operator is
out of the prover's reach and the least member of a set of numbers is not. From it
follow `AckedStaysListed`, `ChainStaysSound` and, as an action property,
`GrowsOnlyWhenFull`. `ImplementsStore` is the refinement of `RecordStore` under the
mapping `records <- get_all_nodes(mem)`. It needs one more conjunct, `Unwritten`: behind
the last slot there are only blank payloads, so that an append that is cut short shows
a blank record and not an old one. A reuse that is written whole is `Add`, an append is
`Add` of the entry or of the blank one, a deletion is `Remove`, and a deletion or an
append at a slot that does not show is a stutter.

**SchedulerProofs.** `OwnedLight`: a lit LED always has a caught entry whose window
has begun; inductive as it stands, without assumptions on disturbances.
`LightInWindow`: with `Punctual` passes (no `"late"` in `Allowed`) the LED is on only
inside the window of its entry, whatever requests and the bus do. The invariant
behind it (`LitWindow`) distinguishes the time before and after the pass of a
minute: before the pass the LED may still be on in the first minute outside, and the
pass corrects it.
`NoTopFromWindow` is `TopOnlyInFadeOut` for any `Top`: what is computed from the minutes
since a window or a fade-out began is below it, from lemmas on the quotient
`Top * minutes / length` (`QuotientBelow`, `ProgressBelowTop`) and the fact that those
minutes have not passed the length; what is left is the minute of the day in a fade-out. `TypeCorrect`:
the minute, the caught entry and the numbers of the lamp stay in their ranges; both rest on
`Entries`, that whatever is cached, caught or stored obeys the rules of the page.
`MissesNone` is `NoneMissed` for a day of any length, any number of records and any
`CacheSize` from 2 on, `Undisturbed` (`Allowed = {}`: as in the run `sched_day`). Its
invariant, `Plan`, holds as long as the stored windows are apart. It says that the cache
holds the first of the records that are not over, however few; that a caught entry is
the first of them; that the LED is on from its first pass to the fade-out; and that a
minute that ends with nothing caught is inside no window. `CatchesForemost` shows that a
pass takes the right record also when it has to load the cache, for which
`TrimmedEarliest` says what `CACHE_SIZE` leaves, and `TopForemost` that the top of the
set exists. Entries that are apart end at different minutes, so that taking one entry off
the list per pass is enough.

**LedControlProofs.** For any number of levels, periods and requests. `IInv` adds three
parts to the types. `InAgreement`: a thread that has stopped has noted what was asked for
last. `Promised`: what `ending` says of the LED is true of the thread's direction while
it is in the middle of a transition, and of the level when it has stopped. `Undisturbed`:
as long as no request has come in the middle of a transition, `level` and `current_state`
belong to the transition that was asked for. `ArrivesAtLevel` and the action property
`MovesTowardsTarget` follow.

**Ds1307Proofs.** For every set of times from 2000 to `LastYear`, which may be any year
up to 2099 (the run has to stay below 2038, since the numbers of TLC have 32 bits), any
number of seconds counted and of failures. `DecodingSafe` rests on
`InRange`: whatever prefix of the registers is written, whatever the read before has
returned and however they count on from there, each holds a byte its field can have.
`TimeShown` rests on `Shows`: the registers are those of the moment, but for the
oscillator bit, the format of the hour and the day of the week. The lemmas before are those of the calendar (`localtime()` exists for every
moment, and what the driver computes from its fields differs by the day of the leap
year) and the round trips of `dec_to_bcd`, `bcd_to_dec` and `get_hours24`.

**TimeSyncProofs.** For any wrap, interval, timeout and number of failures that obey
`TimeAssumption`. `IInv` is the types and three accounts: `Measured`, that the counter
of the client agrees with the true age of the update unless that is a whole wrap;
`Informed`, that while nothing fails there is a message; `Paced`, that an attempt comes
in the second in which the update has become too old and lasts no longer than the
timeout. `StaysFresh` and `StaysRight` follow, without the case `Overlooked`.

**DeviceProofs.** For any number of tries, requests, addresses and lost connections.
`NoSecondPauseInVain` and `AwakeOffline` need an account of the events still to come
(`Budget`, `PauseInv`): how far the counter can be from 0 when a wait ends depends on
whether the thread waits for a second or a pause, on a `disconnect()` that has not
been reported and on an attempt that may still fail. `CounterBounded` is the bound on
`tries_ctr` that comes with it. `ArgumentsOwned` rests on `TaskInv`: a task is queued
only by `handleClient`, which leaves the turn to `web_server`, which empties the queue
before the next. `NoTaskLost` follows from it, since an upload is carried out in the
turn of `handleClient`.

**PageProofs.** For any number of requests, addresses and lost connections, on top of
`DeviceProofs`. `PageInv` follows a request from the page to the records and back: it is
in one place at a time and known by its number (`Numbered`), every record and every row
is there once, and in plain use rows and records belong to each other, but for the
answers that are still under way (`RowsMatch`, `TasksMatch`). `PageShows`, the action
property `DeletesOwnRow` and `TypeCorrect`, the types of the whole `Device`, follow.

**Only model-checked:** all liveness (`Recovers` of the scheduler and of the clock,
`GoesDark`, `DeletedForgotten`, `ComesToRest`, `Reconnects`, `EverythingServed`), since
fairness and ENABLED are out of reach of the prover. The five runs with violations are
counterexamples and need no proof.

## 6. Not modelled, and why

Still in the plan: the composition of `Scheduler` and `LedControl` with the sawtooth of
`loop()`. Left out for good: the SNTP printer, logging and MIME types (pure output),
`led_coroutine.h` (not compiled), static files and the pages that only show something
(`/debug`, `/set_led`), the macros of `pt.h` that nothing calls, a page that is opened
twice or again. Text is never modelled
(JSON, HTTP headers). The abstractions to keep in mind: reads of the EEPROM succeed
or fail as a whole; a walk that leaves the page buffer stops in the model, since what
follows is undefined; the delay of the loop is part of "late".
