# AFN: a TLA+ model of the master station

AFN is the master station of a meter reading system (Q/GDW 376.1). Concentrators
("jzq") connect over TCP, log in, send heartbeats and answer requests; operators use
a telnet console; readings go to MySQL. On Linux a supervisor process keeps the
server running. The sources are C++ in `src/AFN/src` (the program) and
`src/AFN/common` (a support library); everything else in the repository is vendored
code, headers and data.

Directory: one module per component, `MC*.tla` modules that give values to
constants, one `.cfg` per run, `*Proofs.tla` modules with proofs for TLAPS.
`PROJECT.json` lists runs, properties, findings, hazards, theorems, and for every
definition the source lines it stands for.

## 1. The system

### Processes and threads

```
 TSvrAdm (supervisor process)
    | fork, SIGCHLD, SIGTERM, waitpid
    v
 TSvr (server process)
    TcpServer thread  -- libevent: concentrators' sockets, 60 s heartbeat timer
    telnet thread     -- libevent: console sockets, 10 s polling timer
    shared:  g_JzqConList   (connections and concentrators, g_JzqConList_Mutex)
             cmdMap         (calls waited for, CritSection + ConditionVar)
             DBManager's query, LogFile
```

Both threads run event loops: within a thread callbacks never overlap, between the
threads anything may. Only `delConnection`, the request functions
(`LOCK_CONNECTION`), the sweep of the meters and `freshjzq` take the mutex; the read
callback, the heartbeat timer and the load in `TcpServer`'s constructor do not.

### Components

| component | state | operations | module | theorems |
|---|---|---|---|---|
| Registry: `JzqList`, `Jzq`, `ConnectionPower` (address, destructor), `AFN02` | concentrator entries (login state, RSEQ, PFC, timers), connections, the sweep | connect, receive, close, heartbeat check, freshjzq, request, polling timer, sweep | `JzqList` (abstract: `ConcentratorLink`), `JzqTraffic` | `JzqListProofs` |
| Calls: `AFNPackageBuilder::Wait`, `notify`, `DoHandleAck` | cmdMap, condition variable, answers on the heap | call, wait, time out, answer, notify | `Calls` | `CallsProofs` |
| Byte stream: `EventConnection::RecBuf`, the lengths in `AFNPackage::ParseProto` | m_buffer, what is left of a read | read, parse, keep, drop | `Stream` | `StreamProofs` |
| Packages: `AFNPackage`, `proto`, requests and acknowledgements | one package, its bytes | build, serialise, damage, parse | `DataTag`, `Package` | `PackageProofs` |
| Readings: `AFN0C` answers, `AFNData`, `Pkg_Afn_Data`'s shared buffer, `toDB` | fields of an answer, m_DataUsed, the row | decode, copy, store, delete | `Readings` | `ReadingsProofs` |
| Multi-frame messages: `ConnectionPower::handlePackage` | m_pkgList, packages on the heap | receive by FIR/FIN, hand over, clear, delete | `Frames` | `FramesProofs` |
| Supervisor: `TSvrAdm`, `TYQProcess*` | FMyMg, FTerminated, processes, signals | loop, fork, terminate, wait, SIGCHLD, SIGTERM | `Supervisor` | `StationProofs` |
| Server process: `TSvr`, `YQLoop`, `TcpServer`'s construction and shutdown, `TelnetThread`, `DBManager::Instance` | stage of the main thread, FTerminated, g_JzqConList, listeners, the telnet thread | start, load, listen, SIGTERM and SIGINT, shut down, another round | `Station` | `StationProofs` |
| TcpServer's and TelnetServer's callbacks | event loops, timers | callbacks | actions of the modules above | |
| Database query: `DBManager`, `TQuery`, `YQDB`; `LoadJzq` and `toDB` that use it | statement, result set and end mark of the one query, the entries loaded | add a statement, open, execute, first, next, read, close | `Query` | `QueryProofs` |
| TelnetServer's command line | g_cmd | read keys, erase, run a command | `Console` | `QueryProofs` |
| Log and its lock: `TLogFileMp`, `TYQPrcSync`'s critical lock | mutex, FFlag, the semaphore and its undo | lock, write, unlock, end of a process | `LogFile` | `StationProofs` |
| Read-write locks between processes: `TYQPrcSync` | | created, never taken | not modelled | |
| Water collectors, AFN01, `YQList`, `YQDataList`, threads, shared memory, message queues | stubs or unused | | not modelled | |
| ini files, utilities | text | | not modelled | |

How they interact: libevent calls `JzqList::conn_readcb` -> `RecBuf` (`Stream`) ->
`ParseProto` (`Package`) -> `handlePackage` (`Frames`) -> `PackageBuilder::HandlePkg`
-> a request handler (`AFN02Handler`, which changes the registry: `JzqList`, and
answers with numbers: `JzqTraffic`) or `DoHandleAck` -> `notify` (`Calls`). The
telnet thread enters from the other side: a command or the polling timer looks up a
connection, sends a request (`JzqList`, `JzqTraffic`, `Package`), clears the frames
kept on it (`Frames`) and waits (`Calls`); `freshjzq` loads the table (`Query`, begun
by `Console`) with the query that `notify` also stores readings with. So does `TcpServer`'s constructor
at the start of every round of `YQLoop` (TcpServer.cpp:31): from the second round on the
telnet thread of an earlier one may be in `freshjzq` meanwhile, with the same query and no
lock between them. The modules cut the system at these
calls; each takes from its neighbours only what reaches it, as an input that may
come at any time.

### What is hard here

- two threads with half of the accesses locked (`JzqList`, `Frames`, `Calls`);
- connections that die silently, reconnect before the old one is closed, or carry
  several addresses (`JzqList`);
- first-match look-ups in lists that a reload doubles (`JzqList`);
- 4-bit and 8-bit counters that must wrap together (`JzqTraffic`);
- TCP cutting frames anywhere (`Stream`), frames making up messages (`Frames`);
- answers that come late, twice or never (`Calls`);
- an answer that shares its data with the package it came in (`Readings`);
- one database query for two threads that do not know of each other (`Query`), one
  command line for all sessions (`Console`), and a load of a new round beside the telnet
  thread of the old one (`Query`);
- a log whose lock spans processes that are killed, written by a signal handler
  (`LogFile`);
- signal handlers between any two steps (`Supervisor`), start-up that fails half way
  and a thread that is never told to stop (`Station`);
- bit fields and byte counts written three times by hand (`Package`).

The full list, each at its line with the properties that cover it, is "hazards" in
`PROJECT.json`.

## 2. Modules and code

**JzqList**. `jzqs` is `m_jzqList`; an entry has its address, login bits, `m_RSEQ`,
`m_PFC`, the age of its two timers (saturated one past the limit) and the number of
its meters. `conns` is the list of connections with the address each last heard
(`m_jzq`), which is uninitialised memory until then (`set`). `sweep` is the position
of `AutoGetAllKwh`. One action per callback: `NewConnection`, `RecvPackage` (address
learning, `ReportLoginState`, `GetRSEQ`; the whole of handling), `CloseConnection`
(with the destructor's logout), `CheckConnection`, `FreshJzq`, `SyncRequest`,
`KwhTimer`, `SweepEntry`, `SweepElement`, `Tick`. The sweep sleeps between meters
with the mutex held: `CloseConnection` waits for it, the other TcpServer callbacks
do not. Walking a list is one step.

**ConcentratorLink** is the promise: one login state and two counters per address.
`JzqList` implements it by mapping each address to its first entry.

**JzqTraffic** extends `JzqList` with the frames sent: the number of the last
response and request, the last number a concentrator wanted confirmed (`askSeq`, which
tells a repeat), the connection a request left on, how long each concentrator has been
quiet.

**Calls**. `caller` is the telnet thread in a synchronous call, `tcp` the TcpServer
thread between `DoHandleAck` and `notify`, `net` the answers under way (lost,
duplicated, late), `heap` the answers that exist. The request is sent before `Wait`
enters the call in `cmdMap`, as in the code. `PackageBuilder::DoHandleAck` is not
virtual, so as built the override with `notify` is not reached; `Dispatch` says
whether it is. The passing runs allow both, `v_answer` takes the code as built.
Answers that overwrite one another in `cmdMap` are leaked, as in the code.

**Stream**. Bytes are cells that know their frame and place in it: enough for
lengths, tags and checksum to be right or wrong. `appendData2Buffer` advances the
length before using it, so a joined buffer is the old half and as much junk as the
read was long; what junk announces as a length is a free choice, and the overrun may
end the program. So does a piece that has its tags and checksum but no room for a data
unit (`Short`, LEN below 12): `unPackData` leaves `pAfnData` NULL (proto.cpp:39), or gets a
length that has wrapped, and `ParseProto` reads through it (AFNPackage.cpp:65-68). Frames a
concentrator sends are longer (`Size`, `Full`), so that only what a cut or a join has left
can be such a piece.

**DataTag, Package**. `GetDA`, `Getpn`, `GetDT`, `GetFn` on sets of bits and values;
a package with its fields as `Build` makes them for each command and
acknowledgement; `Serialize` to a sequence of bytes; one damaged byte; `ParseProto`.
A point above 2041 leaves the identifier with the `Memory` it was created in. The
status text of `getstatus` is shortened to `StatusLen` bytes. Damage spares the
length fields: a wrong length moves the frame's end, which is `Stream`'s subject. No
package built here has LEN below 12; `ParseProto` says "crash" of one that has.

**Frames**. A package is the number of its frame. `Receive` puts it in the list or
on its own by FIR and FIN, `HandlePkg`, `Clear` and `Delete` are the rest of
`handlePackage`; `BeginClear`/`EndClear` are the telnet thread inside
`ClearRecPkgList`, which may come between any two of these. Reading or deleting a
package that is gone may end the program or go unnoticed.

**Readings** extends `Package` with what a concentrator answers to AFN0C F2, F11 and
F33. `BuildAnswer` writes the fields of an answer (all of them, some missing at the end,
the count itself among them or not, a count out of range, or a denial) into a package that takes the same way as every other;
`DoHandleAck` decodes it (`HandleData`) and copies the unit, `Save` is `notify` with
`toDB`, `DeletePackage` and `DeleteReading` are the two destructors, in any order,
since the answer may belong to the waiting thread by then. `buffer` is `m_pData` and
`used` the two counts. `ContentsAssumption` says what the fields of an answer can hold:
bytes, words below 2^15, registers of at most as many digits as their bytes have, dates
of this century in BCD, or 0xEE for none. `Start` is where a field begins: the sum of the
widths before it, which the code takes one `parse` call at a time. A register is a number in units of its last digit: what the
code loses by `float` and by printing six digits is left out.

**Supervisor**. The main loop of `TSvrAdm` step by step (`pc`), with the SIGCHLD
handler between any two of them; `FMyMg` is NULL or the pid the object holds;
`target` is a pid in a register. `wait(NULL)` in the handler blocks as the real one
does. A new child still has the parent's handlers until it sets `SubPrcPtr`; then,
until it has its own `FPid`, SIGTERM makes it send SIGINT to the whole group
(`kill(0, SIGINT)`), which ends the supervisor too. The object of a fork that failed has
the pid -1, and SIGTERM for it goes to every process there is (`Named`); `Owned` shows
that no server is among them.

**Station** extends `Supervisor`: `srv` gives every server process the stage of its
main thread (`OnStart`, `OnRun` with `TcpServer`'s constructor, `Run`, `Interrupt`,
`Shutdown`, `Leave`; `Run` ends at either port or at the event for SIGINT), the flag SIGTERM sets, whether `g_JzqConList` points to a list,
the state of the database singleton, listeners that were never freed, and the telnet
thread. `OnSigterm` sets the flag and raises SIGINT: a process inside its event loop
catches it, any other dies of it.

**LogFile** extends `Station`, whose steps it repeats with the log beside them. `at`
is where each thread is in `TLogFile::Write`: waiting for the process's recursive
mutex, for the semaphore (which only the outermost writer of a process takes),
writing, or between counting itself out of `FFlag` and giving the semaphore back. The
server's threads may log whenever they run; the supervisor logs when fork has failed
(`OnException`) and its handler when it has reaped a server. What a process did to the
semaphore is undone when it ends (`SEM_UNDO`), its mutex dies with it. File handling,
rotation and the text are left out: every path of `Write` ends in `Unlock`. `FMyMg` is
cleared in the step in which the handler begins to log, a moment before the code does,
where nobody can look. The mutex is taken to be recursive, as `InitMutex` means it to
be (its attribute is set without being initialised, YQProcess.cpp:35). The result of
`semop` is ignored in the code; `SemFree` shows that nobody ever waits there, so that
no signal can end the wait.

**Query** is the one `TQuery` of the server process, a call of one of its methods per
step. `sql` is the text in `m_FSQL`, forgotten in the model when nobody will
send it again; `res` is the result set (the statement it answers and the row last
fetched), `eof` the end mark. `loader` is `LoadJzq` in each thread: in the telnet thread
begun by `freshjzq` (`Begin`), in the TcpServer thread by the constructor of a later round
(`EndRound`, `NewRound`); the loop over the concentrators (`at = 0`) and then over every
entry's meters, each loop with `RecordCount`, `IsEof`, `FieldByName`, `Next`. `writer` is
the TcpServer thread in `toDB`. No two of the three hold the same lock, so their calls
come in any order: an insert may close the load's result, the load may send the insert a
second time, the insert may send the load's statement, one load may read the other's
rows. A field read without a row crashes the program
(`FieldByName` gives NULL or reads through a NULL row). Statements may fail. Two loads at
once, or a load while the round and its list end, work in a torn list (`Tear`): it may
lead a load to the statement of any row, on for ever, or into a crash (`Torn`), and what
is in it is not kept. `clash` says that this has happened, `overlap` that the two threads
have both used the query since it was last left alone. The first round's
load comes before the telnet thread and is the case without company. Not
modelled: calls that overlap inside the MySQL client or while one of them frees the
text of the statement.

**Console** extends `Query`: `g_cmd` is the line all sessions share, `typed` what each
client has on its screen while it can rely on it, `by` and `doubt` keep account of who
may. A letter stands for a piece of a word, the blank for ' ', \t and \r. As in the code a
word is what has a blank or a line end behind it (`HasWord`), the first of them is the
command (`FirstWord`), and a line without a word stays in `g_cmd` with its end
(`Complete`). `CRead` is a read that completes nothing,
`CCommand` one that does; `freshjzq` starts the load of `Query`, during which the
thread reads nothing, and any other command is a single step (`Calls` has what it
does). `CTcp` is the TcpServer thread beside it. Accepting and ending sessions is socket
I/O.

## 3. Runs

Every passing run is complete: TLC reaches the end of the state space.

| run | module, bounds | shows |
|---|---|---|
| `registry` | `JzqList`: 2 addresses, 2 connections, RSEQ constant, PFC modulo 2, heartbeat limit 0, list up to 2, relays off | well-formed entries; duplicates stay inert; the sweep's connection exists; online means connected; refinement of `ConcentratorLink` |
| `poll` | `JzqList`: 2 entries, the second with a meter, 1 connection, relays on, fairness | a connected concentrator is polled again and again |
| `traffic` | `JzqTraffic`: 1 address with a duplicate, 1 connection, counters modulo 2 and 4, heartbeat limit 0, fairness | numbers of requests, and of responses but to a repeated PSEQ, advance by one through wraps; a silent concentrator is shown offline |
| `calls` | `Calls`: 2 calls (one a meter's), 2 answers on the heap, up to 2 copies under way, fairness | ownership, no stray answers, stored before deleted, every call returns |
| `stream` | `Stream`: frames of 3 and 4 cells, half below 2, short below 3, reads up to 7, 4 frames, fairness | order, bounded buffer, whole reads lose nothing, the parse loop ends, by a crash only after a read that cut a frame |
| `package` | `Readings` with `Package`: points and types at the edges of groups and beyond, 2 addresses, 2 sequence numbers, 5 values for a damaged byte; 10 answers with counts 0, 1, 2, 5 and 13, missing values, the last field or the last 9 of them missing (as many as lose the count too) | what is built is parsed again; a damaged byte is noticed; identifiers name their point; answers are decoded and stored right; shared data is freed once |
| `frames` | `Frames`: 6 frames of any kind, 2 telnet commands | handed over once, kept in order, nothing leaked before the first command |
| `supervisor` | `LogFile` with `Station`: 2 pids; fork, database, both ports and the signal event may fail; any thread may log; fairness | one server, none left behind, the ended one is replaced; the telnet thread has a list; one writer of the log, who finds the semaphore free; the handler does not log inside the log; the station implements `Supervisor` with its fairness; who is told to end does, and the supervisor with it |
| `telnet` | `Console` with `Query`: 2 sessions, one letter (the word `freshjzq`; two of them are another word), blank, line end and erasure, reads and lines of up to 2 keys; a table of 2 rows, the second with a meter, loaded behind an old entry by `freshjzq` and into an empty list by a new round, at any time; statements may fail; fairness | undisturbed loads and lines are right; rows come from the load's own statement and a load ends, unless another load runs into it; no result is left, whatever loads and inserts meet |

Why the bounds are enough. In `JzqList` addresses interact only through a shared
connection and through list positions, so two of each show every pairwise case; a
list of two entries has a duplicate; what the counters modulo 1 and 2 of `registry`
cannot show is the subject of `traffic`, where one address is enough because an
address' numbers depend on its own entries alone. A heartbeat limit of 0 still
separates a timer that has run out from one that was just started. `Calls` needs a
second call for a late answer to land in, and two copies for a duplicate. Frames of
two lengths and reads longer than a frame give all cuts of two neighbouring frames in
`Stream`; its proofs cover all sizes. `Frames` needs a message, an interrupted one and
a following one: six frames; the proofs cover any number. Points 0, 1, 9, 2040, 2041
and 2042 are the first and last of a group, of all and one too many; `PackageProofs`
covers all points, types and addresses, `ReadingsProofs` all counts, values and cuts. In `Readings` two blocks or five tariffs shift the fields
behind them by every multiple that matters; 13 is the first count refused (the last
accepted, 12, is too long an answer for the run). `Full` above `Least`
lets a rest of two cells pass for a package without a data unit. Two pids give a server that ends
while its successor runs, and log processes that outlive one another. In `telnet` the
row with a meter comes behind one without, so that a loop that starts over, an empty
loop and a row of the wrong table all differ; an old entry gets its
meters again beside the new one of the same row; two sessions give every way to mix two
lines, and two keys an empty line with the word and the blank that follow it.

**Violation runs.** Each checks one sentence of the repository that the program does
not keep; the finding in `PROJECT.json` quotes it.

| run | sentence | what happens |
|---|---|---|
| `v_answer` | the caller waits for the result (AFNPackageBuilder.h:78) | it never gets one: `PackageBuilder::DoHandleAck` is not virtual |
| `v_split` | half a package is buffered and completed (EventConnection.cpp:92) | the join overwrites it |
| `v_restart` | a server that ended is run again (svr.cpp:50) | not if it ended before its pid was stored |

**Other departures met while modelling.** The models follow the code in each of
these; no run is spent on them.

- Closing a former connection logs out a concentrator that has reconnected
  (ConnectionPower.cpp:19; Jzq.cpp:57 knows logout and timeout only), and a connection
  that has heard nothing has an uninitialised address, which may match anybody's
  (ConnectionPower.cpp:13, Jzq.h:15).
- `freshjzq` appends to the list instead of replacing it (ConnectionList.cpp:140,
  TelnetServer.cpp:153).
- A request that repeats the PSEQ of the one before gets a response with a new number
  (`GetRSEQ` counts without looking, AFNPackageBuilder.cpp:82), where proto.h:237 has the
  response resent; `ResponseFollows` leaves repeats out. A login does not start the heartbeat timer (Jzq.cpp:52, 72); responses carry MSA 1 (proto.h:152), AFN04
  requests the code 0x0C (proto.h:185), length fields the tag 1 (proto.h:51).
- `ClearRecPkgList` runs under the mutex, the read callback that uses the same list
  does not take it (AFNPackageBuilder.cpp:18, ConnectionList.h:38).
- A request leaves before `Wait` enters its call in `cmdMap`, so that a fast answer is
  taken for an asynchronous one.
- The result of `HandleData` is ignored (AFNPackageBuilder.cpp:119): an answer that is
  too short is stored as it is, or ends the program at an array that is still NULL. Of
  a chain of answers `notify` stores and deletes the head only. 0xEE (no value) is
  stored as -1; 50 characters are few for the tariffs of a register, and the UNIQUE KEY
  of the table in AFN0C.cpp:229 would refuse a meter's second reading.
- A package with LEN below 12 and a right checksum ends the program
  (AFNPackage.cpp:67).
- The first and last frames of a message are deleted twice by `handlePackage`, with the
  list and by themselves (ConnectionPower.cpp:58, 59, 75, 76).
- The query of `DBManager` is used by two threads under two locks, one each: a load may
  crash, lose rows or start over when a reading is stored meanwhile, an insert may be
  lost or doubled, and the result of `ExecSQL` is not looked at. The third user has no
  lock at all: the load that `TcpServer`'s constructor makes in every round after the
  first (TcpServer.cpp:31), while the telnet thread of an earlier round may be in
  `freshjzq`. Two loads that meet take rows of each other's statements, add to a list
  that is being deleted or to one list both, and need not end; `RowsOfOwnQuery` and
  `LoadEnds` leave them out, `LoadedRight` every load that had company.
- The console "supports a single client" (TelnetServer.cpp:56), but accepts any number.
  An empty line stays in `g_cmd` (:190), so that the blank behind the first word of the
  next line already runs that word, without its parameters; two
  lines in one read are one command; a read that ends in a backspace drops its other
  keys.
- A fork that fails is never tried again (svr.cpp:76). SIGCHLD while the supervisor
  stops clears the object it is about to use (YQProcess.h:214).
- "exiting cleanly in two seconds" (TcpServer.cpp:122): the telnet thread is not told,
  and the list is deleted under it. When the second port cannot be bound the first
  listener is never freed (TcpServer.cpp:84), without the event for SIGINT both are not
  (:93), so that no later round can bind them. When
  the database is not there at the start, the object whose `Init` threw stays the
  singleton (TSingleton.h:18) and the next load uses a query that was never made.

**Deadlock** is checked everywhere except where the system may really stop: `Stream`
and `Frames` (the peer has sent its bounded number of frames, or the program has
crashed), `LogFile` and `Supervisor` (the supervisor ends). `telnet` allows
it too: the program may have crashed.

**Fairness.** Only what an event loop or a scheduler gives: `JzqList` assumes time
passes, the telnet thread's timer fires and a sweep goes on (weak fairness of `Tick`,
`KwhTimer`, `SweepEntry`, `SweepElement`); `JzqTraffic` that the heartbeat timer
fires and time passes; `Calls` that the telnet thread runs and its deadline comes,
and nothing of network or TcpServer thread; `Stream` that a callback is carried on;
`Supervisor` that the main loop, a pending handler and a child told to end make
progress, while a running server need never end. `Station` replaces the last by what
the server is made of: its main thread runs, SIGINT is delivered, the two timers of
the shutdown fire, and a process at its end exits; nothing is assumed of the telnet
thread, and `ImplementsSupervisor` shows that this is enough. `LogFile` adds that a
thread inside the log goes on, that the supervisor gets its own mutex, and, strongly,
that a server's main thread gets the mutex it shares with the telnet thread and goes on
with its work rather than log for ever. `Console` assumes that either thread
carries on with a load it has begun. `Package`, `Readings`
and `Frames` have no liveness properties and assume no fairness.

## 4. Proofs

TLAPS checks all of them (type invariants are proved and, but for the registry's, not
checked by a run of their own); they assume only the named ASSUMEs of the modules
(`BoundAssumption`, `SeqAssumption`, ...), which TLC evaluates on every run.

- `JzqListProofs`: `TypeCorrect` (TypeOK is inductive), `DuplicatesStayInert`,
  `SweepKeepsLink`, `OnlineIsLinked`, `ListImplementsLink`, `NumbersFollow`. The lemmas
  describe what each operation
  does to the list as "the first entry of one address changes" (`Changed`) or "nobody
  comes online and counters stay" (`Kept`). With them an action of the list maps to
  an action of `ConcentratorLink`, and duplicates are never the first entry. For
  `OnlineIsLinked` (`Linked` is inductive with `TypeOK`) what is left is that a package
  makes its connection carry the sender, and that closing a connection takes offline the
  only concentrator it can have left without one. `NumbersFollow` compares the number
  last sent to an address with the counter its next frame will take: `RequestsAhead` for
  PFC, taken modulo 16 when it is sent, `ResponsesAhead` for RSEQ (a repeat moves it
  too). Both survive reloads
  because the first entry of an address does.
- `StreamProofs`: `TypeCorrect`, `BufferStaysBounded`. The two are inductive
  together: what is kept is shorter than a package because it was a half package,
  and so a read and it are shorter than `Chunk + MaxSize`. `HandledInOrder` and
  `WholeReadsAreHandled` speak of `Pending`, what is held and what is still in the
  network: a step drops cells from its head or overwrites some (`Thinned`). `OrderInv`
  says that cells are of frames that were sent, rise, and are later than what was
  handled; a package that is intact ends its frame, so that what is left is later
  (`LeftIsLater`). `WholeInv` adds, while every read ended a frame, that the cells follow
  each other without a gap (`Runs`) from the next frame to the last one sent, so that the
  package at the head is whole and is the next (`WholeFrame`), and not too short for
  `ParseProto` as long as the concentrator's frames are not (`SizeAssumption`).
- `PackageProofs`: `PointRoundTrip` and `TypeRoundTrip` (arithmetic of groups of
  eight), from which `TagsNamePoints` follows for every package ever built. `FieldsSurvive`
  and `DamageShows` from the invariant `PackageInv`, which says what is on the wire. The
  sum of bytes is a recursive function; that it exists, and that no other adds up the
  same way, is shown with a least counterexample. Hence the checksum that is written is
  the one that is computed again (`SumsAgree`), what `Serialize` writes is a frame
  (`Framed`) that `ParseProto` accepts (`FramesParse`) and takes apart into the same
  fields (`FieldsBack`), while one changed byte moves the sum by less than 256 and by
  more than 0 (`DamageFound`).
- `ReadingsProofs`: of the shared data,
  `FreedOnce`: the invariant `BufferInv` gives for each step of the thread which pairs
  of counts can occur and whether the data is live; what an answer contains plays no
  part, so it holds for every content. Of the content, `AnswersRead` and
  `AnswersInserted`: a field is read as it was written (`FieldRead`, by kind: BCD digits,
  dates, 0xEE), fields laid one after the other are found where their widths put them
  (`FlattenLaid`, `Places`), and so `HandleData` makes of an answer cut anywhere what
  was said or nothing (`AnswerRead`). The case a test would miss is there: in an answer
  cut before its count the first byte of the event counter is taken for the count, and
  the answer is then too short for it. `ColumnsKeep` is `toDB`: each listed register in
  its own column. `AnswerInv` ties package, decoded answer and row together.
  `AnswersTravel` carries the results of `PackageProofs` over to a concentrator's packages.
- `FramesProofs`: `TypeCorrect`; `HandedOnceAlways` needs that the packages of the list have not
  been handled unless they are about to be cleared (`Fresh`), that a single frame is
  not in the list (`Newest`) and that the list is empty when a first or last frame is
  deleted (`Stage`). `NothingLeaks`, until the first telnet command, adds `Owned`: what exists is what the list names
  and the single frame in hand.
- `StationProofs`: of `Supervisor`, `AtMostOneServer` and `NothingLeftBehind` from an
  invariant that says at each `pc` which process can be alive. `StationImplements` (every step is one of `Supervisor`'s or leaves
  its variables alone), so that `StationKeepsServers` follows from these;
  `ListStays` from an invariant on one server that `PutKeeps` lifts to all;
  `StationType`. Of the log, `LogExclusive`, `LogFree` and `LogNotReentered` from three
  invariants: `LockInv` ties `FFlag`, `undo`, `sem` and the mutex of each process to
  where its threads are, `KidInv` says which servers can log (one at most, and a dead
  one holds nothing), `QuietInv` that the supervisor logs only when no server can end.
  `LogImplements`: every step of `LogFile` is one of `Station`'s or leaves it alone.
- `CallsProofs`: `CallsType`, `NoStaleEntry`, `OwnAnswers`, `SingleOwner`, `StoredFirst`
  from one invariant `IInv`: it says who can hold an answer at each step of the two
  threads, that `cmdMap` has an entry only for the call that is in `Wait`, and that the
  answer in it is one to this call and still to be deleted by its caller.
- `QueryProofs`: `QueryType`, `OwnRows` and `Freed` from an `IInv` that does not depend
  on how the two threads interleave: while no two loads have met (`OwnsAll`), from `AddSQL`
  to the last row `m_FSQL` holds the
  load's statement or the insert (`OwnStatement`), an insert gives no result
  (`OwnResult`); and, with two loads as well, a result is there only while somebody will
  still close it (`WillBeFreed`). `Recorded` is that `overlap` and `clash` miss no meeting of
  the two threads. `Once` and `LoadsRight` from what holds while
  the threads keep apart; the latter compares the list built so far with the rows that
  the cursor has passed (`ReadSoFar`) and counts the meters added.
  `ConsoleImplements` carries all of it over to the console. `OwnLineRuns`, for lines of
  any length and any number of sessions: `OwnKeys` says that a client which need
  not doubt its screen either sees nothing there or sees `g_cmd`, and that it sees `g_cmd`
  too when the keys in a line not yet ended are all its own; the screen
  (`Screen`, a recursive function over the keys) grows by the letters of a read as
  `g_cmd` does, and shrinks by one for a lone erasure.

What the prover cannot reach and TLC alone checks is liveness (`PolledWhileConnected`,
`SilentGoesOffline`, `CallReturns`, `RecBufEnds`, `EndedIsReplaced`,
`ToldEnds`, `LoadEnds`, the fairness in `ImplementsSupervisor`), since fairness and
ENABLED are out of its reach. Every safety property of the passing runs is a theorem. No
module declares a RECURSIVE operator, with which tlapm loses its SMT backend: sums,
layouts and screens are recursive functions, and what one computes is proved by a
least counterexample, the library's induction theorems being out of reach of the
installed provers.

## 5. What is not modelled

- Torn standard containers: a walk of a list by one thread while the other changes
  it is one step here.
- The SQL text, the digits of a number in it, the texts shown to operators, and chains
  of answers of multi-frame messages.
- Calls of the MySQL client that overlap inside one method of the query, and statement
  text that one thread frees while the other sends it.
- The server stopped by SIGSTOP, and the read-write locks between processes, which the
  program creates and never takes.
- Sockets, ini files, log text: I/O.
- Water collectors and AFN01 are stubs; message queues, shared memory, `YQList`,
  `YQDataList` and `TThread` are not used by the program.
- Sessions of the console that end: their buffers are not freed (TelnetServer.cpp:318).
- Vendored code (`thirdparty`, libevent, OpenSSL, MySQL headers): modelled only by
  what the program sees of it (callbacks, timers, mutexes). It is by far the largest part
  of the repository; the definitions stand for about a quarter of the lines of
  `src/AFN/src` and `src/AFN/common`,
  the rest of which is text, logging and code the program does not use.

## 6. Plan

Modelled so far, in the order it was written: registry, calls, stream, packages,
frames, supervisor, the server process, readings, the query, the console, the log. What
is left, by weight:

1. Chains of answers in `Calls` and `Frames`: a multi-frame message whose answers hang
   on one another.
2. `Query` joined to `JzqList`: a load that is cut short while the TcpServer thread
   looks up entries. Each of the two is close to what a run can hold, so that this
   needs a coarser registry.
3. The read-write locks, message queue and shared memory of the support library, should
   the program come to use them.

New modules extend the existing ones where they share state, so that one run checks
the composition rather than each part on its own.
