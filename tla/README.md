# Verification of the retargeting tracker (`rgadtrackerd`)

TLA+ models of the FastCGI daemon in `src/`, the TLC instances that check them
and TLAPS proofs of the main results. Every definition that models code is
listed with its source lines under `map` in `PROJECT.json`; paths below are
relative to the repository.

## 1. The system

One process. `main` loads the configuration, daemonises through `Server`, opens
a Unix socket in `CgiService` and starts `server_children_` threads. Each thread
accepts FastCGI requests from the web server and answers them: with a status
page (`?show=status`), with the tracking page built from a template and the
visitor's parameters, or with 503. The tracking page is a script that keeps the
visitor's history in the browser.

| component | source | state | operations | talks to |
|---|---|---|---|---|
| Request statistics | `src/Core.cpp`, `src/BaseCore.cpp` | `request_processed_` (global), two function statics of `Status`, start time | `Core::Process` counts, `BaseCore::Status` computes two rates and moves its baseline | called by all workers, no lock |
| FastCGI service | `src/CgiService.cpp` | listening socket, threads, `accept_mutex`, one `FCGX_Request` per thread | constructor, `Serve`, `ProcessRequest`, two `Response`s, signal handler | web server, `Params`, `Core`, `BaseCore` |
| Request parameters | `src/Params.cpp` | the fields of one request, parsers on the heap | `parse` | `UrlParser` twice, `Config` |
| URL and form parser | `src/UrlParser.cpp` | text, parameter map | `parse`, `percent_decode`, `param` | - |
| Launch | `src/main.cpp`, `src/Server.cpp`, socket part of `src/Config.cpp` | lock file, pid file, socket path, launcher and daemon process | options, load, stat / scan / remove / open of the lock, fork, alarm, SIGUSR1, pid file, socket | other launches, through the file system and `/proc` |
| Configuration | `src/Config.cpp` | settings, template text | `Load`, `checkPath`, `getFileContents`, `ReLoad` (does nothing) | file system, on behalf of the user who launches |
| Log | `src/Log.cpp` | one `buffer_` behind `std::clog` | `overflow`, `sync`, formatting functions | all threads, signal handler |
| Cookie, base64 | `src/Cookie.cpp`, `src/base64.cpp` | - | header formatter; codec nobody calls | - |
| Visitor history | `templates/out.html` | `localStorage`: eight items - offers, a bounded queue, hits and times per account and in all | load, enter a visit, save | other tabs of the browser |

What makes it correct, per component:

* *Statistics*: nothing shown exceeds what happened; without races the figures
  are exact; races and clock changes leave only values the types allow.
* *Service*: a connection is worked on by one thread, once, and gets the answer
  its request calls for; threads wait for clients, never for each other only;
  whoever connects is answered or gone. A client can keep a thread: the mutex is
  held until its parameters are in, so one that sends none stops all others from
  accepting; the body is read after that, outside the mutex, so clients that
  announce one and do not send it can take every thread.
* *Parser*: what a page submits is what `Params` reads; it returns on any text.
* *Launch*: one daemon, named by the pid file; leftovers of a crash neither
  block nor confuse the next start; whoever launches gets an exit status, and
  status 0 only for a daemon that comes to serve.
* *Visitor identity*: who has an id keeps it; no two visitors have the same.
* *Visitor history*: it says what the visitor's pages have entered, no more
  and, as far as pages do not collide, no less.

What is hard to test in it - races on unlocked data, the interplay of failing
calls with the pool, launches that race or crash, narrowing of times - is listed
line by line under `hazards` in `PROJECT.json`, with the properties that bear on
each. Section 6 says which of them no property covers.

## 2. Modules

| module | role |
|---|---|
| `Statistics` | counter and `Status`, one step per access to shared data |
| `RequestService` | abstract: what the service promises to the web server |
| `CgiService` | worker pool; implements `RequestService` |
| `Tracker` | composition of `CgiService` and `Statistics` |
| `Launch` | several launches of the program on one machine, at once or not; also the abstract view of `Startup` |
| `Startup` | a launch over files with owners and rights; implements `Launch` |
| `UrlParser` | the loops of `parse` and `percent_decode` |
| `Visitors` | the id that `Params::parse` finds or makes, its way through the browser's cookies, and the time to live |
| `VisitorHistory` | the script of the answer page, in several tabs |
| `MCStatistics`, `MCCgiService`, `MCTracker`, `MCLaunch`, `MCStartup`, `MCUrlParser`, `MCVisitors`, `MCVisitorHistory` | instances for TLC: request shapes, file systems, bytes and fields, cookies, pages, symmetry |
| `Statistics_proofs`, `CgiService_proofs`, `Tracker_proofs`, `Launch_proofs`, `Startup_proofs`, `Visitors_proofs`, `VisitorHistory_proofs`, `UrlParser_proofs` | TLAPS proofs about the module each is named for |

Operators called `Mutant...` are variants of the definition that follows them,
each with one slip a programmer could make. No specification uses them; with
one put in place of the definition, the property it is paired with in
`PROJECT.json` fails, so the property really depends on that piece of code.

### Statistics

`request_processed_++` in `Core::Process` is `ProcessLoad` then `ProcessStore`,
and `ProcessReturn` is the rest of the function, which formats the page:
the variable is a plain `unsigned long` used without a lock, so a
read-modify-write can be interleaved. This covers the orders in which aligned
machine words are read and written; the standard calls the race undefined, and
these are the outcomes the build produces. `Status` is the sequence `StatusEnter` ..
`StatusPrint`; every step makes at most one access to shared data, and its
locals (`now`, `elapsed`, ...) are functions of the thread. Times are offsets
from `time_service_started_`. `AsInt` and `AsULong` are the conversions of the
rate computation, with the widths as constants, so that a model with ints
of a few values shows what happens after 24.8 days. `Tick` moves the clock both
ways: `microsec_clock::local_time` follows daylight saving. `served`, `servedAtMark`
and `latestAccess` are history variables that no action of the system reads.
So is `overlapped`, which becomes true when a thread enters `Process` or
`Status` while another is at the shared data (a thread that formats its page is
not): the properties that hold only without races are stated under `~overlapped`,
in runs where races do occur. Test and assignment of the default access time
(`StatusEnter`, `StatusDefault`) and the second read of the counter and the
store of the baseline (`StatusReload`, `StatusMark`) are separate steps, so a
first caller can reset a time that another has stamped, and an older baseline
can be stored last.

### CgiService, RequestService

`pc[w]` is where a thread is: `start` .. `unlock` in `Serve`, `parse` .. `reply`
in `ProcessRequest`. A request is a record of the facts its path depends on
(`RequestShapes`): is `QUERY_STRING` set, is it `show=status`, is `REMOTE_ADDR`
set, does `CONTENT_LENGTH` announce a body, is the id in the cookie valid UTF-8.
`Parsed` has the early returns of `Params::parse` in their order; `ParsersMade`
and `ParsersDeleted` count its heap objects. `FCGX_Accept_r` takes a connection
and reads the parameters of its request before it returns (`TakeConnection`,
`ReadRequest`), drops one that was closed too early (`DropConnection`), or fails
(`AcceptFails`); all that under `accept_mutex`. The body is read by
`FCGX_GetStr` in `Params::parse`, with the mutex free again: `Parse` waits until
the client has sent it or has closed (`BodyRead`, `SendBody`).

Two exceptions end the process, both modelled as steps of the thread that meets
them while the others are anywhere. `template_out_` is chosen initially: good,
or the empty string that `getFileContents` returns; with the latter
`ProcessThrows`. `u32regex_replace` throws on an id that is not UTF-8
(`ParseThrows`), if the request gets that far (`CookieThrows`).

`RequestService` knows a queue, a set in service, and answers. The refinement
maps `backlog` to the queue and the connections in the threads' `FCGX_Request`s
to the set in service.

### Tracker

`CgiService` takes `core->Process` and `bcore->Status` for one step each. In
`Tracker` they are the steps of `Statistics`. For `Process` these are the load of
the counter (`BeginProcess`), its store (`StoreCount`) and, later, the page that
is returned (`EndProcess`) or the exception that is not caught
(`ThrowInProcess`): any number of threads can have counted when the first of them
throws, and a thread that formats its page is counted before it has one. What
these steps change of the pool are `CgiService`'s own actions, of the counter
`Statistics`'s, so that each module's theorems hold of its half of the state by
construction. What only the composition has is the relation between the counter
and the pages (`CountsOnlyPages`, `CountsEveryPage`).

### Launch

A launch is a `launcher` process and, after `Fork`, a `daemon`. Lock file, pid
file and socket path are shared by all launches. `LoadExits` stands for all the
error exits of `Config::Load`, `Alarm` for the two seconds of `alarm(2)`.
The history variable `atOnce` becomes true when a launch starts while another
process is on its way up; `OneAfterAnother` (no such launch yet, and none with
process 1 as its parent) is the condition of the properties that a race breaks:
two launches at once may both find no lock file and both become daemons.
`unlink` and `remove` may fail without the code noticing (`Unlink`,
`RemoveLock`).
The configuration names a lock file and a pid file, as `config.xml` does.
Setting user, session, directory and standard streams changes none of the state
modelled and is part of `Fork`.

### Startup

What `Launch` leaves open - which step succeeds - follows here from the files:
`fs` gives each path a kind, an owner, a group and mode bits, `Grants` is the
kernel's rule. Initially, and as proved always, `fs` is `WellFormed`: nothing is in a
directory that is missing. `Config::Load` is a step per check: `CheckSocket`, `UnlinkSocket`,
`CheckLock`, `CheckPid`, `LoadTemplates`. `checkPath` is translated with its
peculiarities: of a directory that exists it is enough that one of two bits is
set (`PassesTest`), missing ones are created as a side effect (`Walked`), the
file itself is not looked at, and a probe beside it is. `Switched` is the
constructor's `setuid` without `setgid`; from there on the pid file and the
socket belong to another user than the one who did the checks. `pidText` is the
content of the pid file: `Overwritten` writes without truncating. Launches
follow one another (the races are `Launch`'s); `Administer` changes the rights
of the directory once at any time, which makes what `checkPath` found stale.

`L!LaunchSpec` with `lockFile`, `pidFile` and `socketAt` read off `fs`,
`pidText` and `bound` is the refinement.

### Visitors

A cookie is what the search tells apart: does the configured name occur in it
(`match`), how often `=` does, which digits its value has and whether there is
anything else (`rest`), and when it ends. `CookieValue` is the loop over the
fragments, `cookie_id` the test for emptiness and then the filter of digits - in
this order, so a value without digits gives an empty id, which the next answer
replaces (`EmptyIdOnlyOnce`). A jar, and a `Cookie` header, is a function from
places to cookies, so that a cookie keeps its place while others expire. Each
answer carries whether in its request another cookie came before the service's
(`misled`, a history field): an answer is judged by the request it answers, also
when cookies have expired in between. Several pages of a browser may be under way; their
answers come in any order or not at all. `Bodies` is the buffer of
`CONTENT_LENGTH` bytes that is taken for a C string: a body shorter than it
declared ends in zeros, one as long goes on with whatever follows in memory, of
which every text in `Garbage` is tried: a well-formed body is as long as it
declared, so nothing more than its type can be claimed of the time to live. `AtoI`
and `getSecondTimeCookie` narrow to int. The default is the 365 days of
`Params.cpp:65`; the comment in `config.xml:54-55` speaks of 14. Values of cookies
are UTF-8 here, because the service does not survive another (`ParseThrows`).

### VisitorHistory

`tab[t]` is the script in one page: `load` and `save` with the position among
the eight `Items`, one `getItem` or `setItem` per step. `Entered` is the change
of all items for one visit. gender and cost, per account and in all, are four
copies of one function in the source (`AddHit`), likewise the times (`AddTime`);
the visitor's own records are stored under the name `All`. `End` is a script
that ends early, at any step: `Test` fails in `save`, `setItem` throws, the page
is closed. `Open` may find no storage and go on with an empty memory, as the code
does, and then overwrites what is stored if `save` finds one (`forgot`).
`VisitorHistoryAssumption` says what a browser may bring along: what an earlier
page has left, with a queue within its size and each offer in it once. The
history variable `seen` lists the visits and how many items of each were saved.

### UrlParser

Texts are sequences of bytes. A text comes into being byte by byte (`AddByte`,
any text over a small alphabet) or field by field (`AddField`, what a page that
embeds the tracker submits; external). `ReadName`, `ReadValue` and `StoreValue`
are the loop in `UrlParser::parse`, with the position arithmetic of the source
(including `size_type(-1)`, here 0), `Decode` is one turn of the loop in
`percent_decode` with its state, first digit and result. A `+` is not decoded by
the code and not produced by `AddField`. Names of fields have no reserved bytes:
they are the words that `Params` asks for (`UrlParserAssumption`).

## 3. Runs

Safety and temporal properties, with deadlock checking off where the system
really stops: threads of `CgiService` wait in accept for ever or have ended with
the process, launches are finite in number, the parser returns.

| run | instance | shows |
|---|---|---|
| `Statistics` | 2 threads, 2 offers, ints of 6 values, clock 0..3 | `StatisticsTypeOK`, `NeverOvercounts`, `AverageNotOverstated` in spite of lost updates; `BaselineIsProcessedCount`, `LastAccessTime`, `RatesExact`, `CounterNeverFalls` without overlap |
| `CgiService` | 2 threads, 3 connections, 5 shapes, 2 failures | `CgiTypeOK`, `OneWorkerPerConnection`, `ReadBeforeWork`, `StallsOnlyOnClients`, `LeaksOnlyWithoutQuery`, `PoolAccounting`, `ImplementsService` |
| `CgiServiceLive` | 2 threads, 2 connections, 2 failures | `EveryRequestAnswered` |
| `Tracker` | 2 threads, 3 connections, 3 shapes, 1 failure | `CountsOnlyPages`, `CountsEveryPage` |
| `Launch` | 3 launches, one after another or at once, kills anywhere | `LaunchTypeOK`, `AtMostOneDaemon`, `PidFileNamesDaemon`, `OverrideStaysReachable`, `LockWhileDaemon`, `RefusedOnlyByDaemon` |
| `Startup` | 2 launches one after another, 3 users, 3 modes, 11 layouts of the file system, process ids of 1 or 2 digits, one kill or change of rights | `StartupTypeOK`, `PidFileReadsBack`, `ImplementsLaunch`, `LauncherReturns`, `SuccessLeadsToService` |
| `UrlParser` | all texts to length 5 over 6 bytes; forms of up to 2 fields, values to length 2 | `UrlParserTypeOK`, `ParamsFollowSeparators`, `FormRoundTrip`, `ParserReturns` |
| `Visitors` | 1 browser with 2 pages, 4 requests, 6 cookie jars, 4 bodies, ints to 63, a "year" of 2 | `VisitorsTypeOK`, `EmptyIdOnlyOnce`, `IdentityKept` |
| `VisitorHistory` | 4 kinds of pages, queue of 2, one early end or missing storage: 2 pages in 2 tabs at once, 3 one after another | `HistoryTypeOK`, `AloneNothingLost`, `NeverInvented` |

Why these bounds are enough for the cases that matter. Two threads are the least
that race; in `CgiService` three connections fill the accept queue (as many
places as threads) while one is worked on, or keep both threads busy with one
more waiting, and two failures can empty the pool. Three launches
are needed for the race that `LockWhileDaemon` excludes (a launcher dies between
remove and open, and a third one loses its lock to the second). `IntHalf = 3`
with the clock at 3 takes the uptime out of the int's range, and one offer at
`Millis = 3` takes a rate out of it or, over two milliseconds, is rounded,
while `LongRange` is passed only by the negative differences and intervals that
the races and the clock produce; in
`Tracker` there is room for two offers and a status page, the least that make a
rate of 4 with `IntHalf = 4`. The alphabet of the parser has each byte that one
of its tests distinguishes; five bytes are two fields.

The layouts of `Startup` are the cases of its access rules: the directory of the
socket missing, root's, the service user's or everybody's; a file in its place;
another user's pid file; a directory at the socket path; templates missing,
unreadable to the checker or not configured; a configuration file one may not
read. Two launches are what it takes to meet the files of an earlier one. In
`Visitors` browsers share nothing but the clock, so one is enough except for
`UniqueIds`; a year of 2 with the clock to 4 lets a cookie end and be replaced,
15 and 16 days are the last that fit an int and the first that do not. In
`VisitorHistory` two visits of one account with different offers overflow the
queue of two, which holds one already; two scripts, interleaved item by item,
are the least that collide, and three in sequence the least for which a category
that came twice wins; the costs are those at the ends of ranges, with the one,
25001, that is in none.

What the passing properties say of the code's weak spots: `NeverOvercounts` and
`CountsOnlyPages` are inequalities, and `CountsEveryPage` has its condition,
because two offers at once can count as one; `LastAccessTime` has its condition
because of two overlapping status pages the older time may be stored last and
stays; `LeaksOnlyWithoutQuery` is exact: each request without `QUERY_STRING`
leaves the parser of its body on the heap, and no other does.
`AverageNotOverstated` is an inequality and `RatesExact` bounds the uptime,
because after 24.8 days the average shows 0. `EveryRequestAnswered` excepts the
pool that has lost all its threads - one failed accept ends one for good - and
the process that an empty template or a cookie that is not UTF-8 has ended.
`AtMostOneDaemon` needs launches that follow one another. `SuccessLeadsToService`
lists what turns a reported success into no service at all: a directory that root's
own launch has created (`Prepared`), a pid file of somebody else or a directory at
the socket path (`InTheWay`), a change in between. `PidFileReadsBack` claims the
whole text only while ids do not get shorter. `IdentityKept` excepts two visits at
once and an answer to a request in which another cookie was taken for the service's. `AloneNothingLost`
excepts pages that run at once and a script that saves without having loaded;
what is left then is `NeverInvented`.

Runs that end in a violation, each a disagreement between the code and what its
comments, messages or log say; `findings` in `PROJECT.json` quotes them:

| run | what happens |
|---|---|
| `CgiServiceTemplate` | "Config: Ok", and the first offer ends the process |
| `LaunchRefused` | a refused launch has removed the running daemon's socket |
| `VisitorsSecond` | two visitors of one second share the "unique" id for a year |

### Fairness

`FairCgiSpec`: weak fairness for the constructor's loop, for each thread (the
kernel schedules it) and for each client that has connected: it sends its
parameters, and then the body it has announced, or gives up. The last is what
the code needs and cannot enforce: there is no read timeout. A client that keeps
its parameters back blocks the pool, because the accepting thread reads them
under the mutex; one that keeps its body back blocks the thread that reads it,
and as many of them as there are threads block the pool. `StallsOnlyOnClients`
says, without any fairness, that there is no third way for it to stand still. No fairness is assumed for the mutex:
who waits may be overtaken for ever, and a request is answered by some thread
all the same. Failures never have to happen. `FairStartupSpec` assumes that the
launcher runs on and that its alarm goes off; of the daemon nothing until it has
sent its signal, which is what the alarm is for, and then only that its calls on
files return. Kills and changes of rights never have to happen.
`UrlParserSpec` has weak fairness of the two loops, which wait for nobody.

## 4. Proofs

`tlapm` proves, for every value of the constants that satisfies the modules'
assumptions:

| theorem | states |
|---|---|
| `StatisticsTyped` | `StatisticsSpec => []StatisticsTypeOK` |
| `CounterNeverOvercounts` | `StatisticsSpec => []NeverOvercounts` |
| `AverageBelowTrueRate` | `StatisticsSpec => []AverageNotOverstated` |
| `BaselineKept` | `StatisticsSpec => []BaselineIsProcessedCount` |
| `LastAccessKept` | `StatisticsSpec => []LastAccessTime` |
| `CounterGrows` | `StatisticsSpec => CounterNeverFalls` |
| `FiguresExact` | `StatisticsSpec => []RatesExact`, if `LongRange >= IntHalf * IntHalf` |
| `CgiTyped` | `CgiSpec => []CgiTypeOK` |
| `ConnectionsExclusive` | `CgiSpec => []OneWorkerPerConnection` |
| `WorkOnReadRequests` | `CgiSpec => []ReadBeforeWork` |
| `NoStallAmongThreads` | `CgiSpec => []StallsOnlyOnClients` |
| `ServiceImplemented` | `CgiSpec => ImplementsService` |
| `PoolCounted` | `CgiSpec => []PoolAccounting` |
| `LeakCounted` | `CgiSpec => []LeaksOnlyWithoutQuery` |
| `PagesBoundCounter` | `TrackerSpec => []CountsOnlyPages` |
| `PagesAreCounted` | `TrackerSpec => []CountsEveryPage` |
| `LaunchTyped` | `LaunchSpec => []LaunchTypeOK` |
| `LockKept` | `LaunchSpec => []LockWhileDaemon` |
| `OneDaemon` | `LaunchSpec => []AtMostOneDaemon` |
| `PidFileNames` | `LaunchSpec => []PidFileNamesDaemon` |
| `OverrideReachable` | `LaunchSpec => []OverrideStaysReachable` |
| `RefusedByDaemon` | `LaunchSpec => RefusedOnlyByDaemon` |
| `StartupTyped` | `StartupSpec => []StartupTypeOK` |
| `PidFileRead` | `StartupSpec => []PidFileReadsBack` |
| `LaunchImplemented` | `StartupSpec => ImplementsLaunch`, if `LeavesSearchable` |
| `VisitorsTyped` | `VisitorsSpec => []VisitorsTypeOK` |
| `EmptyIdReplaced` | `VisitorsSpec => []EmptyIdOnlyOnce` |
| `IdentityIsKept` | `VisitorsSpec => IdentityKept` |
| `HistoryTyped` | `HistorySpec => []HistoryTypeOK` |
| `NothingInvented` | `HistorySpec => []NeverInvented` |
| `NothingLost` | `HistorySpec => []AloneNothingLost` |
| `UrlParserTyped` | `UrlParserSpec => []UrlParserTypeOK` |
| `ParamsFollow` | `UrlParserSpec => []ParamsFollowSeparators` |
| `FormsAreRead` | `UrlParserSpec => []FormRoundTrip` |

*Statistics.* The type invariant needs that the rates are ints whatever they are
computed from: `AsIntRange`, `AsULongRange` and `RateRange` reduce that to one
fact about `%` and one about `\div`, and to the guard that the interval is not
0 and stays so under conversion (this is why `TypeInv` says that a thread at
`count` or `current` has a non-zero `elapsed`). `NeverOvercounts` is not
inductive: a thread that has loaded the counter will store its value plus one,
and by then `served` must have grown. `CountsBounded` adds that what any thread
has loaded is at most `served`; the store adds one to both sides.
`AverageNotOverstated` follows from it with the monotonicity of `\div`. What holds
without races rests on `AloneInv`: as long as no two calls have overlapped, one
thread at a time is inside one (`OneAtATime`), so the counter and what that
thread has loaded of it are `served` (`CounterExact`), the baseline is that of
the last page (`BaselineExact`), the time of the last access is in the static or
still in the one thread that will stamp it (`AccessKept`), and the rates in its
frame are those of values that have not changed since (`FiguresKept`).
`FiguresExact` has a hypothesis on the widths, that an unsigned long holds the
product of two ints; the build's have 64 and 32 bits, the `Statistics` run has 24
and 3.

*CgiService.* `Inv` is the conjunction of the type invariant, `ReadBeforeWork`,
`OneWorkerPerConnection`, `AnswerPrepared` and `AwayUnsent`. In `ReadBeforeWork`
the mutex and the reading need each other: a thread holds a connection whose
parameters are not in only inside accept, i.e. with the mutex. From it
`StallsOnlyOnClients` follows: a thread that waits for the mutex waits for one
that is inside accept, and that one can move unless its client keeps it.
Exclusiveness needs the queue to have no repetitions and to be disjoint from
what threads hold (proved through `TailOfQueue`, `AppendToQueue`), and that a
client that has not connected was sent nothing (`AwayUnsent`), or else `Connect`
could queue an answered connection. The refinement needs in addition that a
thread about to reply has the answer that is due (`AnswerPrepared`), and that
fewer connections than threads are held when one more is taken (`RoomForOne`: an
injection from held connections to threads that misses the taking one). Each
of `InvNext`'s parts has one step per action. `PoolAccounting` and
`LeaksOnlyWithoutQuery` equate a counter with the cardinality of a set: every
action leaves both alone or adds one to the counter and one member to the set,
and that the member is new is what `Inv` gives.

*Tracker.* Each step of the running service is a step of `CgiService` or leaves
its variables alone (`StepOfService`), and likewise for `Statistics`
(`StepOfStatistics`); this only makes the invariants of both available. The
counting theorems join the components. `CountsServed` says that the calls of
`Process` that have counted are exactly the requests with a page sent, with one
to be sent, or with a thread that formats it. It needs that a thread inside
`Process` or `Status` is at the corresponding point of `ProcessRequest`
(`AtWork`), so that it keeps its request whatever the others do (`InsideStays`);
that a connection is worked on once, from `CgiService`'s invariant, makes the
request of a thread that stores a new member (`ServedStep`). An exception ends
the process and changes neither side. `CountBounded` and `CountAlone` relate the
counter to these calls.

*Launch.* `Inv` has two independent halves. For races, as long as no launch has
failed: a launch between the scan and the removal is the only one past the scan
and no daemon holds a lock (`AloneAtRemove`), and whoever still goes by a lock
file that has been removed meanwhile will find the remover alive
(`RemoverThere`); so a lock that is held is there (`LockHeld`). A failed launcher
breaks `RemoverThere`, which is why the property leaves failures out. For
launches one after another, failures and kills included: two are never under way
(`InTurn`); while a daemon runs its lock file is there and every other launch is
before or in the scan (`OneRuns`), where it finds the daemon; and the lock file
is there before the fork (`LockBeforeFork`). From these the pid file and the
socket of the daemon stay (`PidWritten`, `OverrideStaysReachable`).
`RefusedByDaemon` is an action property: the refused launch is itself under way,
so what it has found is settled, and a settled launch that runs is a daemon that
serves. TLC found the invariant to hold on the instance of the `Launch` run
before it was proved.

*Startup.* `Inv` adds to the types that launches follow one another (`Follows`,
`ForkedLast`, `StepKept`) and, because the pid file is not truncated, that its
text is never longer than some daemon's (`TextBounded`) and begins with the
latest one's (`TextKept`). The refinement is a step simulation: what the kernel's
rule does or refuses over the files is one of the outcomes that `Launch` leaves
open. It needs one more fact. `StatLock` takes a lock file that `stat` cannot see
for one that is not there, so a launch between its checks and that look must be
able to search the directory (`Searches`). The checks see to it, unless the
administrator takes the right away at that moment: then the launch overlooks the
lock of a live daemon, and TLC shows the refinement to fail. `LeavesSearchable`,
the hypothesis of `LaunchImplemented`, says that the modes an administrator may
give the directory let everybody search it; the run's mode `m755` does.

*Visitors.* Of a browser without overlapping visits one page at most is open
(`Alone`). Its request shows the cookies that were alive when it was sent, and
every one that still is (`HeaderKept`); so, if no other cookie comes first, the
answer carries the id of the service's cookie (`AnswerKept`), and is not empty
twice in a row, because a cookie with an empty value is replaced
(`BlankReplaced`). Stating this showed that the exemption of foreign cookies has
to look at the request and not at the jar at the time of the answer: with a
foreign cookie that expires in between TLC refuted the earlier wording.

*VisitorHistory.* An item is OK with respect to a set of visits if all it says
was left by one of them or brought along (`ItemOK`). The storage is OK with the
visits that have saved the item, the memory of a script that has only loaded
likewise, the memory of a script that saves with those visits and its own. Other
scripts may write between its load and its save; that does no harm because the
set of visits that have saved an item only grows and being OK is monotone in it
(`StillOK`). That hits are not counted twice needs that no two scripts save the
same visit (`OwnVisits`). The queue stays within its size and free of repetitions
(`AddToQueueOK`, `RemoveFromQueueOK`), whatever visits came.

`NothingLost` asks for equality where `ItemOK` asks for an origin. `ItemIs` says
what exactly a set of visits leaves in an item. `AloneInv` says it, while scripts
have run one after another, of the storage with the visits that have saved the
item, of the memory with the same visits as far as it has been loaded, and of the
memory of a script that saves with its own visit besides. It has to know how far
each script has come: one that ends while it saves has saved some items and not
others, so each item has its own set of visits. Of the queue a count is kept
(`QueueFits`): an offer that has fallen out of it leaves as many others known as
the queue is long.

*UrlParser.* `ParamsFollowSeparators` speaks of a parser that has returned.
`LoopInv` says what it has done before. Between two fields it stands on the end
of one, and the parameters are those of the separators behind it; in a field it
has the name in front of the separator; in `percent_decode` it has written the
bytes of the places it has passed, and at most one escape is open (`Taken`,
`Finished`). The step that matters is the one from the end of a value to the
next field: the search for `=` starts behind that end, so the separators are
visited in order and none is left out. `FormsAreRead` follows from it and from
`FormInv`, the layout of a form's text, which `AddField` keeps: its separators are
the `=` behind the names, names and escaped values having none (`FormSeparators`,
`FormName`, `FormValue`); each value has complete escapes only, and of all values
just the one that was escaped has the bytes of their places (`EscapedValueIs`).
TLC found `LoopInv` to hold on the instance of the `UrlParser` run before it was
proved.

`AtoI`, `EnterIds` and the library's `FlattenSeq` are recursive functions. What
they compute is not proved for all inputs, but what they preserve
is: the set of places where it fails has a least member if it has any (`WFMin`,
`NatLessThanWellFounded`), and the step to that place is one application of the
definition. This takes the place of the induction theorems, which take an
operator.

Only model-checked: everything temporal under fairness (`EveryRequestAnswered`,
`LauncherReturns`, `SuccessLeadsToService`, `ParserReturns`), which is beyond the
prover, and that the statistics never deadlock, which is about `ENABLED`.

## 5. Plan

Done in this order: statistics, service with its abstract specification,
composition, launch, parser; proofs about statistics and service; then startup
over files and its refinement of launch, visitor identity, visitor history;
proofs about launch; then the counting properties and the figures,
startup's refinement of launch, identity and history of visitors; then the
exactness of the history and the parser; last the body that is read outside the
mutex, the exceptions that end the process, and the steps between a thread's
increment and its page. Every
invariant and action property that a run checks is now a theorem as well, except
in the runs whose purpose is a violation.

What is left: `percent_decode` on incomplete escapes waits for a word in the
repository on what it should do, and the hazards of section 6 are of a kind
(wording, memory, C++ streams) that the modules leave out.

## 6. Not modelled

* Third-party and unused code: `Cookie.cpp`, `base64.cpp`, `UrlParser::mainParse`,
  build files, `error.html`.
* The log (`Log.cpp`): output only, on which no state depends. Lines of several
  threads mix in its unlocked buffer, and the SIGHUP handler logs from within
  whatever it interrupts; both are listed as hazards.
* Sticky directories, supplementary groups and other umasks in `Startup`; the
  configuration there names its three files in one directory, and elements that
  are missing inside `templates` are not among the layouts.
* The local storage as other scripts may leave it: the items are what this
  script writes, or an earlier version of it.
* The wording of pages, headers and log lines; hence that the 503 answer lacks
  the empty line after its headers, and the time in the `Expires` attribute.
* Memory: stack size of the threads, the 1 GiB buffers of `Log`.
* Connections that the web server keeps open for several requests: `FCGX_Finish_r`
  ends the connection in the model. Process ids that have wrapped around, in
  the scan of `/proc`.
