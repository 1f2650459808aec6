# A TLA+ verification of the OpenTelemetry C++ APM demo

The repository traces two C++ servers without touching their code: a shared
library that is loaded with `LD_PRELOAD` replaces `accept`, `read`, `write` and
`close` and makes OpenTelemetry spans of what goes through them. The hard part
is small and concurrent: hooks that run in every thread of a program that knows
nothing of them, state keyed by descriptor numbers that the kernel reuses,
initialisation inside the dynamic linker, a signal handler, HTTP parsed out of
arbitrary pieces of a stream, and a lock-free queue between the hooks and the
export. This project models that part, together with the code of the vendored
OpenTelemetry headers that the libraries run.

## 1. Inventory

| Component | State | Operations | Interacts with |
|---|---|---|---|
| Preload tracer, hooks (`roll-dice/preload_tracer.cpp`) | `fd_span_map` under `fd_span_mutex`, `tracer`, the spans | `accept`, `read`, `write`, `close`, `end_span_for_fd`, `sigint_handler`, `preload_cleanup` | every thread of the server; the kernel's descriptor table; its own `write` through `preload_log` |
| Preload tracer, loading | `otel_initialized`, `provider`, `tracer`, the construction of the globals | `preload_init` (101), `setup_signal_handler` (102), initialisers, `init_tracer_lazy` | the dynamic linker, environment variables |
| Preload tracer, HTTP parsing | none (pure), fed by one `read` or `write` call | `parse_request_line`, `parse_request_headers`, `HeaderCarrier::Get`, the SDK's `HttpTraceContext::Extract`, `parse_response_status` | the stream of a connection |
| Span queue (`sdk/common/circular_buffer.h`, `circular_buffer_range.h`, `atomic_unique_ptr.h`) | `head_`, `tail_`, the slots | `Add`, `Consume`, `size`, `PeekImpl` | every thread that ends a span, one consumer |
| Batching, export and exit (`preload_tracer.cpp`, `batch_span_processor.h`) | the queue, the worker, `fd_span_mutex`, the globals being destroyed | `End`, the worker's rounds, `ForceFlush`, `sigint_handler`, `std::exit` | the hooks, the collector or APM server |
| Dice server (`roll-dice/main.cpp`) | none of its own; `rand` | six handlers and a router | Oat++, one thread per connection |
| ADS server (`ads_server.cpp`) | `client_socket`, one detached thread per connection | accept loop, `handle_client` | the ADS preload library, clients |
| ADS preload library (`libotel_preload.cpp`) | `otel_initialized`, `tracer`, the simple processor's spin lock | `accept`, `read`, `init_tracing_lazy` | the collector, synchronously |
| ADS client (`ads_client.cpp`) | a socket | connect, send, read, close | the ADS server |
| Docker ADS preload library | a span table nobody uses | one-shot initialisation and shutdown | not loaded: the Dockerfile lines are commented out |
| Elasticsearch, run and set-up scripts, images, collector configuration | outside the repository | | |

What is hard, and what must hold:

* **Descriptor numbers are reused.** A span filed under a number must be the
  span of the connection that has the number open now, and must not survive it.
* **Requests follow one another on a connection**, responses take several
  calls, and some go out by calls that are not hooked. A span must carry the
  status of its own response only and must not be touched after it has ended.
* **A signal can interrupt a thread anywhere**, and the handler calls the hooks.
* **The library runs before its own globals are initialised**, and its lazy
  initialisation is not synchronised.
* **`read` returns any piece of the stream.** A cut must not make a span say
  something the client did not send.
* **Spans pass through a lock-free queue**, in which a span is put into a slot
  before it is published and room is announced before it is empty. None may be
  lost, doubled or handed over unpublished, and nobody may wait for the
  collector.
* **`exit()` runs while the other threads go on** using the globals it destroys,
  on a thread that was interrupted in the middle of something. What was queued
  must be exported first.
* **The ADS library exports inside `accept` and `read`.** A dead collector must
  not stop the server, nor a killed client cost it a descriptor.

`PROJECT.json` lists these as hazards, each at its line.

## 2. Modules

### PreloadTracer

The four hooks and the SIGINT handler in a loaded library. A connection stands
for the thread that serves it (`ads_server.cpp:37`; Oat++'s
`HttpConnectionHandler`, `main.cpp:99`).

| Code | Model |
|---|---|
| `fd_span_map`, `fd_span_mutex`, `tracer` | variables of those names; the mutex by its holder |
| `accept` | `Accept`: one step, since the span it makes is local to the call |
| `read` with a request line | `ReadRequest` (span started, no lock), `ReadLock`, `ReadStore` (the assignment drops the old span, whose destructor ends it) |
| the program's response | `Respond`: `write()`, which is hooked, or `send()`, which is not; fixed for an execution |
| `write` | `WriteLock`, `WriteEnd` (status, `End`, `erase`) |
| `close` | `CloseCall`, `CloseLock`, `CloseEnd`, `CloseReal` |
| `sigint_handler`, `std::exit`, `preload_cleanup` | `Sigint`, then six times `HandlerLock`, `HandlerUnlock`, then `Exit` |
| `std::stol(server_port)` throwing | `Accept` with `server_port = "other"`: the process terminates |

`kernel` is the descriptor table: `Accept` may take any number that is free, so
reuse happens as soon as there are more connections than numbers. `answer` is a
history variable, the status of the first response of a request. Calls that
change nothing (errors, reads without a request line, hooks without a tracer)
are stuttering steps. `Init` is what `LibraryLoad` ends in when the SDK uses the
standard library's `shared_ptr`: initialisation is over, and the tracer is
there or not.

What the handler flushes is left to `SpanExport`: here `ForceFlush` returns.

### RequestSpans

What the hooks promise, without descriptors, map, mutex and signal: a request
gets a span of its own when it is read, and the span is ended once, in one step,
on one of three occasions (`Occasion`): its request has been answered by a call
that the library sees, its connection is being closed, or the next request has
come although no answer was seen. What it reports is `Reported`, the status of
the first response to that very request, and nothing in the other cases; a
connection is not closed before its spans are ended. `PreloadTracer`'s
`IsRequestSpans` instantiates it: `phase` is read off `pc` (`PhaseOf`), `asked`
is `nreq`, `seen` says whether the program answers by `write()`, and the rest is
taken as it is.

### LibraryLoad

The loading thread runs constructor 101, constructor 102, the default-priority
initialisers and `main`, after which other threads may start and call hooks.
`preload_init`'s log is two calls of the hooked `write`, and so the first call
of `init_tracer_lazy`. `StlBuild` says which `nostd::shared_ptr` the SDK has:
with `std::shared_ptr` the globals are constant-initialised and testing a zero
one is harmless; with the SDK's own class, which the repository's headers
select, testing or assigning it is a virtual call through a zero pointer.
`TestTracer` is the test of `tracer` in the hooked `write` only: what constructor
101 does next there, `fd_span_map.find` on a `std::map` not yet constructed
(preload_tracer.cpp:264-265), is undefined too, but finds nothing in memory that
is zero and changes none of the variables here.

### HttpParsing

Text is a sequence of symbols. `ClientSend` appends a request to the stream of
the connection and remembers where it starts (`start`, a history variable), and
`Read(n)` hands the next `n` symbols to the hook's code, for every `n`.
"HTTP/1." and "HTTP/2" are two symbols each, "HTTP/" and "1." or "2", and the
parts of a traceparent have symbols of their own, so that a cut may fall inside
them; the hook's test finds either version anywhere in the data (`HasVersion`).
`parse_request_headers` is a loop over lines; the model names a line by where it
begins (`LineBegins`), so that the headers are the set of those before the empty
line that have a colon (`Headers`), and of equal keys the last one stays in the
map. The parent of a span is what the SDK's propagator makes of the header:
`StringUtil::Trim`, `SplitString` at the dashes, the sizes of the four fields,
hexadecimal digits of either case and their values (`HexToBinary`), the version
that is never valid and the identifiers that are zero (`http_trace_context.h`,
`string_util.h`, `detail/string.h`, `detail/hex.h`). The version and the span id
are one symbol, the trace id and the flags two, which makes a traceparent of
version 00 nine symbols long (`kTraceParentSize`, 55 characters in the code).
`Write` hands a response head, or something else, to `parse_response_status`
with every length `write()` may return; a response is the number of its extra
spaces and its digits.

`RequestAssumption` is what is taken for granted of a request: no white space in
method and target, no "HTTP/" in the method, a target that begins with a slash,
and a version of 1 or 2. The target may contain anything else, versions
included. `HeaderAssumption` says that header lines end in CR LF and are not
empty, and nothing more: any number of traceparents, of any length, valid or
not.

The properties define a traceparent without splitting anything (`IsTraceparent`,
`ParentIn`), with the hexadecimal digits as a parameter: the W3C recommendation
allows `LowerHex` only, the SDK takes `Hex`.

### BoundedQueue and SpanQueue

`BoundedQueue` is what the batch processor needs of its queue: `Put` appends a
span if there is room, `Remove(k)` hands over the first `k` in one step, and
`Refuse` drops a span when the queue is full, or when something was removed
during the call.

`SpanQueue` is the `CircularBuffer` of the headers, with one step per access to
an atomic:

| Code | Model |
|---|---|
| `head_`, `tail_`, `data_` | variables of those names; slots hold a span or `Null` |
| `Add` | `CallAdd`, `ReadTail`, `ReadHead` or `Refuse`, `SwapIfNull` or `SwapFails`, `Publish` or `PublishFails`, `Undo` |
| `compare_exchange_weak` | the failing action has no guard on the values: a weak exchange may fail although they agree |
| `Consume(n, callback)` | `CallConsume`, `Peek` (`PeekImpl().Take(n)`), `Advance`, one `Take` per slot, `ReturnConsume` |
| `PeekImpl`, `CircularBufferRange` | `PeekSlot`, `PeekSize`: one or two stretches of the array |

`added` and `taken` are history variables (spans accepted and handed over, in
order), and `overtaken` and `wasFull` remember what happened during a call. A
producer's locals are reset when its call returns. The counters are naturals:
a `uint64_t` that grows by one per span does not wrap.

### SpanExport

`SpanQueue` composed with the hooks that fill it, the worker that empties it and
the exit path. `Main` ends spans in `accept`, where no lock is held; the other
threads inside `fd_span_mutex`, so one that waits in `Add` keeps the mutex.
`Sigint` may interrupt any thread, the worker included, at any step: the thread
stands still from then on, and `exit` counts through what runs in its place,
the handler's log and flush, those of `preload_cleanup`, the destructor of
`fd_span_map` (which ends the spans left in it) and that of the provider.
Threads go on meanwhile; one that uses a destroyed global may crash
(`UseDestroyed`) or get away with it. Of `BatchSpanProcessor` the repository has
the declarations only: the worker's rounds and `ForceFlush` are modelled from
them and from their use, and marked external in the map.

### AdsDemo

The ADS server's accept loop and its threads, with the two hooks in them, and
the clients. Descriptors are numbers and `accept` gives the lowest free one. A
hook's `End()` is two steps, because `SimpleSpanProcessor::OnEnd` exports under
a spin lock that all the threads share: taking the lock (`SpinLock`), and the
export's answer or deadline (`Exported`). The collector may be down from the
start or stop later; what it has got (`spans`) is kept while it is up, and a
thread's argument (`sock`) while the thread runs. A client may fail to connect
(`ConnectFails`, the early returns of the Docker variant), and may be killed at
any time after it has connected.

When no descriptor is free, `accept` fails, whether or not a client waits
(`AcceptFails`): the hook makes no span, and the loop, which does not look at the
result, starts a thread on -1 and calls `accept` again (`SpawnOnNone`). Such a
thread has no steps, because all its calls fail. That `std::thread` throws when
there are too many of them is not modelled: how many the system allows is not
the program's.

### DiceServer

The handlers of `main.cpp`, each an action (`RolldiceSlow` and `SlowRoll` for
the one that sleeps), in one thread per connection, which Oat++ provides. A
parameter is a sequence of characters that `Stoi` converts as `std::stoi` does
(leading number, zeros in front ignored, or an exception the handlers swallow);
the model's requests carry beside each text the number it spells, which the
properties use and the handlers do not (`RequestAssumption` ties the two
together by `Stoi`). `rand()` returns any member of `Rand`. `Tick` is a second,
and a sleep may last longer than it was asked to.

## 3. Runs

| Run | Instance | Shows |
|---|---|---|
| `keep_alive` | 2 connections, 2 descriptors, 2 requests each, responses of up to 2 calls, codes 200 and 400 | `MapTracksOpenConnection`, `NoSpanOutlivesConnection`, `StatusIsOwnResponse`, `EndedIsFinal`, `IsRequestSpans`, `TypeOK` |
| `span_liveness` | 2 connections, 2 descriptors, 1 request each, fair | `SpanEventuallyEnds`, `CtrlCExitsUnlessHolding` |
| `ctrl_c` | 2 connections, fair | **violation** of `CtrlCExits` |
| `span_lifecycle` | 1 connection, 2 requests | **violation** of `EndsOnWriteOrClose` |
| `load_stl` | 3 threads, STL build | `TracingAsConfigured`, `InitIsSingleThreaded`, `TracerIsSettled`, `LoadCompletes`, `TypeOK` |
| `load_order` | 1 thread, SDK's own `shared_ptr` | **violation** of `NoUseBeforeConstruction` |
| `http_parsing` | streams of 1 or 2 of 7 requests, cut anywhere; 5 responses, every length | `LineAsSent`, `RestStartsNone`, `ParentAsSent`, `WholeHeadTraced`, `StatusIsSent` |
| `dice` | 2 connections, 34 requests around the bounds of the parameters | `RollsAsAsked`, `SlowTakesItsTime` |
| `ads` | 3 clients, 2 descriptors, backlog 1, fair | `OwnEcho`, `CompleteTrace`, `ExportsOneAtATime`, `ClientAnswered`, `DescriptorsReturned`, `TypeOK` |
| `span_queue` | 2 producers, 3 spans each, room for 2 | `Delivery`, `Bounded`, `OneOwner`, `IsBoundedQueue`, `TypeOK` |
| `queue_full` | 2 producers, 2 spans each, room for 2 | **violation** of `RefusedOnlyWhenFull` |
| `export_exit` | the accepting thread, one serving thread, room for 2 spans, batches of 1, SIGINT on any thread, fair | `FlushedBeforeExit`, `EndNeverWaits`, `ExitUnlessStuck`, `ExportTypeOK` |

### Bounds

`MaxReads` (requests per connection) and `MaxReplies` (response calls per
request): two are enough to have a span overwritten, a second write find
nothing, and a status meet the wrong request, if it could. A second connection
may get the number of one that is still open, has just been closed or is being
closed. In `span_liveness` a connection has one request: that a span which is
overwritten ends there and then is `keep_alive`'s matter (`IsRequestSpans`), and
what has to be shown of the last one is that `write` or `close` comes to it.
SIGINT is delivered once. `MaxRequests` bounds a parsed stream: what a
read makes of its bytes depends on the request it starts in and on what
follows, so two requests have every case. Among the seven are a target that
contains "HTTP/2", upper-case digits, a traceparent that is valid only when it is
cut, two traceparents in one head, and a body that looks like a request.

`MaxSize` (2) makes an array of three slots, and with `MaxAdds` (3) two
producers go twice around it: the range that wraps, a full buffer, a slot that
is announced but not yet empty, and a publication that fails because another
one has come first all occur. In `SpanExport`, `MaxEnds` bounds the spans of a
serving thread and of the destructor of the map, and `BatchSize` is below
`MaxSize`, so that a round may leave spans for the next one and a flush takes
more than a batch.

`MaxElapsed` counts seconds of sleep up to the longest delay in the requests,
and a connection of `DiceServer` has one request, as the handlers keep nothing
from one to the next. `Backlog` stands for the 5 of `listen`; what matters is
that it can be full. With three clients over two descriptors, two threads run
beside the accepting one, `accept` fails while both are busy, and a third client
waits for one of them in the backlog. The theorems below remove the bounds for
all the safety properties and refinements.

Deadlock checking is off where the system may stop: all the connections have
been served, all the spans have been added, the process has exited, the stream
is over. In `LibraryLoad` the program's threads go on for ever and it is on,
except in the run that crashes.

Symmetry is used in safety runs only.

### Fairness

`PreloadTracer`: weak fairness of the steps inside a hook (threads are
scheduled), of `CloseCall` (a server closes what it has accepted;
`handle_client` ends in `close`, and Oat++ closes idle or finished connections),
and of the handler. Taking the mutex is weakly fair only, which suffices because
connections are finite. No client has to send a request. `LibraryLoad`: the
loading thread runs. `AdsDemo`: threads run, an export ends by an answer or its
deadline, a connected client sends and reads. The main thread's fairness is that
of the whole loop, whose steps include failing `accept`s: the loop that starts
threads on -1 may go round any number of times, and does not keep the serving
threads from running. `DiceServer` has no liveness property and no fairness.
`SpanExport`: threads run, and the two weak exchanges of `Add`
are strongly fair, since the hardware's spurious failures do not go on for ever.
The worker finishes a `Consume` it has begun and answers a flush, but need not
start a round otherwise, and the exporter need not return: that is what
`EndNeverWaits` is about. `ExitUnlessStuck` adds that it does, as it must.

## 4. Proofs

`PreloadTracerProofs` and `PreloadStatusProofs` prove, for all sets of
connections and descriptors, all codes in 0..999 and all `MaxReads` and
`MaxReplies`:

| Theorem | Statement |
|---|---|
| `TypeCorrect` | `Spec => []TypeOK` |
| `MapIsSafe` | `Spec => []MapTracksOpenConnection` |
| `NoSpanLeaks` | `Spec => []NoSpanOutlivesConnection` |
| `EndedSpansAreFinal` | `Spec => EndedIsFinal` |
| `StatusIsFaithful` | `Spec => []StatusIsOwnResponse` |
| `SpansRefine` | `Spec => IsRequestSpans` |

The assumptions are `BoundsAssumption` (the bounds are naturals),
`NoneAssumption` (the "none" values are not members of the sets they complement)
and `CodeAssumption` (what `parse_response_status` accepts).

Why the map is right is not visible in the map alone, so the invariant `IInv`
of the first module ties it to the threads:

* `LockInv`: the holder of the mutex is in the critical section that its `pc`
  says, and nobody else is (the second conjunct of `TypeOK`, which makes the type
  invariant more than types); the handler holds it only with a log write to finish;
* `SockInv`: a thread in a hook has its descriptor open in `kernel`, and no two
  threads share a number;
* `MapInv`: an entry is a live span of the connection that has the number open,
  an earlier one while that connection is in `read`, and there is none once
  `CloseEnd` has passed;
* `LiveInv`, `FlightInv`, `FreshInv`: a live span is in the map or in the hands
  of a `read` on its way to the lock; spans of requests to come do not exist
  yet.

The key step is `CloseReal`: it frees a number only after `CloseEnd` has erased
the entry, and only the thread that owns the number could have put another one
there. `StatusInv` of the second module adds what a span and the history say of
each other in each phase of a request (not yet answered, a write under way,
answered, overwritten), from which `StatusIsOwnResponse` follows;
`EndedIsFinal` follows from `IInv` alone, as only entries of the map are
touched and those are live.

`SpansRefine` has one lemma per kind of step. `Accept`, `ReadRequest`, `Respond`,
`CloseCall` and `CloseReal` are the steps of the same meaning in `RequestSpans`;
taking and releasing the mutex, SIGINT and the handler change nothing that is
visible. The three places where a span ends (`ReadStore`, `WriteEnd`, `CloseEnd`)
share `EndRefines`: what the thread finds under its descriptor is a span of its
own connection (`MapInv`), it is live, so it was never ended before, and after
the step it reports what `ReportInv` of the next state says. What is left for
each of the three is its occasion: a `write` that finds a span is the first
response to its request (`OpenInv`, `UnreadInv`), and a `read` that finds one has
not seen a response to it.

`SpanQueueProofs` proves, for every set of producers, every size and every
number of spans:

| Theorem | Statement |
|---|---|
| `QueueTypeCorrect` | `Spec => []TypeOK` |
| `DeliveryHolds` | `Spec => []Delivery` |
| `BoundedHolds` | `Spec => []Bounded` |
| `OneOwnerHolds` | `Spec => []OneOwner` |
| `QueueRefinement` | `Spec => IsBoundedQueue` |

The only assumption is `QueueAssumption` (there is room for a span, and `Null`
is not one). The inductive invariant has these parts, besides the type:

* `CountInv`: `tail_ <= head_ <= tail_ + MaxSize`, and `head_` counts the spans
  accepted;
* `LocalInv`: what a producer has read is not ahead of the buffer, so a stale
  `tail` makes the buffer look fuller than it is and never emptier;
* `OwnInv`: a producer owns its span until the swap, and between swap and
  publication the span is in its slot and nowhere else;
* `AddedInv`: a producer has had only spans of earlier calls accepted, each once;
* `QueuedInv`: the slots of positions `tail_` to `head_ - 1` hold the spans
  accepted at those positions;
* `ConsumeInv`, `TakenInv`: the slots `Consume` still has to empty hold the spans
  that follow those handed over;
* `CleanInv`: every other slot is null or holds the span of a producer between
  its swap and its publication or undoing.

`OwnInv` is why `Publish` is right: a successful exchange of `head_` means that
nobody has published since the producer read it, so the position is the one
after the last, and its slot still holds the producer's span, because others
swap into empty slots only and the consumer does not reach beyond `head_`.
Positions are turned into slots by `%`, but that different positions have
different slots is not argued with remainders: they hold different spans
(`QueuedInv` with `AddedInv`). Only what `PeekImpl` makes of `tail_` needs
arithmetic (`PeekIsRight` and the lemmas on `%` before it).

For the refinement, `QueuedInv`, `ConsumeInv` and `TakenInv` say that the mapped
`queue` is the last `head_ - tail_` of `added` and the mapped `removed` the first
`tail_`. A step that changes neither counter nor history is a stutter, whatever
it does to the slots; `Publish` is `Put`; `Advance` is `Remove`. `Refuse` needs
`overtaken`: if `tail_` has not been advanced during the call, the `tail` that
`Add` read is the present one and the queue is full.

`SpanExportProofs` proves `NothingQueuedIsLost`, `ExportSpec =>
[]FlushedBeforeExit`, from `QueueAssumption` and `ExportAssumption`, for any
threads, spans, queue and batch sizes. Every step of the composition is a step
of the queue or leaves it alone, so the queue's invariant is reused as it stands
(`QueueNextInv`). What is added ties the worker to the flush: between rounds,
all that has been taken out has been exported (`WorkerInv`); a flush is under
way only while the exit path waits for it, and only after `mark` was set
(`ExitInv`); and a round that serves a flush takes out everything up to a
position not before `mark`, in whatever phase of `Consume` it is (`FlushInv`).
From the end of the first flush on, `exported >= mark` stays.

The same module proves `ExportTypeCorrect` (`ExportSpec => []ExportTypeOK`),
`ExportUsesQueue` (`ExportSpec => Spec`: whatever is interrupted, the composition
uses the buffer as `SpanQueue` says) and from it and the theorems of the queue
`ExportQueueRefinement`: `ExportSpec` implies `IsBoundedQueue`, `[]Delivery`,
`[]Bounded` and `[]OneOwner`. So the queue's properties hold while threads stand
still in the middle of `Add`, not only when all of them run.

`LibraryLoadProofs` proves, from `LoadAssumption` and for any number of threads:

| Theorem | Statement |
|---|---|
| `LoadTypeCorrect` | `Spec => []TypeOK`; a tracer is there only with its provider |
| `NoInitRace` | `Spec => []InitIsSingleThreaded`, for either `shared_ptr` |
| `TracerSurvivesLoading` | `StlBuild` implies `Spec => []TracingAsConfigured` |
| `TracerSettles` | `StlBuild` implies `Spec => TracerIsSettled` |

The invariant `LoadInv` says that there are no threads before `main`
(`ThreadInv`), that constructor 101's log has raised the flag and finished the
initialisation before the loader goes on (`LoaderInv`, `TestedInv`), and what
`tracer` is at each point of it (`TracerInv`). So the unsynchronised flag is safe
only because a constructor happens to log: without that line the first hooks of
two threads could race.

`AdsDemoProofs` proves `AdsTypeCorrect`, `EchoIsOwn` (`Spec => []OwnEcho`) and
`TraceIsComplete` (`Spec => []CompleteTrace`) from `AdsAssumption`, for any
clients, descriptors and backlog. `AdsInv` follows a connection: it is once in
the backlog (`BacklogInv`), then open on one descriptor, which the main thread
holds or one serving thread has a copy of (`SockInv`, `KernelInv`), unless the
main thread has -1 from an `accept` that failed; that thread has read nothing
but its client's message (`EchoInv`); and how many spans the collector has
follows from where the connection is (`SpanInv`), given that nothing is accepted
before the tracer is there or known to be missing (`LazyInv`, `QuietInv`).
`ExportsDoNotOverlap` (`Spec => []ExportsOneAtATime`) adds `LockInv`: the lock
names exactly the thread that is in `Export`.

`HttpParsingProofs` proves, for any requests and responses that satisfy
`RequestAssumption`, `HeaderAssumption` and `ResponseAssumption` (a response has
spaces, then digits), any number of them and any cuts:

| Theorem | Statement |
|---|---|
| `RequestLineAsSent` | `Spec => []LineAsSent` |
| `RestOfLineStartsNone` | `Spec => []RestStartsNone` |
| `ParentIsAsSent` | `Spec => []ParentAsSent` |
| `WholeHeadIsTraced` | `Spec => []WholeHeadTraced` |
| `ExtractionAgainstStandard` | of every text: a traceparent of the standard is accepted and taken as it is; what else is accepted has upper-case digits and is a traceparent otherwise |
| `StatusAsSent` | `Spec => []StatusIsSent` |

The invariant `StreamInv` says that every request stands in the stream from its
`start` on and that no read goes past the end, so the bytes of a read that
begins with a request are that request's as far as it goes. The rest is about
one read's data (`RequestRead`): a version is found in it exactly if the read
goes to the end of the request line or the part of the target it has contains
one (`VersionFound`), the line that is cut off at CR LF still has all that was
read of it (`LineKept`), and the stream's words are what is there of the method
and of the target (`LineParsed`). A read that begins inside the method is one of
a request with a shorter method (`RestIsRequest`). One that begins behind it
(`RestRead`) finds a target or a version where a method should be and no word
with a slash after it. `DigitsAreSent` does the same for `strtol`. What `find`
and the search for the first character of a kind return is proved first, from
the least-number principle.

`ReadInv`, the inductive invariant, has `StreamInv` and the four properties of a
read. For the parent there are four steps:

* `HeadRead`: behind the first CR LF of the data stand the request's header lines
  and the empty one, as far as the read goes (`IsHead`);
* `NamedIs`: a line that `parse_request_headers` takes for a traceparent is one
  that was sent, also when it is cut (`CutLine`), and nothing behind the empty
  line is looked at (`HeadEnds`), so a body that looks like a header is none; if
  the head is whole the traceparent is found;
* `ValueIs`, `CutValue`: once the white space around it is gone, the value of a
  cut line is the beginning of the one that was sent, even if the cut falls
  between CR and LF and the CR is still there;
* `ExtractionIs`: dashes are counted (`Rank`), the k-th field lies between two of
  them (`FieldsAre`), and fields of the right sizes have the dashes where a
  traceparent has them (`SizesGiveLayout`, `TraceparentHasLayout`).

The beginning of a value is no traceparent, or it is long enough to have all of
the identifiers and flags, so that it names what the first nine symbols of the
value name (`CutParentIs`); which of several traceparents a cut leaves as the last
one does not matter for that (`ParentExtracted`). No step is an
induction over the text: lines, fields and trimmed values are described by where
they begin and end.

`DiceServerProofs` proves `EveryRollAsAsked` (`Spec => []RollsAsAsked`) and
`EverySlowRequestSleeps` (`Spec => []SlowTakesItsTime`) from `DiceAssumption` and
`RequestAssumption`, for any connections, requests and random numbers. The
invariant adds to the two properties that a sleeper keeps the dice it was asked
for and that `elapsed + sleep` covers its delay (`SleepInv`).

Model-checked only:

* the liveness properties (`SpanEventuallyEnds`, `CtrlCExitsUnlessHolding`,
  `LoadCompletes`, `ClientAnswered`, `DescriptorsReturned`, `EndNeverWaits`,
  `ExitUnlessStuck`), which need fairness;
* what `Stoi` makes of a text, which would need an induction over its digits:
  `DiceServerProofs` takes the number of a parameter to be what `Stoi` gives
  (`RequestAssumption`), and TLC evaluates that for the texts of the `dice` run,
  whose numbers are written down independently.

## 5. What the runs found

* **Ctrl+C can hang the process** (`ctrl_c`). The handler logs through the
  hooked `write`, which locks `fd_span_mutex`; if the interrupted thread holds
  it, nobody ever releases it. `CtrlCExitsUnlessHolding` shows that among the
  hooks this is the only way in which Ctrl+C fails.
* **The export adds two more ways** (`export_exit`, the disjuncts of `Stuck`). A
  thread interrupted between the two exchanges of `Add` leaves its span in the
  next slot, unpublished; the next thread that ends a span spins in `Add`, and
  it does so inside `fd_span_mutex`, which the handler's log then waits for
  (or the exit path itself spins, when the map's destructor ends a span). So
  the buffer, "lock-free" in the words of `circular_buffer.h:24`, is not: one
  producer that stands still stops the others. And if SIGINT is delivered to
  the batch processor's worker, `flush_spans` waits for the thread it runs on.
  `ExitUnlessStuck` shows that there is no fourth way: from some point on, the
  process either has exited or stays in one of the three.
* **A span may be dropped although the queue is not full** (`queue_full`). `Add`
  reads `tail_` and `head_` one after the other; what happens in between may
  make the difference too large. `BoundedQueue!Refuse` says exactly how far this
  goes: only if the consumer has made room during the call.
* **The global tracer is used before it is constructed** (`load_order`).
  Priority 101 runs before the default initialisers, not after, and with the
  SDK's own `shared_ptr` that is a call through a null pointer.
* **A span may end neither on `write()` nor on `close()`** (`span_lifecycle`),
  against README-roll-dice.md:201.

Beside the runs:

* The comments at preload_tracer.cpp:290 and :299 want to keep iostreams out of
  the constructor. Its `preload_log` calls the hooked `write`, and that
  `init_tracer_lazy`, which prints to `std::cerr` and `std::cout` (:150, :169,
  :171).
* A traceparent of version 00 must be exactly 55 characters long, but a read
  that ends right behind the 55th character of a longer, invalid one makes the
  SDK see a valid header and adopt the parent. Of two traceparents in a request
  the last one counts (preload_tracer.cpp:89), but a read that ends between the
  two takes the first. No line of the repository says what should happen;
  `ParentAsSent` says how far this goes (the identifiers are still ones that the
  client sent in a traceparent), and `WholeHeadTraced` that it does not happen
  when the head comes in one read.
* The SDK accepts traceparents with upper-case digits (`detail/hex.h:26`), which
  the W3C recommendation does not allow; `ExtractionAgainstStandard` shows that
  there is no other difference.
* README-roll-dice.md:201 says that a span starts on the first `read()`. It does
  only when that read reaches as far as the HTTP version
  (preload_tracer.cpp:217); otherwise the request has no span. `LineAsSent`
  states the condition under which it has one.
* `read` looks for "HTTP/1." or "HTTP/2" anywhere in its data. A request whose
  target itself contains one of them, cut behind it, is traced with the path that
  far, and a read that begins inside a method with what is left of it.
  `LineAsSent` states both.
* A read that begins in a body is parsed like any other, and a body that looks
  like a request starts a span. The reads are in the model, but no property
  speaks of them: what such a span should be, nothing says.
* `accept` failing for want of descriptors makes the ADS server start threads on
  -1 in a tight loop (ads_server.cpp:35-38). `ClientAnswered` holds in spite of
  it as long as starting a thread succeeds; `std::thread` may throw, which ends
  the process.
* `std::stol(server_port)` throws if the variable is no number and ends the
  process in the first `accept` (`Accept` with `server_port = "other"`). No
  property says that the process survives, because it does not.
* `exported`, which `FlushedBeforeExit` counts, is what has been handed to the
  exporter: a span whose export fails counts as well, as the processor does not
  keep it.
* README-roll-dice.md:181 says that the query shows in the path, from which
  `parse_request_line` cuts it (preload_tracer.cpp:68-69).
* README-roll-dice.md:201 promises resource attributes from `OTEL_ENV` and
  `OTEL_SERVICE_VERSION`, which `init_tracer_lazy` does not read
  (preload_tracer.cpp:162 keeps the default resource).
* The dice server's help (main.cpp:18) gives `POST /rolldice` an optional body
  `{"sides":6}`; `RolldicePostHandler` looks at no body and rolls six sides.

## 6. Not modelled

Nearly all the lines of the repository are third-party headers under
`otel-cpp/install/include`: protobuf and its generated messages, Abseil, the
semantic conventions, and the metrics, logs and configuration parts of the
OpenTelemetry SDK. They are declarations, constants, generated accessors and
templates that neither preload library calls, and the implementations are
compiled elsewhere. Modelling them would say nothing about this system, so the
share of lines the modules cover stays small. What the libraries do run of
these headers, and the headers contain the code of, is modelled: the circular
buffer, the simple processor and its lock, traceparent extraction, the choice of
`shared_ptr`.

Also left out: the inside of `BatchSpanProcessor` and of the exporters, of which
there are declarations only (`SpanExport` models what they promise and marks it
external); the Docker ADS library (`docker/src/ads_server/libotel_preload.cpp`:
it defines no hook, its functions on spans are stubs that nobody calls, and the
lines that would load it are commented out); scripts, images and configuration,
whose state is outside the repository. Span attributes other than method, path,
parent and status are left out: nothing is decided by them.

## 7. Plan

1. The dice server's handlers composed with the hooks: a span's duration and
   status against the handler's.
