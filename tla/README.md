# Sketchy in TLA+

Sketchy answers one question per HTTP request: how many of the five nearest of
three million reference transactions are labelled fraud?  It does so with an
inverted-file index over quantised vectors and claims that the shortcut costs
no accuracy.  This project models the parts of the program that this claim and
the service around it rest on, checks them with TLC on small instances, and
proves the central claims with TLAPS for every value of their parameters.

Contents: [the system](#the-system), [the modules](#the-modules),
[what the runs check](#what-the-runs-check), [what is proved](#what-is-proved),
[what disagrees](#where-code-and-documents-disagree),
[what is left out](#what-is-not-modelled), [plan](#plan).

## The system

```
client -> haproxy/nginx -> unix socket -> server.handle -> vectorize.Build
                                                        -> ivf.Search -> kernel (C/AVX2, C, or Go)
start:       mcc.Load, ivf.Load, remove and bind the socket path, accept loop
build time:  references.json.gz -> cmd/preprocess (k-means, counting sort) -> index.bin -> ivf.Load
```

| Component | State | Operations | Hard part | What makes it correct |
|---|---|---|---|---|
| Search kernel (`kernel_amd64.c`, `scanrange_fallback.go`, `top5.go`) | running top five with a cached worst entry, probe list, flags of scanned clusters, statistics; all local to a call | choose the nprobe closest clusters, scan them, then scan each other cluster whose box comes as close as the worst entry | early exits, ties broken by id, cached worst, blocks of eight and a remainder, two passes that must not overlap, three builds that must agree | the answer is that of brute force; the list is the exact top five of what was handled at every step |
| Search API (`search.go`, `search_test.go`) | none | clamp nprobe, call the kernel; brute-force reference in the test | nprobe out of range, empty index | same answer for every nprobe |
| Index and loader (`index.go`) | arrays in cluster order, offsets, boxes, ids; read-only after Load | Load | nothing but lengths and the header is checked | what the search needs holds of what it is given |
| Preprocess (`cmd/preprocess`) | assignment, counts, offsets, write positions, output arrays, boxes | assign, prefix sums, place, reset empty boxes, write the file | three loops that must agree; boxes of empty and one-record clusters; file truncated before it is written | every record exactly once, inside its cluster's range and box |
| k-means (`kmeans.go`) | centroids, sums, counts | Train, Assign | empty clusters, fewer records than clusters | none that the answer depends on |
| Server (`server.go`) | per connection: buffer, pending reply; shared: profiler counters; socket file | accept, read, parse, answer, shift the buffer; log averages | arbitrary segmentation, pipelining, buffer limit, clients that disappear, counters updated by many goroutines | one right reply per request, in order |
| Responses (`responses.go`) | eleven constant replies | Init | none | index = number of frauds |
| Life cycle (`cmd/api`, `server.Run`) | socket file, listener, accept queue | start, bind, accept, SIGTERM, kill | stale socket file, requests in flight, no descriptors left | socket file belongs to the live listener; what waits is accepted |
| Profiler (`server.record`) | six shared atomic counters | add one by one, read one by one | goroutines overtake each other between two additions | every multiple logged once, averages near the truth |
| MCC table (`mcc.go`) | risk per code | Load, Get | map order, defaults under the loaded entries | Get returns the file's value or the default |
| Vectorize (`vectorize.go`) | none | scan the JSON, build the vector, date arithmetic | text search for keys, calendar edges | the vector the rules describe |
| Proxies, deployment (`haproxy`, `nginx`, `docker-compose.yml`) | server states | balance, health | `backup` without check | both servers get traffic |

Components interact by calls, except for two places.  The server talks to its
clients through a byte stream, and preprocess talks to the search through a
file.  `Connection` models the first.  Across the second, `WellFormed` is the
contract: `Preprocess` is proved to establish it, `IndexFile` shows that a
server gets an index as it was written or none, and `IvfSearch`, whose answer
is proved exact, assumes it.

`PROJECT.json` lists, under hazards, what in this code is hard to test, each at
its line with the properties that watch it.

## The modules

| Module | Models | Notes |
|---|---|---|
| `Metric` | distances, early exit, 32-bit vector lanes, box bound | operators only |
| `TopFive` | `Top5` / `sketchy_top5_t` and its operations | operators only |
| `IvfIndex` | the index, the contract `WellFormed`, the brute-force answer | operators only |
| `Layout` | the index that records and an assignment determine | the result of preprocess, said without loops |
| `BruteForce` | abstract specification of a search: one step, the right answer | |
| `IvfSearch` | one search in each of the three builds | refines `BruteForce` |
| `Quantization` | float to int16 grid | operators only |
| `Preprocess` | sample and seeds of k-means, the counting sort | checked against `Layout` |
| `IndexStore` | abstract specification of the index file: a whole index or none | |
| `IndexFile` | `writeIndex` and `ivf.Load` over one file | refines `IndexStore` |
| `Requests` | requests, replies, the reply each request deserves | operators only |
| `RequestReply` | abstract specification of a connection | |
| `Connection` | `server.handle` and its client | refines `RequestReply` |
| `Profiler` | `record` by many goroutines | |
| `Lifecycle` | `main` and `server.Run`: processes one after the other, their socket, their connections | |
| `Calendar` | civil dates to days, weekdays, minutes | operators only, with the Gregorian calendar as reference |
| `Mcc` | the risk table | operators only |
| `JsonScan` | the key search and the getters of the scanner | operators only |
| `Vectorize` | `mcc.Load`, then `vectorize.Build` look-up by look-up | uses the three above |
| `IvfSearchProofs` (with `Metric`, `TopFive`), `PreprocessProofs`, `IndexFileProofs`, `VectorizeProofs` (with `Mcc`, `Calendar`), `RequestProofs` (with `JsonScan`), `ConnectionProofs`, `ProfilerProofs`, `LifecycleProofs` | theorems | one module per component, two for requests |
| `MCIvfSearch`, `MCPreprocess`, `MCIndexFile`, `MCConnection`, `MCVectorize`, `MCProfiler`, `MCLifecycle` | instances for TLC | |

Operators named as mutants (their comment says so) are not part of the models.
Each is a plausible bug put in the place of one definition, to show that a
property can fail.

### IvfSearch

`phase` follows the code of `sketchy_search_frauds`: select (fill the probe
list), probe, repair, done.  A scan in progress is a cluster `cur` and a next
record `i`; one step handles one record, by the vector loop (`ScanLane`), by
the scalar loop with early exit (`ScanPrune`) or without (`ScanRecord`).  The
build is an input: "avx2" scans blocks of `Lanes` records by vector and the
rest by the scalar loop; "c" and "go" use the scalar loop alone; "go" chooses
the clusters by repeated minimum instead of an insertion list and flags empty
ones.  Left as inputs: the index, the quantised query, nprobe as given, and the
centroid distances as arbitrary penalties.  These are floats in the code; the
search uses them only to order the clusters, so nothing more is kept.

### Preprocess

One step per record in the assignment and placing loops and one per cluster in
the prefix sums.  The cluster of a record is any cluster: k-means decides it in
the code, and the correctness of the file may not depend on that.  Floats are
integers on a grid finer than the index's, so that clamping and rounding half
away from zero are computed and not assumed.  The first action is the integer
part of `kmeans.Train`: which records form the sample and which of them seed
the clusters; it must stay in range with fewer records than clusters.

### IndexFile

A file is a sequence of words, one per number, and an index a record of the
arrays that `writeIndex` passes.  `Create` truncates, or fails and leaves the
path alone (`CreateFails`); `WriteSection` passes one argument of `writeIndex` through the buffered writer,
so that what has reached the file is always some prefix; `Flush` sends the
rest; `Abort` is an error or a kill that lets any part of a write through.  The
reader takes the steps of `Load`: header, sections, chunks that it transposes,
labels and ids; each fails when the words are not there.  Before the first
writer the path may hold nothing, an older index, or something foreign: another
magic, shape or scale, words after the index, a count that is too high.  The
loader compares the scale with a tolerance, so that more than one scale passes
(`Scales`).
`IndexStore` says the same without words.  Writer and reader do not overlap
(`Idle`): the Dockerfile copies a finished file into the image.

### Profiler

Each atomic operation is a step.  `Count` is `requests.Add(1)`, whose result is
the number of the request; `Add` updates the next counter; `Check` is `n %
every`; `Load` reads the next counter and, after the last, writes the entry.
`searched` is a history variable: the requests, among those counted, that got
as far as the search.

### Lifecycle

A process loads, clears the path, binds, makes the socket public and serves; it
may fail, be killed, or be told to stop at any point.  The accept loop takes
connections from a queue while descriptors are left and otherwise repeats
itself.  `Reply` stands for everything `Connection` says of a request: the
connection stays, or the server closes it after an error.  Only a client
closes an idle one (`Close`).
Processes follow each other: a container runs one and has a path of its own.

### Vectorize, JsonScan, Mcc, Calendar

A request is a JSON value; its text has every punctuation mark, quote, space and
word as a symbol, with the members in one of the given orders and with or
without spaces.  The model scans the text as the code does, by searching quoted
keys in ranges found by counting braces.  The properties read the JSON value.
They are about the requests the scanner can read, `Legible`: an object has no
key twice; inside an object no key is a name that `Build` searches in the whole
body; strings escape their quotes and do not hold a key in quotes; the strings
`Build` takes have no quotes in them; and in a customer whose `known_merchants`
is no list nothing has an opening bracket.  The rest is unrestricted: order and
spaces, further members, braces and colons in strings, escaped quotes where
`Build` does not look.  A request that is not legible runs too and only has to
keep the ranges in bounds.
Symbols abstract the characters inside words; the four characters of a category
are kept, since the code cuts keys to four.  What a getter takes is modelled as
far as the code looks: `Numeral` and `Truth` hold the symbols that begin with a
number or a truth value (`12abc`, `truex`), `Stamp` the strings of at least
nineteen characters, dates or not, with what the code reads at the places of the
year, the month and so on.  The properties tell apart what is taken
(`AllAcceptable`) and what is sound (`WellFormed`).  `MatchBrace` follows the scanner's
state over the positions (`Scan`, `After`), and its depth by counting the braces outside
of strings; `ArrayContainsString` is a recursive function.  A feature is a
numerator and a denominator.  The risk table is loaded first, in any order of
its entries.  `Calendar` has the arithmetic of `daysFromCivil` and, as the
reference, the rule which day follows a date.

### Connection

Bytes are units `<<m, j>>`, byte j of request m, so lost, repeated or misplaced
bytes can be seen.  A `Receive` takes any non-empty prefix of what the socket
holds that fits the buffer and parses the buffer, as the body of the inner loop
does; parsing, `vectorize.Build` and the search are in the same step, since they
read only the connection's own buffer and the read-only index.  `Write` sends the
reply and shifts the buffer, or closes.  The client sends the requests of its
script when it likes, waiting for replies or not, may shut its side, and may
vanish with a request cut off anywhere.  A reply outside 0..5 frauds (500) is left out:
`TypeCorrect` proves that the search returns none.

## What the runs check

| Run | Instance | Shows |
|---|---|---|
| `search_exact` | six records on three points, K = 2, blocks of 2, all builds | list exact at every step, answer exact, worst entry never worsens |
| `search_probes` | 0..3 records, K = 3, all centroid orders with ties, nprobe -1..4, all builds | right clusters probed, none twice, statistics add up, answer exact with fewer records than slots |
| `search_refines` | seven records, one fraud, K = 2, blocks of 4 | implements `BruteForce`, and so terminates |
| `preprocess` | 0..4 records, K = 3, all assignments | seeds spread, no spill, `WellFormed`, equal to `Layout` |
| `index_file` | indexes of 1, 2 and 3 vectors, chunks of 2, a buffer of 5 words, 7 foreign files | implements `IndexStore`; no stored index is refused; exit 0 means stored |
| `vectorize` | 18 requests, three of them not legible, 6 orders, with and without spaces, 3 risk files | for the legible: values of the right object, exactly those rejected that have a value no getter takes, dates and merchant as defined; for all: ranges in bounds, risks as defined |
| `profiler` | 3 goroutines, 4 requests, 2 counters, a log entry every 2 | sums settle, each multiple logged once, averages miss at most the others |
| `lifecycle` | 2 processes, 2 stops, 3 connections, 2 descriptors | a server is reachable, a start ends in serving, waiting connections get accepted, replies are lost only at the end |
| `connection_pipelined` | 3 requests, buffer of 6 units, clients that wait or not | no byte lost, implements `RequestReply`, a client that waits is always answered |
| `connection_stall`, `connection_bare`, `vectorize_malformed` | see [below](#where-code-and-documents-disagree) | expected violations |

Why the bounds are enough.  Six or seven records are the least that leave one
or two out of a list of five, which is when replacement, ties and skipping
happen.  Three points at distances 1, 1 and 4 of the query (`FixScale` = 2) give
records equal in distance but noticed at different terms of the scalar loop,
one of them after its last test.  Two clusters are enough for each pass to have
one; three allow a probe list with a middle.  Block sizes 2 and 4 against
cluster sizes 1 to 6 give empty, full and partial blocks.  `Int32Max` = 16 is
just what squares of the largest difference need.  Four records in three
clusters make every pattern of empty, single and shared clusters.  A buffer of
six units and requests of up to eight reach both sides of each limit, and three
requests are enough for one to be complete, one to be split and one to follow.
Four records in three clusters with a sample of two raise the sample to three;
one or two records have fewer seeds than clusters; a sample larger than the
number of clusters is covered by the theorem `SeedsSpread` alone.  Chunks of two
make one vector a partial chunk, two exactly a full one and three a full and a
partial one; the sections of an
index are shorter, equal to and longer than what is left of the buffer.  The
eighteen requests cover each branch of `Build`: a last transaction that is
there, null, absent, later or faulty, a number as a string, a short timestamp,
a long one that is no date, numbers and truth values with letters after them,
braces, brackets and escaped quotes inside strings, and each kind of text that
the scanner misreads (`OthersAreLegible` says which they are); the timestamps lie on both sides of
a leap day and of a year's end.  Two risk entries with one code, and one of a
default code, are the collisions there can be.  Three goroutines let the one
that logs be overtaken by two.  Two processes and two stops let each start
follow any end of the other; three connections use up two descriptors.
`MaxRequests` and `MaxStops` only bound the state space.

Fairness.  `IvfSearch` assumes weak fairness of its next step: it is a loop on
the calling goroutine and nothing in it waits.  `Connection` assumes weak
fairness of the server only: the runtime schedules a goroutine whose read or
write can proceed.  Nothing is assumed of the client, and a read with no data is
not enabled.  `Profiler` assumes that a goroutine inside `record` goes on;
nothing there waits; requests need not come.  `Lifecycle` assumes that a process
and its goroutines go on (start-up, accept, reply, exit), and, as strong
fairness of `Close`, that clients close connections.  That one is an assumption
about the load balancer, not about this code: the server closes a connection
only after an error and sets no deadline, and without it `QueueDrains` is false
once the descriptors are used up.  It asks more than that idle connections
are purged: a connection that is idle again and again between its requests
has to be closed some time, too.  `Preprocess`, `IndexFile` and `Vectorize` need none.
Runs turn the deadlock check off where the modelled code stops: a search or a
build that is done, a closed connection, a client that says no more, a request
bound that is reached.

## What is proved

All theorems hold for every value of the constants that satisfies the named
assumptions: `ScaleAssumption` (squares of differences fit a lane; true for
10000 and 2^31-1), `IdAssumption`, `ClusterAssumption` (K > 0),
`LanesAssumption`, `FineAssumption`, `InputAssumption` (indexes are
`WellFormed`, queries on the grid, penalties up to `FltMax`),
`FilesAssumption`, `IndexFileAssumption` (each array of an index has the length
the code allocates; another file has a count that is no negative number),
`ScriptsAssumption` (Content-Length is the length of the body),
`RequestsAssumption` (requests are JSON values nested as
far as those of the API, orders are permutations), `SymbolsAssumption`
(characters are read as natural numbers, whether digits or not; punctuation
marks are no numbers and no truth values), `TablesAssumption`,
`ProfilerAssumption` and `LifecycleAssumption`.  TLC evaluates each of them.

* `IvfSearchProofs` begins with the operators of the kernel: `LanesAgree` (vector
  and scalar distances are equal), `EarlyExitIsFar` (a pruned record is strictly
  farther than the worst entry), `BoxIsLowerBound` (no record beats the box of its
  cluster) and `TryInsertKeepsTheBest`, what one insertion preserves.  On them
  rests the inductive invariant
  `IInv == InputsOK /\ TypeOK /\ ScanContext /\ NoProbeRepeats /\ TopHoldsTheBest`
  and from it `TypeCorrect`, `ScansInContext`, `ProbesDoNotRepeat` and
  `TopAlwaysExact`.  No part is inductive alone: that the list stays exact
  when a record is inserted needs that the record was not handled before; that
  needs the flags and the phase (`ScanContext`); for the C probe list it needs
  the list to be without repetition and its rest unflagged (`NoProbeRepeats`).
  Then `SearchIsExact`: when all clusters are handled, the invariant makes the
  filled slots and the five nearest records one and the same set, and a bijection
  between slots and records turns votes into fraud labels.
  `WorstNeverWorsens` and `SearchRefinesBruteForce` follow, the latter for the
  safety part of `BruteForce`.
  Two more invariants stand on top of `IInv`.  `StatsInv` names a set of clusters
  whose number and sizes are the statistics; the flags and the phase alone say
  which clusters are scanned, not what was counted for them, so the set has to be
  part of the invariant (`StatsAreOfDistinctClusters`).  `ProbeInv` says that the
  C list holds the first of the clusters looked at, in the order of penalty and
  number, that the flags follow the list, and that Go's flags are the beginning
  of that order; the clusters before a given one are then counted with the help
  of an injection into the list (`ProbesAreTheClosest`).  The property is about
  nprobe as it was given, not as `NormalizeNProbe` cuts it; `ClampIsHarmless`
  bridges the two.

* `PreprocessProofs`: the counting sort.  The invariant says how far each loop
  is, in cardinalities: `Counting` (a count is the number of records seen in
  the cluster), `Offsets` (an offset is the number of records in the clusters
  before), `Writes` (a write position is its offset plus the records placed).
  `Placed` says that filled positions hold records of their cluster inside its
  box, none twice and none missing.  Neither is inductive alone: that a placing
  overwrites nothing needs that the clusters' ranges are disjoint, which needs
  that the cluster has a record left to place.  Results: `TypeCorrect`,
  `ClustersStayApart` and `BuildsWellFormed`; `SeedsSpread` is arithmetic of
  `div`.  `BuildsTheLayout` (the loops compute `Layout`) needs more, `LayoutInv`:
  a filled position holds each coordinate, label and id of its record and is the
  offset of the cluster plus the number of its earlier records (`Copied`), and
  a side of a box is touched by a record placed so far (`Tight`).  `BuildsWellFormed` discharges the part of `InputAssumption` that is
  about indexes: what preprocess builds from any input with any assignment
  is well-formed, and by `SearchIsExact` the search is exact on what is
  well-formed.
* `IndexFileProofs`: the invariant is
  `IInv == Typed /\ WriterInOrder /\ ReaderInOrder /\ SuccessMeansStored`.  While
  preprocess writes, file and buffer together begin as the encoding does, and
  end where a section ends.  An empty buffer at the last section is then a whole
  index (`SuccessStores`), and what an aborted write leaves is a proper
  beginning, in which some chunk or section asks for words that are not there.
  The reader's memory is, in each phase, the part of the file read so far, by
  columns.  `LoadRefusesNoIndex` and `IndexFileImplementsStore` rest on both.
* `VectorizeProofs`: `RisksAreThoseOfTheFile`.  While a risk file is applied, each
  code has the risk of an entry of the file, or still its default and all its
  entries are still to be applied (`RiskInv`); that no entry can be lost is the
  second half, which the property alone does not say.  `TypeCorrect`: the
  scanner's ranges lie in the body, from brace to brace, since each search
  returns a position of the range it was given (`ScanInv`); the text of a request
  is a sequence of symbols by an induction over its parts (`PrefixesJoin`), done
  with the least number for which the claim fails.
  `DaysAreCounted` (the next date has the next number, in every year, through
  month ends, leap days and the ends of 400 years) and `EpochIsDayZero` together
  fix the day number of every date; `WeekdaysFollow` is the same for weekdays.
  `DatesAreCounted` ties the numbers to the set of dates itself: those before a
  date, counted from 2024 on, are as many as the difference of the numbers.
  The next date adds one to set and number alike, and the earliest date for which
  they differ, of which there is none, stands in for an induction.
* `RequestProofs`: what the scanner reads of every legible request, in every order
  and spacing.  Three layers carry it.  First, where the parts of a text lie:
  `Laid` gives the start of each part of a joined text, and `ObjectHas` finds a
  member's key, colon and value in the text of its object.  Second, what a search
  can hit: a name in quotes lies in one part only, and in a legible request only
  where it is a key, so the first hit of `FindKey` is the member (`ValueFound`);
  the state of `matchBrace` is "code" again after each string, so the braces it
  counts are those of the objects and the one it stops at closes the object
  (`RangesFound`).  The search of the list of merchants is a recursive function
  over all positions; it is shown to have a solution, and the solution to be
  membership in the list.  Third, the invariant `ScanInv /\ ReadInv /\ Made`:
  in each phase, the ranges and values are those of the members looked up so far,
  no earlier look-up failed on a sound member, and the features, once there, are
  `Features` of them.  `ReadInv` is needed since a property about values says
  nothing of the ranges that the next look-up searches.  Results:
  `OwnFieldsAreRead`, `UnacceptableAreRejected`, and with `DatesAreCounted`
  `FeaturesFollow`.  Without `Legible` none of the three holds.
* `ConnectionProofs`: the invariant is
  `IInv == Typed /\ StreamInOrder /\ ReplyIsNext /\ FullIsTooLarge`.  What is left
  of the request being answered, then buffer and socket, is in order from the
  first unanswered request on; this is said block by block, byte by byte
  (`LiesAt`, `InPlace`), since a concatenation of all unanswered requests would
  need an induction at every step.  `ReplyIsNext` keeps the end of the request
  at its place between answer and shift; `FullIsTooLarge` is why 413 is right.
  Results: `TypeCorrect`, `BufferStartsAtRequestAlways` and
  `ConnectionImplementsRequestReply` (safety part).
* `ProfilerProofs`: the invariant is `Types /\ Balance /\ Numbers /\ Reads`.
  `Balance` says that a sum plus the goroutines that still owe it their request
  is the number of requests (or of those that reached the search).  At rest
  nobody owes, which is `SumsAreComplete`; a goroutine that reads owes nothing
  itself, which bounds what its average misses (`AveragesAreFair`).  `Numbers`
  keeps the numbers of goroutines and log entries apart (`OneEntryPerMultiple`).
* `LifecycleProofs`: that a serving process is reachable rests on `Single` (at
  most one process is alive, so nobody else touches the path after the bind)
  and on `Bound` (it owns the path since the bind); `ServingStaysReachable`.
  `TypeCorrect` has the queues: each holds what waits for its server, once.
  `BreaksAreEnds` is an action property from the types.

Every safety invariant and every action property of the passing runs is
stated by one of these theorems.  Only model-checked is what is claimed under
fairness, which needs ENABLED: termination of the search (`ImplementsBruteForce`
has it, the theorem does not), `WaitingClientsAreAnswered`, `EveryMultipleIsLogged`,
`StartEndsInServing`, `QueueDrains`.  Where a claim about data calls for an
induction, as for the parts of a text or the days of a calendar, it is proved
of the least number for which it would fail.

## Where code and documents disagree

* A client that pipelines can wait forever (`connection_stall`).  After a reply
  the code shifts the buffer and then reads again before it looks at what is
  there (`server.go:142`).  Comments at 124 and 266 say otherwise.  The proxies
  in front do not pipeline, and for clients that wait the property holds
  (`WaitingClientsAreAnswered`, in `connection_pipelined`).
* `GET /ready` without any header line gets 400 (`connection_bare`).
  `README.md:22` promises 200.
* Malformed values are accepted (`vectorize_malformed`).  A timestamp only has to
  have nineteen characters (`vectorize.go:81`, `:125`), and numbers and truth
  values may have anything after them (`:253-267`, `:284-288`).  The comment on
  `ErrParse` (`:32-33`) promises an error and HTTP 400 for malformed values; the
  package comment calls the parser permissive.  What does hold is
  `RejectsTheUnacceptable`: rejected is exactly what a getter does not take.

## What is not modelled

* Floats: rounding, the exact centroid distances, the parsing of numbers.  Two
  compilers may round the scaling of a coordinate differently.
* The k-means iterations and the nearest centroid: the answer does not depend on
  them.  How many probes find the neighbours is performance.
* Reading the references: a library's JSON decoder in a loop that appends.
* Requests that break HTTP in ways the server cannot notice: a wrong
  Content-Length, a body on a GET (`ScriptsAssumption`).
* What `Build` makes of JSON that it misreads by design, beyond the ranges that
  stay in bounds: requests that are not `Legible`, such as an id `"customer"` or
  an id with a quote.
* What the time features of a timestamp that is no date should be: the code reads
  its characters as if they were digits, and nothing says what to expect.
* Power loss: there is no fsync, so after `exit = "ok"` the model's file is the
  kernel's, not the disk's.
* Two processes on one socket path at the same time.  The deployment gives each
  container its own; with an overlap, the one that stops removes the other's file.
* haproxy and nginx.  Their configuration is data of other programs; in
  particular what `backup` does to the second server is not in this code.
* Memory limits, garbage collection, the sockets' flow control (a write to a live
  client never blocks forever).

## Plan

Done: the search with its refinement and proofs; preprocess with its proofs; the
index file, connections, the life cycle and the profiler with theirs; requests
to vectors, with proofs of the risk table, the scanner, the features and the
calendar.

Left, in order:

1. A sharper statement from the invariant there is: how far the buffer of
   `Connection` can fall behind.
2. One module in which connections of `Lifecycle` are those of `Connection`, so
   that a SIGTERM cuts requests at any byte.
