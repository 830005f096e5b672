# A verification development for cdp-go

cdp-go is one process, `cdp-nats-bridge`. It joins a UDP multicast group on
which tracking hardware sends CDP datagrams, decodes every datagram into data
items, publishes each item as JSON on NATS, and, when zones are configured,
watches the positions among them and publishes an event whenever a tag enters
or leaves a zone. This directory holds TLA+ modules for it, the configurations
that TLC checks, and proofs for TLAPS. All line numbers are those of the
repository.

## The system

| Part | State | Operations | Talks to |
|---|---|---|---|
| Geofence engine, `internal/geofence/engine.go` | per tag: committed zone set, candidate, votes, last seen; a sweep counter | `OnPosition` (vote, commit, emit, sweep), `TagCount` | the zones, an `EventSink`, a clock |
| Zone geometry, `geometry.go` | polygon and bounding box, constant after `NewZone` | `Contains` | called by the engine |
| Geofence configuration, `geofence/config.go` | none | `Build`: checks, unique slugs | called by `Run` |
| CDP decoder, `pkg/cdp/cdp.go` | none | `Decode`: one datagram to items | the registry |
| CDP items, `pkg/cdp/items.go` | the registry, constant | 49 decoders | called by `Decode` |
| Bridge, `internal/cdpbridge/{run,listener,publish,geofence_sink}.go` | channel of 2048 datagrams, socket, context | `Run`, `listen`, `publish`, `Emit` | all of the above, NATS, the network |
| Broker, `internal/broker` | the NATS connection | `Connect` | NATS |
| Metrics, `internal/metrics` | five counters, three gauges | increments, `PollGauges`, `Serve` | the channel, the engine, NATS |
| Configuration, `internal/cdpbridge/config.go`, `internal/config` | none | `LoadConfig`: defaults, YAML, environment, flags | `main` |

Goroutines: `Run` (selects among the context, the listener's end and the
channel, and runs `publish` and the engine), the listener, a goroutine that
closes the socket when the context is cancelled, the gauge poller, the metrics
server and what the NATS client runs. They share the channel, the context, the
socket, the NATS connection and, by `TagCount`, the engine's tag map.

What is hard here, and what would make each part correct:

- *Engine.* Sequences of positions: oscillation, a candidate dropped one vote
  early, a return to the settled set, silence and the sweep, several tags that
  drive each other's sweep, a clock set back. Correct means: the committed set
  is the last set shown often enough in a row, and no state of a live tag is
  lost. It must also hold that a consumer of the events knows where a tag is.
- *Bridge.* Shutdown against a listener blocked in a read or on a full channel,
  a busy select, a NATS connection that is down; a socket closed from another
  goroutine, whose read error is not a failure; messages refused one by one.
  Correct means: it stops when asked and when its input ends, says why, and
  drops nothing without counting it.
- *Decoder.* Offsets and lengths: 49 hand-written tables, three kinds of
  tails, framing. Correct means: no read outside the payload, nothing skipped
  or read twice, exactly the whole datagrams accepted.
- *Geometry.* Points level with a vertex, orientation, the width of the
  integers.
- *Configuration.* Four layers with one file whose path is found before the
  arguments are parsed; values that do not convert; names of zones that differ
  and leave the same slug. Correct means: the highest layer wins, only mistakes
  are refused, and every subject is legal and tells its zone.

`PROJECT.json` lists the hazards at their lines with the properties aimed at
each.

## Modules

| Module | Models | Built on |
|---|---|---|
| `GeofenceEngine` | `OnPosition` with vote, commit, emit and sweep; the clock | |
| `StableMembership` | what the engine promises: no votes, no sweep, no clock | |
| `EngineHistory` | the engine with history variables; the refinement | `GeofenceEngine`, instance of `StableMembership` |
| `GeofenceConsumer` | a subscriber that gets the events late and one by one | `GeofenceEngine` |
| `GeofenceEngineProofs`, `ZoneEventsProofs`, `BridgeProofs`, `CdpDecodeProofs`, `GeometryProofs`, `ConfigLoadProofs` | proofs | the modules they name |
| `MembershipProofs` | proofs: the engine's refinement, and the subscriber | `EngineHistory`, `GeofenceConsumer` |
| `ListingProofs` | what all of them need of sorted lists and loops | |
| `ZoneSetDiff` | the loop of `diffZoneSets` | |
| `Subjects` | slugs and prefixes as texts; what NATS takes for a subject | |
| `ZoneEvents` | `Config.Build`, `NewZone`, `contains`, `slugOf`, one `emit` | `ZoneSetDiff`, `Subjects` |
| `Geometry` | bounding box and ray cast | |
| `Bridge` | `Run`, `listen`, the socket closer, `publish`, `Emit`, `PollGauges`, `Serve` | `GeofenceEngine` |
| `MessagePipe` | what the bridge promises: no goroutines, channel, engine or NATS | |
| `BridgeMetrics` | the counters, and numbered datagrams; the refinement | `Bridge`, instance of `MessagePipe` |
| `CdpItems` | layouts and registry of the item decoders | |
| `CdpItemReads` | one item being decoded, read by read | `CdpItems` |
| `CdpDecode` | the framing loop of `Decode`, calling the decoders | `CdpItemReads` |
| `ConfigLoad` | `LoadConfig`, `findConfigPath`, `LoadYAMLInto`, `applyEnv`, the exit status of `main` | `Subjects` |
| `MC*` | values of the constants for TLC | the module they name |

### The engine

A `ZoneSet` of the code, a sorted slice of names without duplicates, is a set of
ranks. `contains` returns a nil slice exactly when it is empty, which is how
`pending == nil` becomes `pending = {}`. The zones enter only as `Placement`,
the zone sets that some point lies in; `Geometry` is about which. One action
`OnPosition` is the whole handler: the state of a new tag, the switch
(`Vote`), the commit (`Commits`, `Observed`), the events in their order
(`emit`), the counter and the sweep (`SweepDue`, `pruneStale`). `Tick` and
`ClockStepsBack` are the environment: what `now()` returns next, which may be
earlier since `pruneStale` provides for it. `diffZoneSets` is used here by its
result; `ZoneSetDiff` shows that the loop gives it.

`StableMembership` knows for each tag only the last value it showed, how often
in a row and for how long it has been silent. `EngineHistory` adds these as
history variables to the engine, whose own steps stay as they are, maps
`member` to the committed sets, and states `ImplementsStableMembership`. The
constant `Settling` of the abstract specification is the set of values the
promise is kept for. It has to leave out the empty set when the threshold is
above one; see the findings.

### The bridge

`run` follows `Run`'s goroutine: starting, selecting, publishing an item, in
the engine, emitting an event, flushing, returned. Each `Publish` is a step of
its own, so that NATS can change in between. The branches of the select are
three actions with the same guard `run = "selecting"`. `listener` follows
`listen`: its read, the check of the context after a read error, and the select
of the send. A datagram is what `Decode` makes of it: malformed, or a sender and
items, each of which is a position or not and can be marshalled or not.
The engine's map is read by the poller between `PollTags` and `PollDone`, and
written while `run = "engine"`: a state with both is a data race.

The environment is the signal, the network (any datagram or a read error at any
time), the NATS server and the client library, which is modelled from how it is
used: a publish is refused when the connection is closed or the reconnect buffer
is full, and the client gives up reconnecting only if it is configured to.
`server` is the lifetime of `metrics.Serve`: its failure is one of the `faults`
that must not reach `result`.

`MessagePipe` is the bridge as its readers see it. Datagrams come and wait; one
is begun when the last is finished; each of its items is told or refused in
turn; a watched position brings events that are due at once; the pipe ends
between two datagrams, when cancelled or without input. `BridgeMetrics` maps
`waiting` to the channel and the datagram the listener holds, `due` to what is
left of `work` and `emitting`, and the three counts to the counters. Reads,
sends, the select, the socket and NATS become steps that change nothing there.

### The decoder

A decoder in `CdpItems` is a record: the shortest payload its guard accepts, the
fields as offset and width in the decoder's order, and what it does with the
rest; the registry is a table from type to decoder. `CdpItemReads` takes any
registered type and any payload length and performs the reads, entry by entry
where the code loops; it keeps which bytes were read and which of them `twice`.
`CdpDecode` takes a
datagram as a sender composed it, cut at any byte or padded, walks over it with
the loop of `Decode`, and has each registered item decoded by `CdpItemReads`
(`StartItem`, `InDecoder`, then `AppendItem` or `BadItem`). Which payloads should
be taken is stated beside it, from the layouts alone (`Suits`).

### Geometry

`PointInPolygon` toggles along the edges with products that wrap at twice the
width of a coordinate; `Contains` puts the bounding box before it, and `Ask` is
one call. The reference is independent of rays: cut the polygon into triangles
and count those that hold the point. `ProductsFit` says that no product of two
differences of coordinates wraps: the run checks it for its grid, the theorems
suppose it.

### Zones and their events

`ZoneEvents` starts where the configuration ends: `Build` walks over the zones
(`BuildZone`, `BuildRefuses`, `BuildReturns`), and `Emit` is one call of
`Engine.emit` for a move between any two sets of zones, which `contains` turns
into sorted names and the steps of `ZoneSetDiff` merge. A name is its rank in
byte order together with its text, a sequence of characters, because slugs and
subjects are about single characters; the few characters used stand for their
class (letter in either case, dot, space, wildcard, whitespace that only
`TrimSpace` knows). `contains` is the listing, in order, of the names of the
zones that a point lies in.

### Configuration

In `ConfigLoad` an operator types settings, each a flag and a value, and the
program sees only their words (`WordsOf`, `Args`): what is a flag, a value or
neither is for `findConfigPath` and the flag package to find out, each in its
own way. A layer goes `Over` those below it: what it does not name stays. `step` follows
`LoadConfig`: peek, file, environment, flags, prefixes.
`ParseFlag` is one turn of the flag package; words that follow the settings
(`Trailing`) make it stop early (`EndsFlags`: a plain word, or `--`) or ask for
help (`-help`, `-h`). `Resolved` reads the expected
value off the settings, not off the words. The fields of `Config` stand for
their kinds: a prefix, an integer and a Boolean. Integers of the environment are
read by `Atoi` and those of flags in any base, so `010` is ten in one and eight
in the other.

## Runs

| Run | Instance | Shows |
|---|---|---|
| `engine_history` | 2 tags, nested zones, threshold 3, TTL 1, sweep every 3 calls, clock 0..2 that may go back | the engine implements `StableMembership`; the inductive invariant; tags are swept in time |
| `consumer` | 2 tags, two disjoint zones, a third inside one, threshold 2, no TTL, a clock that may go back | a subscriber that replays events, or reads the last `in_zones`, knows each tag's membership; never a tag in two disjoint zones; enter and exit alternate |
| `zone_set_diff` | up to 4 zones out of 8 names, every move between two sets of them | `Build` takes the good configurations only; the merge gets sorted names and returns both differences; an event's subject tells its zone |
| `geometry` | all polygons of 3 or 4 vertices on a 3 by 3 grid, 36 points | the even-odd rule, any listing of the vertices, the bounding box changes nothing |
| `bridge` | channel of 1, reconnect buffer of 1, 3 kinds of datagram, all faults | shutdown ends, exit status, no bridge without listener, no deadlock on the full channel |
| `bridge_metrics` | channel of 2, 4 datagrams of 4 kinds | each item and event in exactly one counter; only the last datagrams before the end are lost; the stream tells the engine's membership; the bridge implements `MessagePipe` |
| `cdp_decode` | every one of 49 types with lengths up to 3 entries and one byte more, and up to 3 items of 4 types and 3 sizes, cut or padded at every byte | exactly the whole datagrams are accepted, with all their items in order; reads in bounds, no gap, no overlap, only whole numbers of entries |
| `config_load` | 2 files, 5 environments, up to 2 of 12 settings and 5 ways to go on | the highest layer wins; only mistakes are refused; a prefix that is not empty gives legal subjects |

The bounds. Three is the least threshold at which a vote can be lost at the
first or in the middle; two tags are the least at which one drives the sweep of
the other; with a TTL of one and clock values up to two a tag is live, at the
TTL and past it. A channel of one is both empty and full within a step of the
listener, and one of two has an order. Two items in a datagram have a first and
a last. The sizes of `cdp_decode` lie on both sides of a decoder's guard and are
odd and even for the type that divides. Four zones allow every way in which one
side of the merge can run out first, and a slug that collides with one that is
not its neighbour. Two settings can repeat a flag, set a value and the file it
overrides, or give a flag to another as its value. Polygons of four vertices can be convex,
concave, crossing and degenerate. The clock, the datagrams of `bridge_metrics`
and the events in flight of `consumer` are bounded by guards or constants named
as bounds in the modules; `bridge` itself reads without bound. Four datagrams make up to seven zone events,
an enter, then an exit and an enter with each change of zone, so that the stream
is compared with the engine after accepted exits too. The numbers in
`OnlyTheTailIsLost` are kept beside the channel and show what is lost; that the
datagrams in the channel keep their order is part of `MessagePipe`.

The runs of the bridge, of the zones' events, of the decoder and of the
configuration set `CHECK_DEADLOCK FALSE` because what they model ends: the bridge
returns, and a function does. The engine and a zone never stop.

### Fairness

Only `Bridge` has liveness properties. A goroutine that can run does (weak
fairness of startup, of publishing, of the listener and of the socket closer).
The three branches of `Run`'s select get strong fairness: the Go select chooses
uniformly at random among its ready branches, so a branch that is ready again
and again is taken, and without that a bridge that always has a datagram ready
need never see its cancellation. The flush ends because `FlushTimeout` has a
timeout. Nothing is assumed of the signal, the network, NATS or the ticker.

### Findings

Four runs state what the repository says and show the code do otherwise.

1. `engine_stable_exit` (`engine.go:110`). `st.pending == nil` is the test for
   "no candidate", and the zone set of a tag outside every zone is nil. With
   `hysteresis` of two or more (the default is five) each position outside
   starts the count again at one: the tag never leaves. The theorem
   `EmptySetNeverCommitted` proves it for all thresholds above one. `README`
   lines 191-192 promise the commit after N packets, and a comment of the tests
   expects the count to go on.
2. `consumer_forgotten` (`engine.go:143`). A tag that the sweep forgets inside a
   zone and that comes back outside all of them commits nothing, so the last
   event still has it inside, against README 232-234.
3. `bridge_race` (`run.go:62`). The gauge poller calls `engine.TagCount` from
   its own goroutine, against the comment that the engine is not goroutine-safe
   and that calls are serialised.
4. `config_empty_prefix` (`config.go:159`). An empty prefix is let through
   because "the caller decides what default to apply"; no caller applies one. A
   variable that is set to nothing overwrites the default `cdp`, and every
   subject then begins with an empty token.

Limits that are not runs. `findConfigPath` takes the first word spelled
`--config` and the flag package the last one that is a flag: with `--config`
repeated, given as the value of another flag, or behind the first plain word or `--`, the
file that is read is not the one the flag names; the two properties about the
configuration leave such command lines out (`Unambiguous`). What is typed behind
either of these is ignored without an error (`config.go:140`). An empty YAML
file is refused, for `Decode` returns its end as an error (`config.go:71` of
`internal/config`). `cdp_datagrams_received_total` counts the datagrams taken from
the channel, not those received: `OnlyTheTailIsLost` bounds the difference. And the
ray cast's `int64` products hold for coordinates
within a quarter of the `int32` range on either side of zero, as the `geometry`
run has them; a difference of two `int32` values has 33 bits, and nothing in
`Build` bounds the vertices (`geometry.go:90-94`).

## Proofs

### The engine

For all sets of tags, zones and placements, every hysteresis, TTL, sweep period
and clock bound, whether or not the clock may go back. The assumptions are
`ZoneAssumption` (finitely many zones, as a configuration has; placements are
sets of zones) and `ParameterAssumption` (naturals; the sweep period is
positive).

- `EngineInvariant`: `EngineInv` is inductive. `TypeOK` alone is not enough to
  work with: `VoteInv` says that no vote rests at the threshold, that a
  candidate is never the committed set and that more than one vote is only ever
  for a non-empty candidate; `CounterInv` that the sweep counter is below its
  limit. `ObservedOK` is one observation, `OnPositionTags` describes the map
  after the whole handler, sweep included, and `EngineStep` has one step per
  action.
- `EngineTyped`: `TypeOK`, which also says that the events of a call are records
  of an event, in number and in content. The events are listed in the order of
  the zones, with a `CHOOSE` over all sorted lists, so the proof needs that such
  a list exists: `ListedByKey` of `ListingProofs`, from the rank of an element.
- `EmptySetNeverCommitted`, an action property from `EngineInv`: with a
  threshold above one no step takes a tracked tag from inside a zone to outside
  all of them. The last conjunct of `VoteInv` is what it rests on.
- `HistoryInvariant`: `HistoryInv` adds `RunInv` (the votes are determined by
  the run of equal proposals), `SilenceInv` (the clock never shows more silence
  than there was, which is what makes forgetting safe under a clock that steps
  back) and `OverdueInv` (a stale tag has outlived at most as many calls as the
  sweep counter has counted).
- `SweptInTime`: `StaleTagsSwept` follows from `OverdueInv` and `CounterInv`.
- `EngineRefinement`: `ImplementsStableMembership`. `VoteFollowsRun` shows that
  one observation has the same result on both sides, `OnPositionObserves` that
  the handler is an `Observe` whose forgotten tags were silent beyond the TTL,
  `RefinementStep` that the other actions are `Elapse` or stutter.

### The subscriber

For every number of events in flight. The theorems are about `Remembers`, the
behaviours in which no tag is dropped from inside a zone: without that the
stream of events does not tell where a tag is, as the finding
`consumer_forgotten` shows, and `NothingForgotten` proves that every behaviour
without a TTL meets it. `PlacementAssumption` says that some point exists.

- `ConsumerInvariant`: `ConsumerInv` says that replaying what is in flight on
  top of what the subscriber knows gives the engine's membership, that every
  event in flight is news when its turn comes, and that what is known in between
  never holds two zones that no placement has in common, because exits are sent
  before enters. `PublishedReplay` is the same for the events of one call, from
  their order in `emit`; `ProducedAhead` and `DeliveredAhead` move it along the
  queue.
- `ReplayTells`, `LastEventTells`, `InOnePlace` and `EveryEventIsNews` (an action
  property) are the four promises to a subscriber.

### The zones and the merge

- `DiffInvariant`, for every two sorted sequences of names, of any length:
  `DiffInv` is inductive. `MergeInv` says that the names collected are the
  differences of what the pointers have passed over, and that nothing passed
  over on one side is still ahead on the other. `DiffTypeOK` adds that what is
  collected is sorted, which a step keeps because the input is (`Ahead`), and
  the second conjunct that the loop ends only with one side run out: then the
  rest of the other belongs to the result (`ReturnExits`, `ReturnEnters`).
- `MergeIsPartial` and `MergeIsDifference`: `MergeInv` and `DiffCorrect`.
- `ZoneInvariant`, for every number of zones and all names: `ZoneInv` says that
  the zones built so far are the entries read so far, each of them good, and
  that their slugs differ; with it `DiffInv` holds for the inputs that `contains`
  gives, since zones with different slugs have different names (`NamesDiffer`).
  `MovesAreMerged` is the two differences again, now for the merge inside `emit`.
- `BuildDecided`, `InputsSorted` and `SlugsTell`: `BuildDecides`,
  `MergeInputsSorted` and `SlugTellsZone`. That a slug is a legal token
  (`SlugIsToken`) rests on `SpellingAssumption`: lower-casing makes no white
  space, wildcard or dot out of any other character, which holds for Unicode.

### The decoder

For every list of items of any types and sizes, cut or padded at any byte.
`DecodeAssumption` says of what is sent only that the items lie one behind the
other (`LaidOut`: the first starts behind the header, each next one where the
last ends).

- `DecodersReadInside` and `DecodersReadAll`: each of the 49 tables of offsets is
  tight, without gap or overlap (`DecodersTight`, proved table by table), so that
  `ItemInv` is inductive: what was read so far is in the payload, each byte of it
  once.
- `DecodeInvariant`: `DecodeInv` says that the loop stands at an item of the
  sender, or at the end of the last one, or in the padding, and that it has
  returned those before it. `OnlyWhole`, `EveryWhole` and `Tiling` follow.
- `Turns` of `ListingProofs` is what takes the place of an induction over the
  items: what holds before a loop and is kept by each of its turns holds after
  it. It is proved from the least turn at which it would not (`Extremes`), so
  that it needs no induction theorem over an operator.

### The polygon

For every number of vertices, every polygon, crossing and degenerate ones
included, and every point, as long as no product wraps (`ProductsFit`). The code
asks for the same: "pre-validate vertices and positions to fit in some smaller
bound". In coordinates relative to the point an edge is met or not by the sign
of one cross product and the heights of its ends (`CrossesIs`).

- `LoopIs`: `PointInPolygon` answers what any list ends with that begins with
  FALSE and is toggled by the edges. Each theorem then names the list.
- `PrefilterNeverDecides`: above, below and to the right of the box no edge is
  met and the list is FALSE throughout; to the left every edge is met that is at
  the height of the point, and the list tells whether the last vertex and this one
  are on different sides of it (`OutsideBox`).
- `OrderNeverDecides`: starting one vertex later shifts the list
  (`TurnedPolygon`); backwards mirrors it, off the boundary, where an edge is met
  in both directions or in none (`CrossesBackwards`, `OffSegment`).
- `ContainmentIsEvenOdd`: a triangle holds a point exactly when the ray meets one
  or three of its sides (`TriangleIsRayCast`: one corner is alone on its side of
  the point's height, and the three cross products weigh the heights of the
  corners to zero), and a cut between two triangles is met by both. The list is
  the crossings of the cut to this vertex with the parity of the triangles so far.

### The bridge

For every set of datagrams, capacity of the channel and of the client's buffer,
and every configuration. None of the fairness is used.

- `ReasonInvariant`: `ExitStatusTold` says nothing of the time before `Run` has
  a result, so `ReasonInv` follows a reason to where it comes from: an error in
  `listenErr` has a fault of the listener behind it and a `nil` the cancelled
  context; a failed read has one of the two; and a socket that is closed while
  the listener may still read from it was closed by the cancellation.
- `ExitStatus`: `ExitStatusTold`.
  These two use no assumption on the constants.
- `BridgeTyped`: `BridgeTypeOK`, from `ShapeInv`, which says what the variables
  carry in each place that `Run` and the listener can be in (a datagram is held
  only while sending, work is left only while publishing) and has `EngineInv`
  inside it. `BridgeAssumption` types the datagrams and says that a malformed one
  has no items.
- `TailOnly`: `OnlyTheTailIsLost`, from `NumbersInv`: the numbers of the last
  datagram taken, of those queued and of the one held follow each other.
- `CountersSum`: `CountersAddUp`, from `CountsInv`: what is owed is counted or
  still in `work` and `emitting`.
- `StreamTells`: `StreamTellsMembership`, from `SentInv`, under the hypothesis of
  the subscriber above.
- `PipeRefinement`: `ImplementsMessagePipe`, with one lemma for each kind of step.
  `PipeRun` and `PipeListener` are the steps that change nothing in the pipe, and
  the ends of its life; `PipeTake`, `PipePublish`, `PipeEmit` and `PipeWatch` the
  ones that do.

### The configuration

For every set of fields, files, environments and settings, and any number of
settings typed. `ConfigAssumption` says that the three kinds of field are
different, that none is called `config`, `help`, `h`, `-` or like plain text, and that
texts consist of characters, among them those that the model writes itself. A
`Word` that is spelled like a flag is one (`IsWord`).

- `FirstWordsAre` and `Places`: the words of the settings stand one behind the
  other, and every word of the arguments is one of a setting. `Turns` again takes
  the place of an induction over the settings.
- `LoadInvariant`: `LoadInv` says of each stage what `cfg` is made of: defaults,
  the file over them, the environment over those. While flags are parsed
  (`BetweenSettings`) the flag package stands at the first word of a setting and
  has applied exactly the settings before it. `PeekFindsNamed` is the peek: under
  `Unambiguous` a word that looks like `--config` is the first of a setting, and
  of only one. `ReadsSetting` is one turn of the flag package, `OneApplied` what
  it does to the fields.
- `HighestLayerWins`: `PriorityOrder`, since all settings applied over the
  environment are what each field resolves to (`AllSettings`).
- `OnlyMistakesFail`: `ErrorsAreMistakes`. A flag that is refused is one that was
  typed, with its value, so that only the conversion can have failed.
- `PrefixesPublish`: `PrefixesGiveSubjects`, for every command line, also an
  ambiguous one. `ValidIsPublishable` shows that `validateSubjectPrefix` is exact:
  a text that is not empty passes if and only if it begins a legal subject. A
  character between two dots lies in the token after the last dot before it.

### Only model-checked

- The liveness properties of `Bridge` (`CancelReturns`, `NoRunWithoutListener`,
  `ListenerStops`, `QueueDrains`): liveness under fairness is out of the prover's
  reach.
- That coordinates within a quarter of the range make the products fit: it is
  about powers of two, of which the provers know nothing. The run checks it.

## Not modelled

- The single options of `broker.Connect`, handed to the client unchanged: it
  connects or it does not. The HTTP exchanges of `metrics.Serve`. The logger.
- Values of fields, JSON and the spelling of serials and unknown types
  (`unknown.go`, `events.go`). Colours and network times of events carry no
  decision.
- Conversions of durations, which fail and succeed like those of integers.
- The serial inside a position: the engine is fed the header's
  (`publish.go:75`), and the model has only that one.

## Plan

Done, in this order: engine, abstract membership, refinement and its proof; the
bridge around it; the decoder, framing and items composed; geometry; zones and
their events; configuration; the abstract bridge; proofs of every safety
invariant, action property and refinement that a run checks. What could follow:

1. A command line with `--config` repeated or out of place, once the code or its
   documentation says which file is meant.
2. The serials inside positions, when the engine is to follow them instead of the
   header's.
