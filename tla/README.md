# slom in TLA+

slom turns a declaration of service level objectives into Prometheus rules, a
document, sample series and Prometheus TSDB blocks. This directory holds a
formal model of it: TLA+ modules translated from the Go source, TLC
configurations that check them on small instances, and proofs checked by TLAPS
that hold for all instances.

Run inside this directory:

    tlc -workers 2 -config SeriesCompressor.cfg MCSeriesCompressor.tla
    tlapm SeriesCompressorProofs.tla

`PROJECT.json` lists components, runs, hazards, theorems and, for each
definition, the source lines it models.

## 1. The system

slom is a command line program. Each command is a pipeline of packages; there
is no long-lived state and, except for the TSDB backfill, which works with
processes of promtool and Prometheus, no concurrency.

```
spec file --parse--> SpecConfig --ToSpec--> Spec --RuleGenerator--> rule groups --> YAML/JSON
                                             |                            |
                                             +--ToDocument--> document    | (temporary file)
                                                                          v
series file --parse--> SeriesSetConfig --SeriesSetGenerator--+--> TSDBBackfiller: promtool, prometheus
                                                             +--> promtool unit test file (compressed series)
```

| Component | State | Operations | What is hard | What makes it correct |
|---|---|---|---|---|
| Spec conversion, `internal/spec` | per SLO: list of windows, map name to window, alerts | `ToSpec`, `toSLO`, `addWindow`, `toObjective`, `toAlert` | references by name through a map filled beside a list; optional fields that exclude each other; first error wins | accepts exactly the valid configurations; every reference resolves to a window of the same SLO |
| Rule generator, `internal/prometheus/rule` | list of groups and index by name; two lookup tables of recording rules by id | `GenerateRecordingRules`, `GenerateAlertingRules` | tables shared by all SLOs, keyed by strings; alerts read series by name that an earlier pass must have recorded; three paths choose a group | each SLO yields exactly its rules, in its groups, and where SLOs share a name the last one's windows count; no expression reads a series nobody records; readers come after writers in one group |
| Compressing series writer, `internal/prometheus/series/compress.go` | two latest samples, base and length of the run, a counter that doubles as fill level | write a sample, `Close` | "empty" fields hold numbers that take part in arithmetic; wrap-around; runs that end at any moment | the output expands to the samples written |
| Series generators, `internal/prometheus/series`, and `generate prometheus-series` | time, running totals, a buffer of failures, two compressing writers | merge of file and flags, `NewSeriesSetGenerator`, `generate`, `GenerateOpenMetrics`, `GenerateUnitTest` | a dropped error, writes that fail half-way, an interval of 0 or under a second, overlapping overrides, one label slice appended to twice | the output is the one the file stands for, or each pair cut at one point; timestamps increase; it returns |
| TSDB backfiller, `internal/prometheus/tsdb`, and `generate prometheus-tsdb` | temporary files, a port, promtool and Prometheus processes, blocks in two directories | `BackfillOpenMetricsSeries`, `BackfillRule` | processes: a port picked and released before it is bound, a process that is slow, hangs, exits or is orphaned, pipes that fill up, errors between any two steps, a killed command | ends unless a process it waits for hangs, cleans up, moves blocks only when Prometheus has stopped, loses no block, reports success only when everything is in place |
| Commands on a spec file: `generate prometheus-rule`, the rule part of `prometheus-tsdb`, `generate document` (`internal/document`) | the Spec, the generator, what is printed | check of flags, conversion, generation or `ToDocument`, printing | an order of checks that differs between commands; two passes over one generator; an objective without a window | each ends as its input demands and prints exactly what its file stands for |
| Printers, configuration files, command tree | none of their own | YAML decoding, encoding, templates, cobra | libraries' | |

`PROJECT.json` "hazards" lists, at its line, what can go wrong in each.

## 2. Modules

| Module | Models |
|---|---|
| `SLOSpec` | the data a `Spec` consists of, and `WellFormed`, the contract between conversion and generation |
| `SpecConversion`, `MCSpecConversion` | `ToSpec` |
| `RuleGenerator`, `MCRuleGenerator` | `RuleGenerator` and the order the commands call it in |
| `SampleStream` | abstract: a writer that flushes a growing prefix of what it is given, and all of it on close |
| `SeriesCompressor`, `MCSeriesCompressor` | the compressing writer, shown to implement `SampleStream` |
| `SeriesGenerator`, `MCSeriesGenerator` | `generate prometheus-series`, and the same generation within `prometheus-tsdb`; composed with two instances of `SeriesCompressor` |
| `SpecCommands`, `MCSpecCommands` | the commands that read a spec file: `SpecConversion`, then `RuleGenerator` or `ToDocument`, then a printer |
| `Backfill` | abstract: what runs of `generate prometheus-tsdb` may do to the TSDB directory |
| `TSDBBackfill`, `MCTSDBBackfill` | those runs with their temporary files and their promtool and Prometheus processes, shown to implement `Backfill` |
| `RunPromtool` | `runPromtool`: two pipes, one reader |
| `RuleGeneratorProofs`, `SpecConversionProofs`, `SpecCommandsProofs`, `SeriesCompressorProofs`, `SeriesGeneratorProofs`, `SeriesOutputProofs`, `TSDBBackfillProofs`, `RunPromtoolProofs` | proofs |

**SpecConversion.** One action per step of `toSLO`: a window (`ConvertWindow`:
`toWindow` and `addWindow`), the objective, the indicator, an alert, and the
return to the loop of `ToSpec`, which starts the next SLO with a fresh
`specContext`. Every error return is the disjunct `Fail`. A configuration keeps
which alternative fields are present, what names it refers to and whether texts
parse (`Bad`); an omitted reference is the empty name, as in the code.

**RuleGenerator.** One action per rule added. `i` and `k` are the positions in the
loops over SLOs and over windows or alerts. The map from group names to
pointers is a map to positions in `ruleGroups`, so that a group present in one
and not the other can be expressed. `AddRule` is `getOrCreateRuleGroup` and the
append every caller does with the result. A rule keeps the series it records,
its `slom_id`, and the series its expression reads; an expression taken from
the SLI, a constant or empty reads none. A name is a record of what its text is
composed of. All SLOs of a run share the spec's name, so an SLO's id is its
name. Nil dereference is the phase "panic".

**SeriesCompressor.** `w` holds the writer's fields with their Go meaning, on ints
of a small width (`MaxInt`) with wrapping subtraction, and two history fields: the
tokens printed and the samples they expand to. `Close` is the two calls the code
makes, not a flush. Samples stay within a quarter of the range of int, as
counters do, so that differences of samples do not wrap while differences with
the initial `math.MaxInt` do.

**SeriesGenerator.** One action per step of a command: the checks before any output,
a metric family's header, a pair of series, a turn of the loop of `generate`, the
copy of the buffered failures, the end. In OpenMetrics a point's success goes to
the output and its failure to `buf`; in a unit test each goes through its own
writer in `csw`, whose code is that of `SeriesCompressor` (`C!writerFunc`), and
`Closed` is the two writes of its `Close`. Every write to the output may fail after
any number of its lines and may leave a torn line, which spoils the line that
follows; the code ignores such an error inside `generate`, and `dropped` remembers
that. Time counts ticks, `Second` of them a second, so that an interval can be
shorter than the resolution of a timestamp (`Unix`). `Draw` stands for the
binomial distribution, which the code seeds with a constant. A unit test file is encoded
at the end, in one write; when it fails the model leaves nothing of it, although the encoder
may have flushed a beginning. The command then returns an error, and no property is about
what an error leaves. `window` is what
`prometheus-tsdb` hands on to the backfill of rules. Label slices are values; the
hazard of appending to one array twice is the mutant `generateLabelsShared`. The name
of a series is its family's name, the labels of its pair and the value of its status;
nothing in the code makes names distinct (`DistinctSeries`). Totals are ints of the
width of the writer's (`MaxInt`) and wrap as Go's do (`Add`); nothing in the code looks
at the size or the sign of a throughput.

**SpecCommands.** `Conv` and `Gen` are instances of `SpecConversion` and
`RuleGenerator` on the same variables: the `slos` the first builds is the `spec` the
second reads. The order of checks is each command's own: `prometheus-rule` looks
at the type before it opens the file and at the format after the conversion;
`document` looks at the format only when it has a `Document`, which `ToDocument`
builds or panics over. Opening, parsing and printing are steps that may fail;
`fault` remembers it. A template that does not parse is treated as an unknown
format: both are errors of `NewPrinter`. `Prometheus` is the conversion of the
groups to what is printed.

**TSDBBackfill.** A job is a run of the command. Deferred calls are a stack, pushed
where the code says `defer` and popped one by one on return; an error anywhere
unwinds all, a success of the inner `backfillRule` only its own two. The Prometheus
of a job is a separate process (`server`): created by `StartProcess`, it binds
its port later, becomes ready later, may hang (accept and never answer) or exit
at any time, and finds its port taken when another job's server was faster. The
readiness check asks the port, not the process, so any ready server on it answers,
and any hung one blocks the check. promtool is a process too (`promtool`): it
writes the blocks of the series straight into the TSDB directory, those of the
rules into the temporary directory, one at a time, each rule block from whichever
server answers, and a block remembers whose data it holds. A job may be killed
between any two steps; its promtool and its Prometheus go on. So does its promtool when a
read of its output fails (`ReadFails`): `runPromtool` returns the error without stopping or
waiting for the process, which goes on writing while the job unwinds and after it ended, and
may recreate the temporary directory the job has removed. `contended` and `abandoned` are
history variables. The context is `context.Background()` in every command, so its
cancellation is left out. The writing of the rule file and `MkdirTemp`, two
successive steps that may fail without leaving anything but the rule file, are
one action. `RemoveTemp` is one step too: a kill within `os.RemoveAll`, which would leave part
of a temporary directory, is not told apart from one before it. Each job has a TSDB directory of its own.

**Backfill.** A job's outcome, the rule blocks computed for it and the blocks it
added. Series are added before anything is computed from rules, rules are
computed while no other rule block is in the directory, success means complete, and
nothing is taken back. Series may be added and blocks computed after a run was killed or
has failed, by the promtool it left. The refinement maps the position of a job to its outcome
and forgets processes, ports, files and whose data a block holds.

**RunPromtool.** promtool follows a plan, a sequence of writes to its two streams,
and blocks on a full pipe; the caller copies stdout to its end, then stderr, then
waits. `TSDBBackfill` uses its outcome (returns, with success or not) as one step.

## 3. Runs

| Run | Question | Bounds |
|---|---|---|
| `rule_generator_single` | one SLO: right rules, right groups, no series twice, no failure while recording | all SLOs with at most two windows (type, duration of 2, interval of 2), any objective, at most one alert; 22,739 states |
| `rule_generator_pairs` | several SLOs sharing the tables, and sharing a name: what is generated, what twice, what fails | pairs of SLOs with equal or different names over four window lists, at most one alert each, and single SLOs with two alerts; 99,863 states |
| `rule_generator_expressions` | does every window record the SLI? *violated* | as `rule_generator_single` |
| `series_compressor` | is the output the input, and does it implement a series writer? | int of 5 bits, every series over -3..3 without -2 of up to 6 samples; 111,974 states |
| `series_compressor_complete` | does `Close` write the rest? *violated* | short series of counters |
| `spec_conversion` | which configurations are accepted, and as what? | 12,663 configurations: single SLOs with two windows each right or wrong in one way and any alert, and pairs of SLOs; 53,280 states |
| `series_generator` | is the output the one the file stands for; does it return? | files of up to two families and two pairs, some of which name one series twice, two overlapping overrides, intervals of -1, 0, 1 and 2 ticks with 2 ticks a second (3 by flag), windows of up to 6 points by file or flags, every format, throughputs whose totals decrease or wrap around an int of 8 bits, an error at every write; 200,792 states |
| `spec_commands` | how does each command end, what does it print, and can Prometheus evaluate it? | files of no SLO, of one SLO with every use of up to two windows or one mistake, and of two SLOs, of one name or of two, with alerts of both kinds; every command, type and format; 103,797 states |
| `spec_commands_document` | does `document` panic? *violated* | as `spec_commands` |
| `tsdb_backfill_two` | two jobs at once | 2 jobs, 2 ports, 2 checks, 2 rule blocks, symmetric jobs; 2,235,854 states |
| `tsdb_backfill_one` | one job, all parts, liveness, refinement | 5 checks as in the code, 2 series blocks, 3 rule blocks, all four combinations of flags; 4,817 states |
| `run_promtool` | can the call block? | pipes of 2, every plan of up to 7 writes; 3,009 states |

The bounds are enough in this sense. The rule generator looks up by id and
window name: one other SLO, one other window and one other alert is all a lookup
can be confused with. The writer looks at three samples at a time and its
history empties after each run, so every path between two runs occurs within the
length; the proof removes the bound. A conversion context holds two windows when
references can be confused. A series window of 6 points holds a point before, in the
overlap of, between and after the ends of two overrides, and every remainder of
window and interval; labels of length 3 are where an append in Go may find spare
capacity. A command looks at each SLO by itself except through the generator's
tables, which `rule_generator_pairs` covers. Two jobs suffice for a port to be shared; two blocks
for one to be moved and the next not, or for two sources to be mixed. A pipe of 2
with plans of 7 overflows either stream at any point of the other.

Three runs end in a violation, each of what a document or a test of the
repository says:

* `RulesHaveExpressions`: a calendar window is accepted, and produces rules with an
  empty expression, which Prometheus refuses to load.
* `ClosedSeriesComplete`: `Close` flushes by writing `math.MinInt` and then 0. If
  the last sample is 0 the second of these makes the writer treat it as part of an
  unfinished run, and it is not written: `[0]` becomes nothing. A counter
  of failures that stays at 0 is such a series.
* `DocumentNeverPanics`: the document command panics on an SLO whose objective has no
  window, a file that `ToSpec` accepts and the other commands work with.

Other facts the runs establish, worth knowing although no document speaks of them:

* two SLOs may have one name, and two windows one duration; `ToSpec` accepts both. Then
  series are recorded twice (`SeriesRecordedOnce` says that nothing else records one
  twice), the alerts of all namesakes see the windows of the last one (`SeenWindow`,
  `SeenObjective` in `OutputIsReference`), and `prometheus-rule` panics on a nil window
  when the first alert of an SLO without objective window is on the error budget and a
  namesake has one (`FailureExplained`, `OutcomeExplained`). No rule reads a series
  that is not recorded even then (`ReadsRecorded`, `PrintedEvaluable`); only that the
  recording rule comes earlier in the same group needs distinct names (`SourcePrecedes`);
* an alert of either kind makes the generator fail when its SLO's objective has no
  window, so `type: all` refuses files that `type: record` accepts (`FailureExplained`);
* the series command succeeds with a truncated series when a write fails inside
  `generate`, but both series of a pair are cut at the same point
  (`TruncatedEvenly`); an interval of less than a second yields two values for
  one timestamp (`TimestampsIncrease` excludes it), and one of 0 an endless loop
  (`Returns` excludes it);
* a file may name one series twice, by two families or pairs with the same name and
  labels or a status with one value for both outcomes; no check refuses it and the
  series then has two values at a time (`DistinctSeries` excludes it);
* a promtool whose job was killed, or has failed to read its output, goes on writing
  blocks (`Backfill` allows it), and in the second case may leave a temporary directory
  behind (`TempsRemoved` and `BlocksConserved` have this exception);
* a process that accepts and does not answer blocks the command for ever
  (`EndsUnlessStalled` says that this is the only way);
* the help text of the backfiller flag offers `docker` (`tsdb.go:211`), which `run`
  refuses (`tsdb.go:37-42`); no property depends on it;
* a Prometheus that is not ready after five checks is left running
  (`ServerStopped` has this exception);
* rule results can come from another job's TSDB, but only when two jobs
  claimed one port at the same time (`ForeignOnlyIfContended`); the process
  started for a job may have exited long before;
* `runPromtool` blocks for ever when promtool fills the pipe of stderr before it
  closes stdout (`StuckOnlyOnStderr`), and in no other way;
* totals wrap around, or decrease, when throughputs are large or negative, and are
  written all the same under `# TYPE counter`; `OutputIsReference` is about the totals
  as ints compute them.

Deadlock is not checked (`CHECK_DEADLOCK FALSE`): all of these programs stop.

## 4. Fairness

`SeriesGenerator` assumes weak fairness of `Next`: the code is sequential and nothing in
it blocks. It is not fairness that makes the loop of `generate` end: `Returns` has the
premise that the interval is positive or the window empty. `TSDBBackfill` (`FairSpec`) assumes that a job
takes steps unless it waits for a hung process (`Stalled`), that promtool, a process of its
own, does unless it waits for the answer of one (`PromtoolStalled`), and that a Prometheus
sent SIGTERM exits unless it hangs; nothing is assumed of when it binds,
becomes ready, hangs or exits by itself. `RunPromtool` assumes that each of the two
processes runs whenever it is not blocked; this is where "promtool exits" is reduced
to how much it writes to stderr. `SpecConversion`, `RuleGenerator`, `SpecCommands` and
`SeriesCompressor` state no liveness and assume no fairness: their loops are ranges over
slices that nothing extends, so that they end is no question a run could ask.

## 5. Proofs

All are proved for every value of the constants that satisfies the named
assumptions: any set of specs, any series, any list of configurations.

**RuleGenerator** (`SpecsAssumption`: the specs are lists of well-formed SLOs). The
inductive invariant is `IInv`: typing; `WindowsRecorded`, that the windows of
the current SLO passed by the loop are in the table, which is what makes the
lookup of the error budget rule succeed; `IndexSound`, the converse of
`GroupsIndexed`; and the three properties. `AddRuleStep` shows once that adding
a rule keeps the groups and their index in agreement and adds that rule and
nothing else to the output; each action then only shows that what its rule reads
is recorded already. Theorems: `TypeCorrect`, `GroupsCorrect`, `LookupsCorrect`,
`ReadsCorrect`, `RecordingSucceeds`.

A second invariant, `OInv`, says what the whole output is. It relates the output to how far
the loops are. `Complete`: what the loops have passed is in the output and is what the
tables hold, and an alert that was passed could be generated. `Sound`: the output holds
nothing else. `RecordsTaken`: a series in the output was recorded at a position already
passed, so that a later step that records it again does so for a namesake or for a window
of the same duration (`Once`). `Held`: an entry of the tables is what the last SLO passed
that has that name and that window, or an objective's window, put there; it is what makes the
tables mean something when they are shared by SLOs and keyed by name, and at the end of the
first pass it is `SeenWindow` and `SeenObjective` of the reference. These hold for every spec.
`Precede`: a rule comes after the rules it reads, because `AddRuleAt` puts a rule last in the
one group of its name and the rules it reads, recorded before, are in that group. This part
alone rests on the hypothesis that no two SLOs have one name: an alert that finds a
namesake's rule may be put in another group. `Ended` says which alert ended a generator that
failed or panicked: the first one of the first SLO that has alerts and no objective's
window. Theorems: `OutputCorrect`, `RecordingCorrect`, `OrderCorrect`, `FailureCorrect`.

**SeriesCompressor** (`ValuesAssumption`). The invariant says what the fields mean
for each value of the counter, that is which suffix of the written series they
stand for; `Lossless` is that suffix appended to what was decoded. Theorems:
`TypeCorrect`, `LosslessCorrect`, and `StreamImplemented`, the refinement of
`SampleStream`, for series without -2: to the empty history a first sample of -2
looks like the third of a run, because the difference wraps. `GreedyCorrect` is about
neighbours in the output. `AllFit` says that no token could have been part of the ones
before it, and `HeldFits` that what the writer still holds, as single samples or as the run
it is so far, would fit after the last of them: a sample that breaks a run was compared with
what the run predicts, and the comparison is exact because differences of samples do not
wrap (`HeldStep`). The two writes of `Close` are treated apart (`CloseFits`), since the
`math.MinInt` they pass is no sample and its differences do wrap.

**SeriesGenerator** (`InputAssumption`, the types decoding leaves; `TimeAssumption`;
`IntAssumption`, which bounds throughputs and draws by the width of an int and by
nothing else: any number of families and pairs, any throughputs, any window, any interval,
any format). The invariants build on each other.

- `IInv` says of the two places a sample can be in: `Placed`, that a sample in the output is
  of a pair already finished, or is a success of the pair in hand, earlier than its next
  point; `Buffered`, that the failures that wait are of the pair in hand, in order. A write
  that fails half-way is the addition of some of its lines (`Adds`), so one lemma about what
  a write may add serves every action that writes. Appending the buffer when the loop has
  ended, or was cut short by an error nobody sees, then finds no sample of that series in
  the output: `TimestampsCorrect`.
- `TInv` adds typing and `Started`, that whatever is generated was accepted, so that a pair
  has exactly one kind and its rates are ints (`RatesType`); the types of the two writers
  come from `SeriesCompressorProofs` (the instance `CP`): `TypeCorrect`.
- `WInv`, in `SeriesOutputProofs`, follows how far a pair is: while no error is dropped no
  line is torn, so that a write only appends (`UntornWrite`); a pair in hand is at its first
  point or has both its first and its previous point, successes in the output and failures
  in the buffer (`PairReaches`); a pair that is done has points up to one whose successor is
  past the end (`PairsReached`). With an interval of 0 or less no pair is ever done
  (`Endless`), so that success means a file without series: `WindowCorrect`.
- `PInv` says that the generator is where its points take it: its time and totals are those
  the configuration means (`Counted`), the failures that wait are the lines of the points so
  far (`Held`). `RatesMeant` shows that the loop over overrides finds what the reference
  chooses, `TotalMeans` that the recursive function `Total` is defined; as no induction over
  data is available, that partial sums exist is shown with the least length that had none
  (`SumsExist`). `UInv` says the same of a unit test: what a writer has printed, decoded,
  and what it holds back are the totals so far (`Compressed`), for totals that the writer
  can subtract.
- `EInv` says that the output is filled up to where the program is. `OutputIsReference`
  tells each line by its place in an order of slots (family, pair, success or failure,
  point), and the place of a slot is one more than the number of slots that precede it.
  `Cursor` is the slot of the next line; `Full`, that as many lines are written as slots
  precede it, each the one wanted. The lemmas from `HelpPlace` to `LastPlace` count which
  slots each action moves the cursor past, and `FillMore` fills them: `OutputCorrect`.
- `TruncInv` takes the place of `EInv` when errors are dropped: a pair that is done has both
  its series in the output without interruption and up to one point (`Even`); the pair in
  hand has its successes up to its last point, at the end of the output while the loop runs,
  and no failures; later pairs have nothing (`Truncated`). As long as no line is garbled
  every write, a failed one included, only adds lines at the end (`CleanWrite`,
  `CleanFailure`): `TruncationCorrect`.

**SpecConversion** (`ConfigsAssumption` and the assumptions on the optional-field
markers). The invariant `IInv` adds to the three properties that the objective and the
alerts converted so far refer to windows of the context. `RInv` says that the context is
what the part of the configuration passed so far means, that the SLOs converted are
what their configurations, all valid, mean, and that an error is explained by an invalid
one; under it, each test of the code is the conjunct of `Valid` about that part
(`AlertParts`, `ValidParts`). Theorems: `TypeCorrect`, `ContextCorrect`, `ConversionCorrect`, and
`ConversionWellFormed`, which discharges what the rule generator assumes of each SLO.

**SpecCommands** (`ConversionAssumption`: any list of configurations). The proof composes
those of its two parts. `CP` and `GP` are the proof modules of the conversion and of the
generator on the variables of the commands; the lemmas from `SameWindow` to `SameGeneration`
show that their definitions are those of `Conv` and `Gen`. `CInv` and `GInv` are the
invariants of the parts. At the step from one to the other (`GenerationStarts`) what
`ConversionWellFormed` says of the SLOs is what the generator assumes of its spec; before that
the generator's variables are untouched (`Fresh`). `ConversionEnds` and `GenerationEnds` say what each
part leaves, `Understood` and `PrometheusOutput` relate it to the configurations, and
`Progress` says for each position in a command which checks it has passed. Neither
`OutcomesCorrect` nor `PrintedCorrect` supposes anything of the names of SLOs. `EvaluableCorrect` draws from
the generator's invariants what matters to the Prometheus that loads a printed file, and does
so for any spec: no two groups have one name, each series that a rule reads is recorded under
`record` by a rule of the file with the same id, and, only this with distinct names, an
earlier rule of the group records one of those it reads. For the second part the invariant of
the generator says that no expression reads an alert (`SeriesRead`): the printer gives an
alert another name than `record`. Theorems: `OutcomesCorrect`, `PrintedCorrect`,
`EvaluableCorrect`.

**TSDBBackfill** (`JobsAssumption`, `PortsAssumption`: any set of jobs, any ports, any
number of checks and blocks, 0 included). The inductive invariant is typing, `JobInv`
of each job, and two relations between jobs.

- `JobInv` explains each property by what the code has deferred. A temporary file
  that exists is on the stack of deferred calls (`FilesDeferred`), or is the directory a
  promtool the job left has recreated (`Recreated`); the stack is empty when
  the job ends (`Unwound`): `TempsRemoved`. `close` is on that stack at most once and on
  top (`CloseLast`), and a running Prometheus is being checked, has its `close`
  deferred, was given up after the last check, or was left by a kill (`ServerKept`):
  `ServerStopped`. Blocks of rules are in the TSDB directory only when everything else is
  done (`RulesLast`): `MovedAfterStop`. A promtool that runs is waited for, or was left by a
  kill or by a read that failed (`PromtoolKept`). `DirectoryKept`, `SeriesFirst`, `Conserved` and
  `SuccessComplete` follow the blocks from promtool to the TSDB directory and are what
  the refinement needs.
- `Picked` makes `ForeignOnlyIfContended` inductive: it says of every two jobs, before
  either has read a rule, that whoever may come to answer on a port a job claims picked
  that port while it was claimed, or claimed it when the job picked it.

`OthersUntouched` shows once that a step of a job changes nothing of another, and
`StepOnward` where control and result may go, so that each part of `JobInv` has one
lemma over the few actions that disturb it. Theorems: `TypeCorrect`, `TempsCorrect`,
`ServerCorrect`, `MoveCorrect`, `BlocksCorrect`, `ForeignCorrect`, and
`BackfillImplemented`, the refinement of `Backfill`, in which a step of any process is
one of the abstract steps or a stutter (`StepImplements`).

**RunPromtool** (`PipeAssumption`: any capacity, any amount of output in any order). The
invariant says that the reader leaves a stream only when promtool has exited and the
pipe is empty (`StreamsDrained`), and `Conserved` bounds what is read by what is
written. With these, a step is missing only when promtool waits to write to a full stderr
while the caller reads stdout (`StuckCorrect`, the second part of `StuckOnlyOnStderr`); and
when all that promtool has to write to stderr fits in the pipe (`StderrFits`, an invariant of such
plans), one of the two can always go on (`NeverStuckIfStderrFits`). Theorems:
`TypeCorrect`, `SuccessCorrect`, `StuckCorrect`, `NeverStuckIfStderrFits`.

**The safety halves of liveness.** That a program ends follows from two facts that need no
fairness: its steps run out, and until it has ended it has a step. Both are proved for each
module in the table. For `SeriesGenerator`, `TSDBBackfill` and `RunPromtool`, which state
liveness, what remains with TLC is the temporal reasoning that joins them under fairness, and the identity of `CanStep`, a formula over the guards, with `ENABLED`,
which the provers cannot expand (in `RunPromtool` it is part of `StuckOnlyOnStderr`).

| Module | What each step lowers (`StepsRunOut`) | When there is a step (`NeverBlocked`) |
|---|---|---|
| `RuleGenerator` | passes and SLOs left, then windows or alerts left | until both passes are done, or one failed or panicked |
| `SpecConversion` | configurations left, then windows and alerts left of the current one | until `ToSpec` returns |
| `SpecCommands` | stages of the command left, then what the conversion or the generation has left | until the command returned or panicked |
| `SeriesGenerator` | families left, pairs left, ticks left to the end of the window; if the interval is positive or the window empty | the same, if `MaxPoints`, which bounds the loop in the model, is no smaller than the window |
| `TSDBBackfill` | one natural number per job (`JobsRunOut`): its place, deferred calls, checks, blocks to write and to move, processes. Nobody else's step changes it | unless the job is `Stalled` (`JobsNeverBlocked`) |
| `RunPromtool` | what promtool has to write, what the pipes hold, and the place of each | when what goes to stderr fits in its pipe (`NeverStuckIfStderrFits`) |

In `RuleGenerator`, `SpecConversion` and `SpecCommands` what the table says is no more than
that ranges over slices end and that no combination of results is left without a branch, which
is why no run checks it.

Where loops are nested the counts form a lexicographic order, and `StepsRunOut` also states that
it has no infinite descent (`FewerWellFounded`, from the library's theorems on well-founded
relations): one turn of an outer loop may add any number of inner ones, since specs and files
have any size. In `SpecCommands` the two facts are composed of those of the parts. In
`SeriesGenerator` the invariant `Underway` says that the loop of `generate` is a tick or more
further with each point, and that an empty window is at its end from the start; no bound on
the points of a series enters the count. In `TSDBBackfill`, `Started` says that a promtool that is
waited for runs and that a Prometheus that is waited for was started, so that no job waits for
what never was.

Only model-checked, because the provers do not reach it: liveness itself (`Returns`,
`EndsUnlessStalled`, `ReturnsIfStderrFits`), and the first part of
`StuckOnlyOnStderr`, that `CanStep` is `ENABLED Next`. All other properties of the passing
runs are theorems, with the premises they have in the runs. `OutputIsReference` of
`SeriesGenerator` says less of a unit test than of OpenMetrics: a last 0 of a series may be
missing, and where totals leave a quarter of the range of int or start with -2
(`Compressible`) only the series' name and place are stated. The three
properties of the runs that expect a violation are false.

## 6. Not modelled, and the plan

Left out for good:

- YAML and JSON encoding and decoding, and the templates of `print/template.go`:
  libraries' work, without state; a failure of either is a step of the model.
- The parsing of flags and the tree of cobra commands, which only return early or
  dispatch.
- The text of PromQL expressions, labels, annotations, ratios and thresholds: copied,
  and no other part of the code reads them again. Which series an expression reads is
  modelled.
- What Prometheus does to its own blocks (compaction, retention), which is outside the
  repository.
- Two runs on one TSDB directory: the code takes no lock and promises nothing there.
- The cancellation of the context, which the command never does.

What could be added: `TSDBBackfill` with `RunPromtool` as a component, so that its wait for
promtool ends under the condition of `ReturnsIfStderrFits` instead of by assumption. The
theorems `NeverStuckIfStderrFits` and `StepsRunOut` are the safety half of what that needs.
