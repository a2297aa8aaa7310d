# A TLA+ model of jniprobe

jniprobe traces the JNI calls of a running Android process: it finds the table of JNI
functions in the target's memory, attaches a uprobe to each function and a uretprobe to
some, and prints what the two BPF programs report. This directory holds TLA+ modules that
model that pipeline, TLC configurations that check them on small instances, and TLAPS
proofs for every size. `PROJECT.json` lists components, runs, mutants, the source lines of
every definition, findings, hazards and theorems.

    tlc -config PairingLossy.cfg MCPairing      # a run
    tlapm PairingProofs.tla                     # a proof

## 1. Inventory

| Component | State | Operations | Interacts with |
|---|---|---|---|
| probes, `bpf/recon.bpf.c` | ring buffer `events`, maps `hasret`, `depth`, `argkind`, `argidx` | `up_all` at entry, `up_ret` at return | the target's threads run them; the loader fills the maps and reads the ring buffer |
| argument snapshot, `capture` | `cap`, `cap2`, `vgr`, `vgoff` of a record | one of three copies | read by the decoders, later, in the loader |
| offset discovery, `offsets.go`, `target.go` | offset -> slot | scan of the memory, file | reads the live target |
| attachment, `runProbe` | links, `retSet`, `hasret` | two loops, reader | the target runs meanwhile |
| event loop, `runProbe`, `handleReturn` | `frames`, `counts` | an entry, a return | ring buffer, filters, caches |
| filters and commands, `filters.go`, `applyCommand` | `filters` behind a mutex | `only`, `exclude`, `from`, `grep`, `mode`, `clear`, `stats`, `quit` | a goroutine of their own changes what the loop reads |
| decoders, `decode.go` | cursors | `decodeA`, `decodeV`, `decodeDirect` | the snapshot |
| name caches, `caches` | `idName`, `idClass`, `classNames`, `nameByClass`, `objClass`, `jstr` | fed by `handleReturn` | late reads of the target's memory |
| module cache, `modCache` | a copy of the maps behind a mutex | `reload`, `of`, `lookup` | a goroutine reloads every two seconds, the event loop on a miss |
| env probe, `envprobe.bpf.c`, `env.go` | `seen`, the file of offsets | one-shot capture | writes what offset discovery reads |
| schema, rendering, command line, stacks, dump | none | pure or I/O | |

The hard behaviours:

* *Pairing across a lossy, lagging channel.* A return record does not say which function
  returned; it is joined with an entry by (tid, depth), the depth is counted in the kernel
  in a map of bounded size, and both kinds of record may be dropped. The loader's `frames`
  is always behind the target. Correct means: a return is shown with its own entry.
* *Attaching to a running program.* Several hundred probes one at a time, entries first.
* *A target that exits* in the middle of a scan whose reads are not checked. Correct means:
  what is probed are the functions of the tables, all of them and nothing else.
* *Two codes that have to agree on a layout*: the BPF program copies parts of a `va_list`,
  the loader interprets them. Correct means: each parameter is shown with its argument.
* *Names read late.* A record holds addresses and references; texts and objects are read
  from the target's memory when the record is handled, after the target has gone on. Correct
  means: what is shown is what the call had, or a number.
* *One cache, two goroutines* that both replace it, one of which reads the maps before it
  takes the lock. Correct means: each answer and each frame comes from one snapshot, and a
  library that was loaded before `of` began to reload is found (a miss of a snapshot younger
  than 300 ms is final).
* *Filters that change while a line is decided.* Correct means: no frame leaks, the two
  lines of a call agree, and the trace can be ended.

## 2. Modules and the code they model

**Recon** (kernel side). `rets` are the calls of each thread whose return the kernel will
report; `ring`, `prod`, `cons`, `busy` the ring buffer with its busy bits; `mapped` and
`depth` the hash map. A BPF program is two steps, reserve and submit, so that records of
other threads come in between: `up_all_reserve`/`up_all_submit`,
`up_ret_reserve`/`up_ret_submit`. `up_all_full` and `up_ret_full` are the early returns when
`bpf_ringbuf_reserve` fails. `UpdateDepth` fails silently for a new key of a full map.
`AttachUprobe` and `AttachUretprobe` are iterations of the two loops of `runProbe`, whose
errors are dropped. The kernel's limit on pending return probes is `UretCap`. `skewed` and
`stray` are ghosts, which no guard reads: the threads of which a call was counted and will
not be un-counted, or the reverse, and the calls that returned on such a thread.

**Pairing** composes Recon with the event loop: `HandleEntry` puts a frame under
(tid, depth), `handleReturn` finds and deletes it and reports which call it took the return
for; `SkipRecord` is `--tid`; `OpenReader` comes after all probes, `CloseReader` ends the
trace. **PairingInv** holds the inductive invariant; **PairingProofs** has the proofs.

**CallTrace** is the abstract specification of a trace: calls open and close like brackets on
each thread, a return waits to be read, and the returns of a thread are shown in their order,
each with the entry of its own call. It knows no probes, depths, frames or ring buffer. With
`Lossy` an entry or a return may be lost, after which nothing is promised of *that* thread.
**PairingRefines** maps Pairing to it: `made` is `ncalls`, `open` is `rets`, `broken` is
`skewed`, `excused` is `stray`, `shown` is `reports`, and `waiting` are the submitted return
records of the ring buffer. The return of a call happens, abstractly, when `up_ret` submits.
**PairingRefinesProofs** proves it, for the lossy case and for a trace that loses nothing.

**OffsetScan** is `offsetsFromScan` word by word: `Step`, `FoundTable`, `Record` (the second
read of a slot, whose failure is ignored and yields 0), `NextRange`, `ScanEnd`; then
`ReadFile` and `CheckOffsets`. `Exit` kills the target at any point. **OffsetScanProofs**
has the proofs.

**ArgDecode** starts from where AAPCS64 puts the arguments of a call (`Loc`, external), and
has the three branches of `capture` and one action per loop body of the decoders. A word is
the number of the argument it holds. **ArgDecodeProofs** has the proofs.

**TraceLoop** is the event loop again, now with what it shows: `ReadEntry`/`EntryLine` and
`ReadReturn`/`ReturnLine` are the halves of an iteration before and after the second lock
of the filters; the commands, `stats`, `quit`, the signal and the timer of `--run` are
actions of other goroutines. The probes are ideal here (no loss, right depths), which is
what Pairing shows of a thread that lost nothing. `log` records, for each record, what was
decided, by which filters and between which commands. **TraceLoopProofs** has the proofs.

**EnvProbe** is `jniprobe env`: `up_lnl` and `up_cnt` with the map `seen` and one step per
call of `emit`, in several processes at a time; `SkipDump` and `WriteFile`, the loop of
`runEnv`; and `offsetsFromFile`, what a later trace loads. The ghost `missed` says that the
dump of a JNIEnv was lost, or is not recognised because its slots could not be read.
**EnvProbeProofs** has the proofs.

**NameCache** has the six maps of `caches`, one action per JNI function that feeds or uses
them, on the target's side (external: references are created, deleted and given to another
object, buffers written and unmapped) and on the loader's (`FeedFindClass`,
`FeedGetMethodID`, `FeedObject`, `FeedString`, then `fmtRet`; `describeCall` with `classNameOfRef` and
`objClassName`). `cstr` and `resolveObj` read the memory as it is *now*, which is the
hazard. Pairing is ideal here. Ghosts say what excuses a wrong name: `reused` references,
`tainted` cache keys (filled from a buffer or slot that had changed since the call), `torn`
ids (whose name was lost that way), and `got`, the ids that a watched thread has got.
**NameCacheProofs** has the proofs.

**ModCache** is `modCache`: `Wake`, `ReloadRead` (without the lock), `ReloadLock`,
`ReloadRanges`, `ReloadBias` are the goroutine; `OfFind`, `OfLock`, `OfRead`, `OfRanges`,
`OfBias`, `OfName` the two critical sections of `of`; then `lookup`, for frames of stacks.
`Change` and `Exit` are the target's. `hist` has all contents the maps ever had, and a
snapshot is a number of it, so that "older" means something; `since` and `round` are ghosts.
**ModCacheProofs** has the proofs.

The MC modules only define the constants of the runs.

## 3. Runs

Passing runs:

* `pairing_lossy`: 2 threads, 3 calls, a ring buffer of 3 records, a depth map with one
  key, 2 pending returns, attach errors, a target that runs during attaching. `TypeOK`;
  `NeverMispaired` and `PairedWhenMapped`: whatever *other* threads lose, a thread that lost
  nothing is paired with its own entries, or, without a key in the depth map, with none;
  `FrameUsedOnce`; `DepthCountsFrames`; `IInv`, the invariant of the proof; and `LossyTrace`,
  the refinement of the lossy CallTrace. Every loss
  occurs with a nested call before and a return after it, so three calls reach each case;
  the proofs remove the bound.
* `pairing_quiet`: the target waits for the probes, the ring buffer is large; `--tid` lets
  one of two threads through. `EveryReturnPaired`; `ExactTrace`, the refinement of the
  CallTrace without losses; and, under fairness, `EveryRecordRead`: the reader never stays
  behind a busy record.
* `offset_scan`: all memories of up to three pieces (two different tables, stray words, a
  cut-off table) in one range, and pairs of ranges; tables have 7 slots, so that they can
  touch and be cut off, instead of 233. `EveryTableProbed`, `OnlyTablesProbed`,
  `TablesCounted`, `Resolves`.
* `env_probe`: two processes, one with two threads, three calls, a ring buffer of two dumps,
  room for one process in `seen`, dumps with and without failed reads, and a table of 4 slots
  in dumps of 6 words. `this` of `LoadNativeLibrary` points to words that pass for a table.
  `FileIsTable`, `LoadedIsTable`, `DumpsEndInFile`.
* `arg_decode`: all signatures of up to 8 parameters, 5 general and 2 vector registers,
  snapshots of 5 words: every register class and every snapshot overflows, and any read may
  fail. `ShownRight`: each covered parameter is shown with its argument; one whose word could
  not be read as 0 or unknown, never as another argument.
* `trace_loop`: 2 threads, 2 calls, one command anywhere, three kinds of function, filters
  by category, word and regular expression. `TypeOK`, `FramesAreOpenCalls`,
  `ReturnShowsItsCall`, `LinesComeInPairs`. One command is enough to fall between any two steps of a call.
* `trace_depth`: one thread, three nested calls (the least that exceeds `--max-depth 1`),
  with `--run`; the same invariants and, under fairness, `RunEnds`.

* `name_cache`: two threads of which one is watched and owns two local references, one global
  reference, one method id, three buffers, four operations of the target, with and without
  access to its memory. `CallShownRight`, `RefsShownRight`: deleting a reference never makes
  a name wrong, only giving it to another object does; `AttachedIdsKnown`. Four operations are
  enough to get an id, give away the reference it was got through and call, with one change
  of a buffer in between. Only one thread is watched, so that one thread gets an id and another
  calls it, both watched, rests on the theorem `IdsKnownOnceGot`.
* `mod_cache`: two addresses, one library that comes and goes (three changes), two events.
  `NotOlderThanReload`; `MissIsNamedNow`, which is about a miss that makes `of` reload and
  not about one within 300 ms of the last reload, which `of` does not retry;
  `FrameOfOneSnapshot`; under fairness `CatchesUp` and `EventsAnswered`. The race needs one
  change before and one after the goroutine's read.

Runs that show a disagreement between the code and what it or its README says (see
"findings" in `PROJECT.json`):

* `pairing_overflow`: "so nested calls pair" fails after one dropped record, since `up_all`
  returns before the push and `up_ret` before the pop; the depth is then off for good.
* `arg_va_list_floats`: floats of a `va_list` beyond the eighth lie on the stack, `decodeV`
  does not count them, and the integers behind are shown with their words.
* `trace_stats`: `stats` iterates over `counts` while the loop writes it.

Other such cases, met while modelling and not given a run of their own:

* A call between the two attach loops is counted and never un-counted, like after a dropped
  record; so is every call of a function whose return probe cannot be attached. The losses of
  `pairing_lossy` include both.
* Without `-v` the entry of an un-parsed call is hidden and its return shown.
* With `--no-returns` the returns of the functions in `alwaysWatch` are still captured and
  shown (`RetSet`); a function without a return probe has no depth and passes any
  `--max-depth` (`TooDeep`).
* `decodeDirect` takes parameter `i` of a variadic call from the `i`-th general register kept,
  though a float went to a vector register: the float, and every integer behind it, is shown
  with another argument's word (`Covered` excludes both from `ShownRight`).
* `decodeV` shows 0, and not `?` as the other decoders do, for an integer of a `va_list` that
  lies behind the last captured word of the stack (`Covered` excludes it).
* A miss within 300 ms of a reload is not retried: a library loaded in between has no name in
  that event, and `--from` hides it.
* `jstr` is keyed by references, and those may be reused: another string, or another object,
  is then shown with the old text. `idClass` keeps local references in the same way. The
  properties of NameCache excuse exactly these (`reused`).
* A reference to a class whose name is not known is shown as `java.lang.Class` once that class
  itself was found (`classNameOfRef` goes on to the class of the object); `ClassTexts` admits
  it.
* `isCallMethod` matches by prefix, so `NewObjectArray` is taken for a call with a method id.
* `objClass` is written and never read.

`CHECK_DEADLOCK FALSE` is set because every trace ends: the reader is closed, the scan is
over, or all calls the bound allows have been made.

**Fairness.** `Pairing`: the attach loops, the opening of the reader, the event loop, and
the BPF program of each thread; the first three are straight-line code that waits for
nothing but a record, and the verifier admits only BPF programs that end. The target owes
nothing: it may stop calling, and calls need not return. `OffsetScan`: the one goroutine
that scans. `EnvProbe`: the one goroutine of `runEnv`. `TraceLoop`: the loop, and
the sleep of `--run`; neither the person at the terminal nor a signal. `ModCache`: weak
fairness of the steps of the goroutine (its sleep ends) and of the loop, strong fairness of
taking the lock (in `reload`, `of` and `lookup`), since Go's mutex starves nobody; the target need not change its maps.
NameCache states safety only.

## 4. Proofs

Every safety property of the runs is also a theorem, for every value of the constants that
the assumptions admit. Each proof has an inductive invariant, one lemma per action, and the
properties as consequences.

The assumptions (TLC evaluates them in each run) are types of the constants and:

* `ReconAssumption`, `WatchAssumption`: `up_all` reads argument registers only.
* `ScanAssumption`: code is not at address 0.
* `ArgAssumption`: the register save area fits the snapshot.
* `ModAssumption`: a library has a name.
* `EnvAssumption`: `LoadNativeLibrary` has its JNIEnv in x1 and `CreateNativeThread` in x0, as
  the comments of `envprobe.bpf.c` say of ART. Which pointer is dumped first rests on it.
* `TraceAssumption`: filters and the arguments of commands name known functions and modules.
* `NameAssumption`: objects, references, method ids and texts are told apart, and a class
  object is not a string. The caches have different keys, so a class name filed under a
  reference does not meet a text filed under the same one unless the reference was given away.

* **PairingProofs**: `Spec => []IInv`, and from it `TypeCorrect`, `NoMispairing`,
  `MappedPairing`, `DepthIsCount`, for any number of threads, functions, calls and any
  capacities. `NeverMispaired` says something of reports only, and what a return will be
  joined with depends on records not yet read. `Holds` says which call the loop will have
  under a key by the time it reads position p, without running the loop; `OpenInv` says
  that this is the right call for each open call of a balanced thread, `UnmappedInv` what is
  found under depth 0 of a thread the map has no room for, `ReturnInv` that each return in
  the ring buffer will find its own call. The lemmas `HoldsReserve`, `HoldsSubmitOwn`,
  `HoldsSubmitOther` and `HoldsConsume` say how `Holds` changes when a record is reserved,
  submitted or read; one lemma per kind of step uses them.
  `FramesUsedOnce`, in the same module, has an invariant of its own: the number of a call is
  in one place at a time, an entry record, a frame or a report (`OnceInv`), and the number of
  the next call in none (`PastInv`).
* **PairingRefinesProofs**: `TraceRefines`, `Spec => LossyTrace`. The lemmas about `Waiting`
  say which steps add a return, which take one and which leave it alone. That the loop reads
  the least ticket follows from the order of the ring buffer (`RingInv`), that `up_ret`
  submits the innermost call from what its reservation noted (`BusyInv`), and that the entry
  is one of `Entries` from `ReportInv`.
  `QuietTracePairs`, `Spec /\ []Quiet => []EveryReturnPaired`, and `QuietTraceRefines`,
  `Spec /\ []Quiet => ExactTrace`, say what holds of a trace that loses nothing. `Quiet` names
  what it takes: the target waits for the attach loops and no attach fails, there are no more
  threads than the depth map has room for, the ring buffer is not full when a probe reserves,
  and no thread exhausts its return probes. It holds in every state of `pairing_quiet`. Each
  of its parts is needed: `pairing_lossy` drops them, and threads get skewed. Under `Quiet`
  nobody is (`QuietInv`), and a step of the lossy CallTrace in which nothing breaks is one of
  the exact CallTrace.
* **OffsetScanProofs**: `ScanInv` adds to the properties what holds in the middle of a scan:
  as long as the target lives, `out` is sound and covers all tables the scan has passed.
  `NoOverlap` is why the jump over a table loses nothing: the first four words of a table
  are 0 and no other word of it is. `EachTableCounted` adds `CountInv`: as long as the target
  lives, `tables` is the number of tables that the scan has reached, so that a step that
  reaches a table adds one to a finite set and any other step reaches none. Once the target has exited nothing is known of `out`,
  and `CheckOffsets` is what keeps such an `out` from being used.
* **ArgDecodeProofs**: `DecodeInv` says that the cursors of `decodeV` are the numbers of
  integers that the convention has put into registers and onto the stack (`CursorV`), and
  what the snapshots hold; `LocInjective`, that no two arguments share a place, makes the
  word at a place well defined. `DecodeTypeCorrect` bounds the cursors: that of the registers
  always indexes the snapshot, that of the stack may pass its end, but by no more words than
  parameters were shown. `LostV` says what is left when the `va_list` itself could not
  be read: no register area and a snapshot of zeros.
* **ModCacheProofs**: `LockInv` says who holds the lock at which step, `SnapshotInv` that
  ranges and load addresses differ only while somebody holds it, `OrderInv` how the snapshots
  read and stored are ordered in time. The three safety properties follow, for any number of
  addresses, libraries, changes and events.

* **EnvProbeProofs**: `EnvTypeCorrect`, `FileFromEnv`, `LoadedFromTable`. The file is written
  from the first dump that looks right, so the invariant is about what stands in front of a
  dump in the ring buffer (`OrderInv`): unless a JNIEnv was missed, a dump that is not of a
  JNIEnv has a good one of the same process before it, or its process is gone; and a thread
  between its two dumps has left a good one that the loop has not passed. `FileInv` and
  `OutInv` say what the file and the loaded offsets are, given the dump that was taken.
* **TraceLoopProofs**: `TraceTypeCorrect`, `FramesHoldOpenCalls`, `ReturnsShowTheirCalls`,
  `LinesPaired`. Frames have the key (tid, depth), and many calls have the same. `KeyInv` says
  that of two calls with one key the first has returned, in the order of the records, before
  the second enters; it follows from `StackInv`, that the depth of an open call is the number
  of tracked calls below it, by counting (a proper initial part of the stack has fewer).
  `RecordInv` says which records a call has left and in which order. For the lines, `LogInv`
  and `DecisionInv` say what each logged decision was computed from, and `HiddenInv` that a
  frame without a text is that of a call whose entry the first filter had hidden.
* **NameCacheProofs**: `NameTypeCorrect`, `CallsShownRight`, `RefsShownCorrectly`,
  `IdsKnownOnceGot`. A name may be shown long after the reference was deleted and its slot
  cleared, when the state no longer says what the reference stood for. `HistInv` therefore says
  that *there is* a history `h`, from references to objects, with which everything agrees that
  is not excused: the slots (`SlotInv`), the pending records (`RecordInv`), the caches
  (`CacheInv`). A new reference extends `h` at a reference that was never used, or that counts
  as reused from then on (`Extends`); deleting one leaves `h` alone. `GotInv` is about order:
  an id that a watched thread got is known, or the record that will make it known stands in
  front of every call that was made with it since.

Only model-checked: the liveness properties (`EveryRecordRead`, `Resolves`, `DumpsEndInFile`,
`RunEnds`, `CatchesUp`, `EventsAnswered`), since the prover does not reason about fairness; and
the three disagreements, which are counterexamples of single instances.

## 5. Not modelled

* `vmlinux.h`, a dump of the kernel's types (143,228 of the repository's C lines): it has no
  behaviour. The C code that has, `recon.bpf.c` and `envprobe.bpf.c`, is modelled nearly line
  by line; the loader is in Go.
* `smoke.bpf.c`: no code of the repository loads it.
* Rendering (`parseParams`, `fmtArg`, `renderGeneric`, the layout of a line) and the
  contents of texts, names and signatures: pure sequential functions of strings, for which
  unit tests do better.
* The stack map: without `BPF_F_REUSE_STACKID` an id never comes to denote another stack, so
  a late lookup finds the right one or none. How its frames get their modules is in ModCache.
* `resolvePidByName`, `jniprobe dump`, the parsing of `/proc/<pid>/maps`, JSON and flags: one
  pass over a file, with no state.
* Errors that end the program at once (loading the BPF object, opening libart).
* A thread's number given to a new thread (tid reuse).
* Garbage collection in the target. In NameCache an object keeps its address, and what a stale
  slot points to is still there; `nameByClass` is keyed by such addresses, so a collector that
  moves or frees objects can make a late name wrong in ways the model does not have.
* The test application.

## 6. Plan

Done: Recon, Pairing, their invariant and proofs; CallTrace and the refinement, proved with
losses and without; OffsetScan, ArgDecode, ModCache, EnvProbe, TraceLoop and NameCache, each with
proofs of all its safety properties. What could follow:

1. **Pairing** and **TraceLoop** together: that the ideal probes of TraceLoop, and the ideal
   pairing of NameCache, are what a quiet Pairing gives, by a refinement instead of in words.
2. Action properties of the caches, such as that an entry of `idName` changes only when its id
   is got again.
