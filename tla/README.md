# A TLA+ model of siphon

siphon loads safetensors checkpoints into GPU memory. A native loader reads
the files in *chunks* through a small set of pinned host windows into a device
buffer that may be much smaller than the checkpoint, and hands the tensors out,
in file order, as zero-copy views, while it already reads what comes next. The
repository also holds a Rust loader (`stloader`) and inference code for two
model families. This directory models the parts whose correctness depends on
interleavings, on index and buffer arithmetic, on the order of events or on the
reading of text and files: TLA+ modules, TLC configurations that check them on
small instances, and TLAPS proofs for every instance of what the native loader,
its layout, executors and ranks, stloader's reader and the page-cache probe
guarantee. `PROJECT.json` records, for every definition, the source lines it
stands for.

## 1. Inventory

### The native loader (`src/csrc`, `src/siphon`)

| Component | State | Operations | Interacts through |
|---|---|---|---|
| Python front end (`_impl.py`, `safe_open`) | open configuration, metadata, loader handle, whether iteration has begun | `__enter__`, `tensors`, `keys`, `__exit__`; backend choice; buffer sizing | RPC queues; synchronizes the CUDA stream before it lets a tensor go |
| RPC bridge (`main.cpp`, `LoaderManager`) | two queues of one loader | `open`, `close`, `get_dl_tensor`, `get_result` | one outstanding request at a time; detached loader thread |
| Streaming loop (`loader_common.cpp`, `Loader`) | `current_tensor_index`, `chunk_reading`, `chunk_read`, `stop`, executors, events | `run`, `open`, `get_tensor_ptr`, `close`, `can_step`, `try_step`, `wait_step`, `post/poll/wait_read_chunk`, `destroy_*` | submits to executors, shares host windows, events and the ring with them |
| Layout (`compute_layout`, `init_buffer`) | chunk and tensor tables | one pass over `tensor_offsets` | tables read by the loop |
| io_uring backend (`loader_io_uring.cpp`) | ring, `unfinished_cnt` per chunk | `post_read_chunk_uring`, `cuda_func`, `wait_func` | kernel completions, CUDA stream, NCCL stream |
| AIO, mmap, cuFile backends | AIO context, worker pool, cuFile handles | `post_read_chunk_*` | the same executors |
| Executors (`async_executor.hpp`, `function_executor.hpp`, `queue.hpp`) | task queue, result queue, `completed_results`, worker threads | `submit`, `try_reap`, `reap`, `stop`, `join`, worker loop | bounded queues, atomics |
| Distributed loading | communicator, per-rank streams | all-gather per chunk | every rank launches on its own |
| Host buffer cache, dynamic bindings (`io_context.hpp`, `dl_binding/`) | process-wide cache, function tables | get, put, `dlsym` | shared by the loaders of a process |

### The Rust loader (`src/rust-qwen-engine/crates/stloader`)

`header.rs` parses and validates, `plan.rs` turns tensors into merged, block
aligned ranges, `reader.rs` cuts them into jobs and drives an io_uring from one
thread over a pool of `depth` buffers, `cache.rs` probes the page cache. The
kernel is the other actor.

### Inference (`src/qwen35-forward`, `src/shell`)

| Component | State | Operations | Interacts through |
|---|---|---|---|
| Checkpoint reader (`safetensors.rs`) | shards, index, file contents | `Shard::open`, `Model::open`, `tensor`, decoding of elements | files that another process may replace |
| Weight loading (`real.rs`, `loader.rs`) | sizes, layer kinds, weights | `load`, `load_model`, cross-checks of tensors and settings | fills what the kernels index |
| Kernels (`lib.rs`, `attention.rs`, `layer.rs`, `delta/src/lib.rs`) | convolution window, delta state, keys and values | linear, norms, convolution, delta rule, attention, rotary tables | threads inside `linear` |
| Model (`model.rs`) | caches per layer, position | `forward`, `forward_cached`, `greedy*`, `sample_stopping` | sampler, stop tokens |
| Sampler (`sample.rs`) | configuration, random state | penalties, n-gram ban, temperature, top-k, top-p, min-p, typical-p, `select` | history of the sequence |
| Tokenizer (`tokenizer.rs`) | vocabulary, merges, added tokens | `from_model_dir`, `encode`, `decode` | NFC and categories of `shell-text` |
| Chat (`chat.rs`, `chatparse.rs`, `qwenrun.rs`) | conversation | `render`, `parse_assistant`, REPL and replay | prompt to the model, reply from it |
| Checkers (`gdn/src/main.rs`, `bundle`, `delta/src/main.rs`; `golden/gen_golden.py` records the bundles) | list of checks, exit status | `gdncheck`, `bundlecmp`, `deltacheck` | bundles of recorded tensors |
| Text (`shell-text`) | none | `nfc`, categories, `dumps`, `parse` | |

`src/rwkv7-engine` holds GPU kernels in Python and their reference.

### What is hard, and what makes each part correct

* **The loop.** The user works on a view of device memory that the loop
  overwrites lap by lap; reads, copies, waiting and requests proceed
  independently on five actors. Correct means: the view keeps its bytes, no host
  window is used twice at once, memory is freed only when nobody uses it, every
  call returns.
* **The layout.** Watermarks, paddings and splits are arithmetic at page, chunk,
  file and buffer boundaries. Correct means: each byte comes from one chunk, and
  no chunk allowed by a watermark touches a tensor in use.
* **The executors.** Two bounded queues that nobody may drain: correct means no
  task lost, none run twice, results in the order asked for, no deadlock, join
  after the last task.
* **Several ranks.** A collective writes on every device when the last rank has
  joined it. Correct means: the local watermark protects against remote progress
  too, and nobody waits for a rank that has left.
* **stloader.** A single thread, but a kernel that completes in any order and
  still owns buffers when the thread gives up; shapes and offsets that come from
  a file.
* **The page-cache probe.** Sampling arithmetic whose failures are silent.
* **Checkpoints.** A file is read by four calls that need not see the same
  version, and sizes are read off one layer for all. Correct means: no tensor
  reaches outside what was read, no model that loads trips over a size later.
* **Kernels and caches.** Flat arrays with hand-written strides, and state that is
  carried from chunk to chunk. Correct means: however the input is cut, on
  however many threads, the result is that of one pass over all of it, and
  sequences of a batch do not touch.
* **Sampling.** Filters in a row, each on what the one before left; thresholds,
  ties and masked tokens. Correct means: the kept sets and the draw are the ones
  described, and a token is always left.
* **Text.** A regex engine, a Unicode normaliser, a template and two parsers
  written out by hand. Correct means: they compute what their references define,
  and what is written can be read back.
* **Checkers.** Correct means: PASS only if everything asked for was compared with
  its own counterpart.

The complete list, each entry with its source line and the properties that would
catch it going wrong, is `hazards` in `PROJECT.json`.

## 2. Modules

| Module | Stands for | Notes |
|---|---|---|
| `LayoutContract` | what the loop needs from a layout | three named conditions; the interface between the next two |
| `LoaderRuntime` | `Loader::run` and everything it calls, io_uring backend, one rank | client, loader thread, kernel, cuda thread, GPU stream, wait thread |
| `TensorStream` | what `safe_open` promises | no chunks, buffers or threads |
| `LoaderImplementsStream` | the refinement mapping | the user's view is what the device cells of the tensor hold *now* |
| `ChunkLayout` | `compute_layout`, `init_buffer`, slice arithmetic of `post_read_chunk` | one action per loop iteration |
| `TaskExecutor` | `ExecutorCore` with `FunctionWorkerDriver` | any number of workers |
| `TaskPool` | an executor as `LoaderRuntime` counts on it | implemented by `TaskExecutor` |
| `DistributedLoader` | several ranks with one communicator | inside of a rank coarser than `LoaderRuntime` |
| `ReadPlan` | stloader's `read_header`, `plan_shard`, cutting in `read_files` | one action per loop iteration |
| `UringReader` | the ring loop of `read_files`, and the kernel | |
| `ResidencyProbe` | `page_cache_resident_ratio`, `resident_ratio`, `choose_disk_backend_candidates` | |
| `SafeTensors` | `Shard::open`, `Model::open` | one action per system call, and the process that replaces a file |
| `WeightLoading` | settings and size checks of `real::load` and `loader::load_model`, and what the kernels assert | extends `SafeTensors` |
| `HalfFloat` | `f16_to_f32` | sign, exponent and fraction fields |
| `Kernels` | the kernels, as functions on flat arrays | residues of a prime for numbers |
| `CachedDecoding` | `forward`, `forward_cached`, `greedy`, `greedy_cached_stopping` | any cut of the prompt into chunks, any parallelism |
| `Sampler`, `Generation` | the filters and the draw; the loop of `sample_stopping` | any logits at every step |
| `Unicode` | `nfc` and categories | tables cut to the characters in use |
| `ByteBpe`, `Tokenizer` | loading, pre-tokenizer, BPE, decoding; `encode` as it scans | |
| `ChatTemplate`, `ChatSession` | `render`, `parse_assistant`; a conversation in `qwenrun` | text is a sequence of markers and letters |
| `PyJson` | `dumps`, `parse`, Python's float format | |
| `Verdict` | the three checkers, from arguments to exit status, and how the hooks of `gen_golden.py` name and number what they record | a tensor is its deviation from the recorded one |
| `MCFiles`, `MCInference`, `MCQueues` | unions of components that share nothing | section 3 |
| other `MC*` | inputs and instances for TLC | constants only |
| `LoaderRuntime_proofs`, `ChunkLayout_proofs`, `TaskExecutor_proofs`, `DistributedLoader_proofs`, `Generation_proofs` | proofs about the module of that name | section 5 |
| `Stloader_proofs` | proofs about `ReadPlan`, `ResidencyProbe` and `UringReader` | section 5 |
| `Checkpoint_proofs` | proofs about `SafeTensors`, `WeightLoading` and `Verdict` | section 5 |
| `DataLemmas` | lemmas on quotients and remainders, induction over the naturals, queues, stacks and sequences | used by the other proof modules |

How they fit together: `compute_layout` establishes `LayoutContract` (proved about
`ChunkLayout`); `LoaderRuntime` and `DistributedLoader` assume the contract and
nothing else about the layout; `LoaderRuntime` keeps its executors as counters,
and `TaskExecutor` implements `TaskPool` (proved for any number of workers), which
with one worker is these counters; `LoaderRuntime` implements `TensorStream`
(proved). `ReadPlan` produces the jobs
that `UringReader` reads. `WeightLoading` shows that what loads has the sizes
`Kernels` assumes; `Generation` takes any logits where `CachedDecoding` computes
them; `Tokenizer` uses `Unicode`, and `ChatSession` what `ChatTemplate` renders.

### LoaderRuntime and the code

Variables have the code's names where the code has one. Chunks are numbered as
in the code and counters start at -1. Executors are FIFO with one worker, so
`cuda_posted`/`cuda_done` and `wait_posted`/`wait_done` are the last chunk
submitted to and finished by each; `gpu_done` is the last chunk whose copy has
ended. A device *cell* is a stretch of the buffer small enough that chunks and
tensors are unions of cells; `dev[x]` is the chunk whose bytes it holds, or none
while a copy writes it. `host[w]` is the same for host windows. `lpc` is the
control point of the loader thread; `ret` says who called `step()`. An exception
that leaves any of the threads terminates the process, since the threads are
detached or have no handler: `abort` says why, and nothing happens after it.

Points where the model keeps a detail on purpose:

* `cuda_func` consumes whatever completion comes, also another chunk's, and
  decrements that chunk's `unfinished_cnt`; the copy starts when its own is zero.
* `post_read_chunk` waits for chunk `c - io_depth` before it uses the window and
  the event again, and this wait also reaps.
* `wait_func` looks at an event that may have been recorded again by a later chunk.
* `run()` calls `try_step()` after every request, `CLOSE` included.
* Faults: `OPEN` fails, `io_uring_submit` fails, a read misses logical bytes, a
  read fails.

### The other modules

`ChunkLayout` keeps `compute_layout`'s locals in one record `L`, and the code's
lambdas are operators from record to record. Sizes are small numbers, with the
code's rounding; the "Internal error" checks set `L.bad`.
`TaskExecutor` has a submitter, a reaper and workers as threads of their own; how
many workers there are, and whether submitter and reaper are the same thread, is
chosen at the start.
`DistributedLoader` gives every rank its user, loop and background threads; a
rank's work between submitting a read and launching the copy is one step, as it
is `LoaderRuntime`'s subject. `UringReader` lets the kernel accept only part of a
submission, be interrupted before or after accepting, complete in any order and
fail. `ReadPlan` and `ResidencyProbe` are sequential: their nondeterminism is in
the inputs.

`SafeTensors` takes `stat`, length, header and contents as four actions, with a
writer between any two; sizes are words, so products wrap as in a release build.
`WeightLoading` keeps the order of the checks of `load`, since the first that
fails decides the answer, and panics (a missing axis, a remainder by zero) are
answers too. `KernelSize` lists what the kernels assert of the arrays they are given.

`Kernels` computes with residues modulo a prime, and with fixed functions on
residues that are not linear in place of `exp`, roots and the like. Index
arithmetic, strides, the split over threads and the carried state are those of
the code, so an operand from a wrong place changes the result; rounding, and with
it the tolerance of the real comparisons, is out of the model.

`Sampler` has integer logits and a softmax with base two: probabilities are
quotients of integers and all comparisons exact. The draw is a number `u / Draws`.

`ByteBpe` writes the pre-tokenizer's matchers as the code does, position by
position, and `Tokenizer` compares with a reference that tries the regex's
alternatives with backtracking. `ChatTemplate` treats tags, newlines and letters
as symbols; trimming and splitting act on sequences of them as `jinja_trim` and
`split` act on strings.

`Verdict` follows each checker through its modes, errors in weights, forward pass
and greedy loop included; what a correct implementation deserves is stated over the
bundle and the deviations, without the checker's bookkeeping. `NthLinear`, `Captures`
and `Origin` are the hooks of `gen_golden.py`: the spies number the calls of the
convolution and the delta rule, the recorder names outputs after their modules.

`Generation` starts where `run_chat` does: an invalid configuration is refused when the
flags are read, a greedy one goes to the loop of `CachedDecoding` with no filter at all,
and only the others are sampled. A session of `ChatSession` has the tools of the command
line, as opaque words, in all its prompts.

## 3. Runs

| Run | Shows | Expected |
|---|---|---|
| `loader` | the safety properties of the loop and `IndInv`, with all faults; `LoaderRuntime` implements `TensorStream` with its fairness; calls are answered | pass |
| `loader_close` | `NoWorkAfterClose` | violation, finding 1 |
| `queues` | `TaskExecutor`: one worker or two, submitter and reaper one thread or two, implements `TaskPool`; `UringReader`: the ring loop of `read_files` with every fault | pass |
| `distributed_stream` | two ranks, every tensor read by both | pass |
| `distributed_close` | `CloseReturns` when a rank may close early | violation, finding 3 |
| `reader_error` | `BuffersOutliveReads` | violation, finding 4 |
| `files` | everything that lays out, checks and reads a checkpoint: layout, plan, probe, weight loading, checkers | pass |
| `layout_bounds` | `EveryChunkInBounds` | violation, finding 2 |
| `probe_aligned` | `OffsetsAligned` | violation, finding 5 |
| `half_float` | `HalfExact` | violation, finding 6 |
| `inference` | a chat with the model: templates, tokenizer, JSON, cached decoding, sampling | pass |
| `json_identity` | `JsonIdentity` | violation, finding 7 |

`MCFiles`, `MCInference` and `MCQueues` put components into one state space that share
nothing: the variable `part` says to which of them a behaviour belongs, and the
variables of the others keep an idle value. A property of an instance starts with
`part = ... =>`; those of `ChunkLayout`, `ReadPlan`, `ResidencyProbe`, `WeightLoading` and
`Verdict`, which `MCFiles` extends, of `Generation`, which `MCInference` extends, and of
`TaskExecutor` and `UringReader`, which `MCQueues` extends, are
the modules' own, the formulas of the theorems, and hold trivially of the idle values.

Each property has a comment that states it beside its definition. Each property
of a passing run also has a *mutant*: a variant of one modelled definition, of
the kind a slip in the code would produce, under which the property fails. They
are defined next to what they vary and listed in `PROJECT.json`.

### Bounds

* **Loop**: six tensors in eight chunks through a ring of three chunks: it wraps
  twice, all tensors but the first straddle chunks, tensors share chunks, and the
  client may skip tensors. With three windows each is used again at least once
  while two other reads are outstanding.
* **Layout**: all sequences of five tensors with three sizes (below a page, above
  a chunk, above two chunks) in one file or two, data starting at two alignments;
  one rank with a chunk size that needs rounding, two ranks with slack in the
  buffer. Page 4 and alignment 2 keep the code's divisibility.
* **Executors**: seven tasks through queues of three, so queues are full and empty
  again several times. `Outstanding` is at most the capacity: the bound the
  loader keeps, proved as `QueuesSuffice`.
* **Ranks**: two ranks, four tensors in six chunks, ring of three, depth two, each
  chunk split between the ranks.
* **Reader**: five jobs, three buffers, four ring entries; the pool is used up and
  every slot is used again.
* **Plan**: `u64::MAX` is 63 and a block is 4, so products overflow and rounding
  meets the end of the file; single entries of every kind, and triples of
  tensors that overlap, nest, share blocks or are empty, in any order.
* **Probe**: sizes around page and window boundaries and beyond the maximal
  number of windows; 16 pages and 4 windows of 4 pages keep the code's ratio of
  limits (16384 pages, 64 windows of 256).
* **Checkpoints**: a model of three layers (linear, full, linear), every tensor of
  it transposed, longer, without axes or absent, with eighteen settings, `vocab_size`
  of the bundle's manifest missing or not; small
  shards of every malformed kind, and one rewrite at any point between two calls.
* **Checkers**: four layers of two kinds, every combination of modes, and one
  capture missing, unreadable or resized, or one computation off, by up to three
  times the tolerance; pairs of bundles with tensors of every kind.
* **Kernels**: grouped heads in both kinds of layer, a convolution window of three
  and prompts of one to four tokens, so that chunks are shorter and longer than the
  window; one, three or eight processors against at most four threads; residues
  modulo 13. Batches have two sequences of up to three tokens, in one pass and with
  the state of all tokens but the last carried to the last.
* **Sampling**: four tokens with three logits each, so every pattern of ties; twelve
  configurations, two steps, thresholds that are met exactly.
* **Tokenizer**: all texts of up to four symbols over alphabets that bring every
  alternative of the regex, composing and blocking marks, Hangul, singletons and
  overlapping added tokens; fourteen directories, with `tokenizer_config.json` readable,
  absent or unreadable, ten of which must be refused.
* **Chat**: two turns; replies that are one edit away from a well-formed one, calls
  whose values look like markup or are newlines; six opening conversations, with and
  without tools. Words never spell a marker out: `render` escapes nothing, so a text
  that contains `<|im_end|>`, or a value with a newline before `</parameter>`, is
  outside what `PromptWellFormed` and `TurnKept` say.
* **JSON**: floats around both changes of format, strings of two characters,
  values nested twice, numbers that overflow to infinity or underflow to zero, and all
  number-like texts of up to five characters.

### Fairness

Weak fairness of threads, kernel and GPU: they are scheduled, a read or copy that
was started ends, NCCL finishes a collective that every rank has joined. Nothing
is assumed about when a user calls, except in `DistributedLoader`, where each
user's program goes on to its end (otherwise the other ranks rightly wait). The
executors' yield loops are stuttering steps. In `UringReader` there is strong
fairness for a wait that could return: not every such wait is hit by a signal
first; with weak fairness only, signals could restart the call for ever. The
components of `files` and `inference` are sequential code whose properties are
about results; no fairness is stated for them, and they may end.

## 4. Findings

Seven statements of the repository that its code does not keep.

1. **Work after close** (`loader_common.cpp:609`). `run()` dispatches a request
   and then calls `try_step()`, also after `CLOSE`. If the user closes before the
   last tensor and prefetching has not reached the watermark, the loop goes on
   to post a chunk to a ring and executors that no longer exist; the exception
   leaves a detached thread and the process ends. The answer to `CLOSE` is pushed
   before that step (`:606`), so the user's thread has left the `with` block, or is
   about to, when the program ends under it.
2. **Header-only chunks** (`loader_common.cpp:318`). When the first tensor of a
   file does not fit behind the last one of the file before, a chunk is closed
   that holds only the bytes in front of it. Its place was not compared with the
   buffer size, and its copy can end behind the buffer. Chunks with tensor bytes
   are always inside (`ChunksFit`).
3. **Closing with several ranks** (`loader_common.cpp:200`). `close()` waits for
   the all-gather of every chunk the rank has posted. A rank that closed earlier,
   having prefetched less, never joins them.
4. **Reads outlive their buffers** (`reader.rs:194`, also `:184`). A failed read
   makes `read_files` return and free its buffers while other reads are still with
   the kernel.
5. **Probe offsets** (`cache.rs:98`, `_impl.py:201`). Windows are `size / 64` apart
   once a file has more than 64 of them; this is rarely a multiple of a page, so
   the second `mmap` fails and the ratio is that of the first MiB alone.
6. **Subnormal halves** (`safetensors.rs:116`). The exponent starts ten too low, so
   an F16 subnormal is decoded to a number 1024 times too small.
7. **Infinite numbers in JSON** (`pyjson.rs:144`). `parse` reads `1e400` as an
   infinity, `dumps` writes that as `Infinity`, and `parse` refuses it: the two are not
   inverse "on every value" (`:770`). On values whose numbers are finite they are
   (`JsonRoundTrip`).

Smaller observations, met while modelling and covered by no run:

* `SamplerConfig::is_greedy` says that a configuration with temperature zero
  cannot change the argmax; a repetition penalty can (`sample.rs:158`).
* The JSON parser, which calls itself strict, takes `-.5`, `\u+041` and raw control
  characters.
* `gdncheck --layer N` without `--model` compares the rope tables and prints the result,
  but returns success at `main.rs:409` without looking at `any_failed`, so a deviation
  there is not in its exit status; with `--model`, or without `--layer`, it is. Nothing
  in the repository says what `--layer N` alone promises, so `VerdictExact` names the
  case (`LayerOnly`) instead of a run that calls it wrong.
* `page_cache_resident_ratio` opens a file outside its `try` (`_impl.py:181`), so one
  that cannot be opened raises where the Rust twin answers unknown, as the model does.
* The command that `run_chat` prints for answering a call quotes the raw continuation
  (`qwenrun.rs:226`); `ReplayAgrees` is about the text in the template's form.
* `bundlecmp` skips a tensor it cannot read and may still say PASS
  (`bundle/src/main.rs:180`); `max_abs_diff` ignores NaN (`gdn/src/main.rs:148`), and
  in `deltacheck` compares common prefixes only (`delta/src/main.rs:82`).
* `Shard::open` multiplies shapes without a check, and `load` compares numbers of
  elements, so a transposed tensor is accepted; a rewrite of a shard that keeps its
  size is not noticed.
* A tensor without bytes that begins at a page boundary, with no open chunk in front
  of it and no bytes behind it in its file, has a `last_chunk_id` past the last chunk
  (`loader_common.cpp:332`), and the loop's own check then throws. The front end does
  not exclude it (`_impl.py:748`). `InputsAssumption` of `ChunkLayout` does.
* An empty added token would keep `encode` from returning (`tokenizer.rs:706`), and
  one with characters of the byte alphabet is not decoded to itself (`:861`).

## 5. Proofs

For every specification there is an inductive invariant, a conjunction of named parts
(`IndInv`; where a proof module is about several specifications, `PlanIndInv`, `ProbeInv`,
`ReaderInv`, `WeightInv`, `VerdictInv`). Its invariance is proved with one lemma per action or per part,
and the properties are derived from it. Assumptions on the constants are
named, belong to the module that declares the constants, and are evaluated by TLC
in the runs of that module. Those of `ChunkLayout`, `ResidencyProbe`, `SafeTensors`,
`WeightLoading` and `Verdict` are hypotheses of the theorems, and `MCFiles`, which extends
the five, assumes them.

### The streaming loop

`LoaderRuntime_proofs` proves, for every number of tensors and chunks, every
layout that satisfies the contract, every depth and every set of faults:

| Theorem | Statement |
|---|---|
| `Invariance` | `Spec => []IndInv` |
| `TypeCorrect` | `Spec => []TypeOK` |
| `HeldTensorIntact` | the tensor in the client's hands is never overwritten |
| `WindowsExclusive` | no read goes to a host window that is still in use |
| `ChecksNeverFire` | the internal checks never throw |
| `QueuesSuffice` | executor queues never fill |
| `ReleaseSafe` | memory is released only when nothing is outstanding |
| `ReapedChunksCopied` | an action property: what the loop reports as read is on the device |

The last theorem of the module, `StreamImplemented`: every step of the loader is a
step of `TensorStream` or leaves it unchanged.

**Assumptions**: `SizeAssumption`, `DepthAssumption` (what `Loader::open` checks),
`LayoutTypes`, `LayoutAssumption` (the contract) and `FaultsAssumption`; TLC
evaluates them on every run of the module.

**The argument.** None of the properties is inductive. That a view is intact
follows from what was copied where, which follows from what was in the host
windows, which follows from how far apart the stages can be. `IndInv` says this
stage by stage:

* `PipelineInv` orders the counters `chunk_read <= wait_done <= gpu_done <=
  cuda_done <= cuda_posted <= chunk_reading` and bounds the distance of its ends
  by the depth (by one more at the point where `post_read_chunk` waits).
* `EventInv`: an event stands for the chunk that recorded it or for a later one,
  so `wait_func` never returns too early although events are reused.
* `ReadInv`: a chunk's read is with the kernel, or has one completion queued, or
  is counted and sits in its window until its copy has ended. This is where
  consuming other chunks' completions has to be harmless.
* `DeviceInv`: a cell holds the last chunk copied to it unless a later copy that
  writes it was launched.
* `WatermarkInv`: `chunk_reading <= Prefetch[current]`; with `DeviceInv` and the
  contract this gives the intact tensor.
* `CallInv`, `ReleaseInv`: client and loader thread agree on the call in progress;
  after a release nothing is outstanding.

The arithmetic is in `WindowDistinct`: chunks less than the depth apart have
different windows. Each part has one lemma for all steps, split by action.

`TypeCorrect`, `QueuesSuffice` and `ReapedChunksCopied` are proved and in no run of
their own: they follow from `IndInv`, which the run `loader` checks.

### The layout

`ChunkLayout_proofs`: for every list of tensors in any files, every size of chunk and
buffer, every pair of alignments and any number of ranks,

| Theorem | Statement |
|---|---|
| `TypeCorrect` | the locals of `compute_layout` keep their types and bounds |
| `Contract` | `ContractHolds`: what `compute_layout` returns satisfies `LayoutContract` |
| `EveryByteOnce` | `BytesMappedOnce`: exactly one chunk brings a byte of a tensor to its place; `last_chunk_id` is the chunk of the last byte |
| `LayoutFits` | `ChunksFit`: no internal check fires, chunks with tensor bytes are inside the buffer with their padding, the slices of the ranks tile a chunk and fit the host windows, tensors start aligned |

So the contract that the proofs about `LoaderRuntime` and `DistributedLoader` assume is
itself a theorem about the code that computes layouts.

**Assumptions**: `AlignmentAssumption` (the first-tensor alignment divides the page
size) and `InputsAssumption`: what `Loader::open` and the front end check, offsets
ascending within a file, no tensor larger than the buffer, and no empty tensor at a
page boundary (see the observation in section 4).

**The argument** is about the locals and the chunk that is still open. A chunk
*carries* a tensor if it has bytes of it, moved by the same distance as the tensor.

* `LocalsInv`, `FileInv`: bounds and page alignment of the locals; no chunk and no
  tensor lies behind the position reached in the files.
* `CarryInv`, `OpenInv`: no chunk behind `last_chunk_id` carries a tensor. The hard
  case is the page that `finish_chunk` reads again for the next chunk: its bytes
  belong to tensors already placed. Either the chunk continues at the same distance
  and begins behind them, or it begins a new lap.
* `MarkInv`: watermarks are in order, not before `last_chunk_id`, and set once.
* `LapInv`: the tensors of a lap have ascending places; a chunk after one that
  carries a tensor, up to the tensor's watermark or up to now, lies behind the
  carrier's bytes or ends before the tensor. This becomes `WatermarkProtects`.
* `ByteInv`, `RoomInv`, `AlignInv`: coverage, room in the buffer, alignment.
* `TensorInv`, `SplitInv`, `DoneInv`: what holds at the three control points; inside
  the splitting loop the bytes split off so far are in consecutive chunks.

That rounding and slices behave (`RoundUp` is the least multiple, slices of ranks
tile a chunk) is a group of lemmas; that a file boundary takes an offset of its own,
so that tensor numbers stay below `num_tensors`, is an induction over the offsets,
done with a least counterexample from the well-foundedness of the naturals.

### The executors

`TaskExecutor_proofs`: for any number of workers and tasks, any capacity, one thread
or two for submitter and reaper,

| Theorem | Statement |
|---|---|
| `TypeCorrect` | in particular no queue outgrows its capacity |
| `NoTaskLost` | `TaskConserved` |
| `PushesNeverBlock` | with at most a capacity of tasks outstanding, `submit` finds room in `task_queue` and every worker in `result_queue` |
| `PoolImplemented` | every step is one of `TaskPool` or leaves it unchanged |

`QueueInv`: `task_queue` holds the last tasks submitted, in order, and then the
sentinels, so that what is before its head has been taken; a worker leaves only when
no task is left. `PlaceInv`: a task that was taken and is not reaped is with one
worker, in `result_queue` or in `completed_results`. `RanInv` counts the executions,
`SubmitInv` ties the counters to the control points of the submitter. **Assumptions**:
`ExecutorAssumption`, and `OutstandingAssumption`, which `QueuesSuffice` proves of the
loader.

### Several ranks

`DistributedLoader_proofs`: for any number of ranks, and every layout that satisfies
the contract, `TypeCorrect`, `HeldTensorIntact` (`TensorIntact`) and `LeadBounded`
(`BoundedLead`). `PipelineInv` orders the counters of each rank and puts the common
all-gather between them; `PaceInv`: a rank reads no further than its watermark and has
itself seen every all-gather of the tensors before; `CallInv` relates user and loop;
`DataInv`: until a rank launches a chunk past a tensor's watermark the bytes are on its
device, those of its own slices once copied, all of them once gathered. The point is
that an all-gather writes on a rank's device when the *last* rank joins: `PaceInv` says
that nobody has by then gone past a tensor that needs it. **Assumption**:
`DistributedAssumption` (there is a rank, the contract, the depth, every cell has an
owner).

### stloader's plan

`Stloader_proofs`, first part: for any file and header, any block size, gap and size of a
buffer, with or without merging, `PlanReadsExact` (`ReadsExact`).

* The header. `shape_numel` and the product it is compared with are recursive functions.
  That such a function exists is proved by induction over the naturals (`ProductExists`,
  `NumelExists`); that the checked product is the true one unless it is `Overflow` is
  another induction (`NumelIsProduct`). `EntryInv`: the entries accepted so far have as
  many bytes inside the file as their shape and type say; `OrderInv`: the stable sort is a
  permutation of them in order.
* The ranges. Everything is counted in blocks (`Whole`): rounding is exact as long as
  `ceil_to` does not saturate, which the size of a file in `off_t` guarantees, and then
  the block size cancels. `MergeInv(n)`: the blocks of the first `n - 1` tensors are
  covered; ranges begin and end with a block that is needed, have no gap above `max_gap`
  inside and more than that between them. It is not inductive alone: a tensor that begins
  before the last range would have to be merged with an earlier one. `PendingInv(n)`: what
  is still to come does not begin before the last range, which is what the sort is for.
* The jobs. `JobInv`: the jobs cut so far tile the ranges up to `off`.

**Assumption**: `PlanAssumption` (positive block size; files are smaller than the word by
two blocks; what a well-formed entry says is unsigned).

### stloader's reader

`Stloader_proofs`, third part: for any number of jobs, any depth and any behaviour of the
kernel, `TypeCorrect`, `PoolIsConserved` (`PoolConserved`) and `ReturnsAllRead`
(`AllJobsRead`). `SlotsInv`: a buffer is free, or in exactly one of submission queue,
kernel and completion queue; hence `CountInv`: the reader's counters count what is there;
and `TakenInv`: a job taken has been read once, or one request is about it. `ControlInv`:
the function returns success only with nothing in flight and nothing to push; as the free
stack is then full, no job is left. **Assumption**: `ReaderAssumption`.

### The page-cache probe

`Stloader_proofs`, second part: for every page size, limits, thresholds and checkpoints,
`ChoiceSound` (`ProbeSound`). `WindowInv`: the pages seen are distinct, whole, inside the
file and before the next window, which is why windows do not overlap although `mincore`
may fail on any of them; `RatioInv`: a ratio tells that its file was examined and whether
something was cached, when the page set itself is gone; `ChoiceInv` carries both to the
choice. **Assumption**: `ProbeAssumption` (positive limits, whole thresholds).

### The checkpoint reader

`Checkpoint_proofs`: for any directory and whatever another process puts in the place of
the shard being opened, `OpenedInside` (`SlicesInside`). `IndexInv`: a tensor in the index
is a slice of a shard that has been read, or of the shard whose header was accepted and
whose contents are still to come. In the second case its bounds were checked against the
size that `stat` gave first; only the comparison after `fs::read` makes that size the
length of the contents, and without it (the mutant `ReadFileAnySize`) the step from the
second case to the first fails. Nothing is needed of the product of a shape, so that it
may wrap. **Assumption**: `OpenAssumption` (a directory is a sequence of files; sizes,
header lengths and offsets are unsigned).

### Weight loading

`Checkpoint_proofs`: for any directory that another process may be rewriting, any
settings and any bundle, `LoadedModelFits` (`LoadedFits`). `WeightInv` says that until the
model is loaded its index is as the checkpoint reader left it, and then it fits. The step
is the matter: each length was compared with a product of sizes read off *one* layer and
off the settings, and the kernels compute theirs from the configuration. `RealFits` shows
the two equal once `CrossChecks` has passed, for products that wrap at the word: a wrapped
product is commutative and associative (`WrappedProduct`), which
`hidden * num_heads * head_dim` against `hidden * (num_heads * head_dim)` needs.
`BundleFits` does the same for `load_model`. **Assumptions**: `OpenAssumption` and
`WeightAssumption` (a word; settings are unsigned or missing; shapes are lists of unsigned
numbers).

### Sampling

`Generation_proofs`: for any model, prompt, settings and draws, `ReplyRepeatsNothing`
(`NoRepeatedNgram`). No penalty, temperature or truncation opens a token that is masked
(`Narrows`, one lemma per filter), so the token that `select` returns is none of the
banned ones (`DrawnNotBanned`); and a new n-gram that occurred before would have its last
token banned, because its first n - 1 tokens are the end of the history (`ExtendFresh`).
The invariant has the history's type beside the property. **Assumption**:
`SampleAssumption` (tokens are unsigned; a row has a logit for each token of a finite
vocabulary). Nothing is assumed of the penalties, probabilities or temperatures.

### The checkers

`Checkpoint_proofs`: for any invocation of `gdncheck`, `bundlecmp` or `deltacheck`, any
model, bundle and deviation, `VerdictIsExact` (`VerdictExact`): PASS exactly when the
invocation deserves it, that is, when nothing it asks for ends in an error and all it
compares is right. The one comparison that does not count, the rope tables under
`--layer N` without `--model`, is named in the statement (`LayerOnly`, section 4). The
proof has two parts.

*The names.* The reference numbers its captures of the convolution and the delta rule by
call, `gdncheck` looks them up by `ssm_ordinal`. Going through the layers one by one
(`Counting`), linear layers have different ordinals (`OrdinalUnique`) and every number of
a call is the ordinal of one (`OrdinalExists`), so the n-th call is of the layer with
ordinal n (`Nth`). Hence `verify_layer` compares every capture of its layer with the part
it was taken from, and leaves none out (`StepsAreCaptures`, `LayerChecked`), for any
order of linear and full layers; with the mutant `OrdinalByLayer` the lemma fails at the
first linear layer after a full one.

*The memory.* `any_failed` is all that a stage hands to the next. `GdnInv` says what it
means at each: at `chain` with `cursor` = n, for instance, it is false exactly when the
rope tables, all layers alone and the first n chained ones were fine; and that past
`tables` the rope tables were read, and past `single` the layer was fine, which is why
nothing else has to be remembered of them. `CompareInv` and `DeltaInv` are the same for
the tensors of a golden bundle and the cases of a delta bundle; that names are unique in
a bundle that opens is used in `Compared`.

**Assumption**: `VerdictAssumption` (the tool is `gdncheck`, one of the two commands of
`bundlecmp`, or `deltacheck`; a model has a layer, flags are set or not, deviations and
tensors are numbers, and a list in a manifest is a finite sequence).

### Induction

The induction theorems of the library take an operator, which the provers cannot
instantiate. `DataLemmas` states induction and recursive definition over the naturals for
a *set* (`Induct`, `Recursion`), proved from the well-foundedness of the naturals; with
these, `ReadPlan`'s products, the offsets of `ChunkLayout` and the ordinals of `Verdict`
are dealt with.

### Model-checked only

* Liveness (all `~>` properties, the fairness part of both refinements) and `ENABLED`,
  which the proof system does not cover.
* `Unicode`, `ByteBpe`, `Tokenizer`, `ChatTemplate`, `ChatSession`, `PyJson`: their
  operators are `RECURSIVE`, and the properties say what these compute for every text.
* `Kernels`, `CachedDecoding`: arithmetic of residues over nested folds.
* `FiltersExact` and `DrawFair`: sums of powers of two over sets of tokens.

## 6. Not modelled

* CUDA, NCCL, io_uring and `atomic_queue` are external: a copy ends some time
  after it was launched and in stream order, a collective after every rank has
  joined, a read at any time, a queue is a bounded FIFO.
* What `OPEN` acquires (files, registered buffers, ring, threads) is one step that
  succeeds or ends the process.
* Data races below the grain of an action, and the life time of the RPC queues.
* Allocation failures outside `OPEN`; integer widths in the native loader (offsets
  are far below 2^63).
* Floating-point rounding, and everything that depends on it: tolerances, the
  reproducibility of the random numbers, the speed of the kernels.
* The generated Unicode tables as such: the runs have the rows of the characters
  they use.
* AIO, mmap and cuFile backends, the host buffer cache, `dl_binding`; the command
  lines, reports and tables of all tools; `stbench`, fuzzers and corpora;
  `rwkv7-engine`, whose code is GPU kernels.

## 7. Plan

In this order:

1. **Life cycle of loaders**: the RPC queues and the detached thread that frees
   them, `HostBufferCache`, several loaders in one process.
2. **Other backends**: mmap and cuFile over a pool of workers, AIO with its thread
   for the last page; each as a refinement of the same stream.
3. **Front end**: metadata validation, buffer and depth sizing in
   `_determine_io_params`, single-pass iteration, shared-buffer views.
4. **stloader, the rest**: model index and its cross-check, `plan_model`,
   `read_small_range`.
5. **qwen35-forward**: `index_disagreement`, the JSON of requests; `py_str`; the rwkv7 tokenizer.
6. **Proofs**: `DrawFair`, with sums over an initial part of the vocabulary in place
   of a fold.
