# dns-collector in TLA+

dns-collector reads DNS traffic with libtrace (a network interface or pcap
files), pairs requests with responses and writes one record for every pair and
every packet that stays alone. This directory models it in TLA+, checks the
models with TLC and proves the safety of its parts, and of the whole program, with
TLAPS.

## The system

The program is a pipeline of three threads joined by two bounded queues of
*frames* (lists of packets with a time interval):

    input (main thread) --queue--> packet matcher --queue--> output writer
          |
          +--> dump file for packets that do not parse

| part | code | what it does |
|---|---|---|
| main program | `main.c` | reads the configuration, creates queues and threads, feeds the inputs one after the other, joins the threads; SIGINT sets `dns_global_stop` |
| input | `input.c` | opens a trace, reads and parses packets, groups them into frames by time and size, sends the frames; a live trace also follows the clock |
| packets | `packet.c` | parses a libtrace packet; key, hash and name comparison for matching |
| packet frames | `packet_frame.c` | a list of packets with start, end and size; a frame of type 1 ends a queue |
| frame queue | `frame_queue.c` | bounded ring with one mutex and two condition variables; a full queue blocks, drops the newest or drops the oldest frame |
| packet matcher | `worker_packet_matcher.c` | keeps each packet for the matching window, attaches responses to requests, sends frames of what leaves the window |
| hash of requests | `packet_hash.c` | chained hash table with resizing, of the requests that wait for a response |
| packet dump | `dump.c` | rate-limited, rotated trace file of the packets that do not parse |
| output | `output.c`, `output_csv.c`, `output_cbor.c` | output thread: writes records, rotates files, feeds a subprocess through a pipe |
| helpers | `common.c`, `config.c` | time, rotation, escaping; limits of the options |
| frame logger | `worker_frame_logger.c` | debugging worker, never created by `main.c` |

The threads share only the queues and `dns_global_stop`. A thread works in the
time of the packets, never in real time, with one exception: the input of a
live trace moves its frame with the clock, so that a quiet link does not hold
packets back.

## The modules

| module | models | refines / uses |
|---|---|---|
| `FifoQueue` | what a frame queue promises: a bounded FIFO | |
| `FrameQueue` | `frame_queue.c` at the granularity of pthread calls | refines `FifoQueue` |
| `FrameQueueProofs` | theorems about `FrameQueue` | |
| `PacketMap` | the lists of waiting requests of `packet_hash.c`, without table and hashing | |
| `WaitingRequests` | what the hash table is used for: a set of waiting requests, of which a response takes one it may belong to | |
| `PacketKey` | hash and comparison of packets, `packet.c` | |
| `PacketHash` | `packet_hash.c` with chains, buckets and resizing | refines `WaitingRequests`; its instance uses `PacketKey` |
| `PacketMatcher` | the matcher thread | uses `PacketMap`, not the table |
| `PacketMatcherProofs` | theorems about `PacketMatcher`: its types, where every packet is, its frames and its end | |
| `PacketOrderProofs` | theorems about its search, its order and its window | extends `PacketMatcherProofs` |
| `Handover` | what the threads rely on about each other, as predicates on frames and records | |
| `SequenceLemmas` | facts for the proofs, about sequences and about what is handed over | uses `Handover` |
| `DumpFile` | what the dumper promises the input | |
| `Dump` | `dump.c` with token bucket and rotation | refines `DumpFile` |
| `DumpProofs` | theorems about `Dump` | |
| `Input` | `input.c`, the loop over the inputs in `main.c`, SIGINT | uses `DumpFile` |
| `InputProofs` | theorems about `Input` | |
| `Output` | `output.c`: the output thread, its subprocess, SIGPIPE | |
| `OutputProofs` | theorems about `Output` | |
| `Capture` | what the program promises its user | |
| `Collector` | `main.c`: the three threads, two queues and signals together | composes `Input`, `PacketMatcher`, `Output`; refines `Capture` |
| `CollectorProofs` | theorems about `Collector` | instantiates `InputProofs`, `PacketMatcherProofs`, `OutputProofs` |
| `Escape` | `dns_snescape` | |
| `CborEncoder` | the part of tinycbor's encoder that is used, and a decoder to compare with | |
| `OutputRecord` | `output_csv.c`, `output_cbor.c` and their options in `config.c` | uses `Escape`, `CborEncoder` |
| `MC*` | the instances TLC checks | |

The refinements are the joints: a detailed component is checked against its
abstract specification once, and the component that uses it is built on the
abstract one. `Collector`, `PacketMatcher` and `Input` treat a queue as the
bounded FIFO with the blocking policy that `FifoQueue` specifies; the frames
sent are kept in the sequence `out`, of which the next thread has taken the
first `taken`.

Definitions keep the names of the source (`dns_packet_frame_append_packet`
becomes `AppendPacket`). An operator whose comment says *Faulty* belongs to no
specification: it is the definition that follows it with a mistake in it,
kept to show that the property it is listed with in `PROJECT.json` notices.

### FrameQueue

`queue`, `start`, `length`, `total_size` and `on_full` are the fields of
`struct dns_frame_queue`. `mutex` is the holder of the lock, `pc[t]` where
thread `t` is between two pthread calls, `hold[t]` its local frame pointer, and
`live` the set of allocated frames. Enqueue is `CallEnqueue`, `EnqueueLock`,
then one of `EnqueueBlock`, `EnqueueDropOldest`, `EnqueueDropNewest` and
`EnqueueInsert`, then `EnqueueSignal`; dequeue likewise. A waiting thread may
wake without a signal (`SpuriousWakeup`). The condition variables are
*broadcast*, as in the code. `Destroy` runs when no thread is in the queue.

### PacketMatcher

A step is one iteration of a loop of the thread, since every iteration may
block on the output queue. `dns_worker_packet_matcher_advance_time_to` is
called from three places: the variables `target` and `return` hold its argument
and the place to go back to, and `AdvanceDone`, `AdvanceQuiet`, `AdvanceFrame`
and `AdvancePacket` are the four ways through an iteration. Packets are
numbered in the order they are read; `response[i]` is the response pointer of
packet `i`. `Receive` is the dequeue of any frame the input can send,
including a frame without packets, the frame of an input that never saw a packet
(no time) and the final frame. Packets may come in any order of time, as they do
when files overlap.

### PacketHash

The table is the array `data` of `capacity` chains of buckets; a bucket holds
the hash and the requests of one key, newest first. `result` is what the last
`dns_packet_hash_get_match` was asked about and returned, so that a response
that misses its request is visible in the refinement. The hash function is
chosen in `Init` from the constant `HashFunctions`, as the code chooses its
seed. Resizing goes to the load `DNS_PACKET_HASH_BEST_PERCENT`, with integer
division as in C.

`WaitingRequests` leaves open which of several requests that fit is taken, and
allows none only if none fits or more than `MaxSearch + 1` have the key. What
the code takes is the newest, in `PacketHash` and in `PacketMap`; what its comments
say is the property of the run `hash_order`.

`PacketKey` has the functions of `packet.c` themselves. The instance takes its
hash functions from `PrimaryHash`, in words of 8 bits instead of 64 so that they
wrap, and an `ASSUME` that TLC evaluates says that its tables of keys and names
are what `PrimaryMatch` and `QnameMatch` give. A missing name is a name of its own. That a response hashes like its
request although its addresses are exchanged is therefore part of the
refinement.

### Input

A step is what the main thread does between two calls that may block or fail.
libtrace is external: opening, starting, the filter, an event, reading and
select may each fail, and any packet may parse or not. `NextInput` is the loop
of `main.c` that goes on with the next file. `Tick` moves the clock and
`SigintHandler` sets `dns_global_stop` at any moment; the thread sees it where the code looks.
`dns_input_report` is part of every frame that is sent, so its counters are
state.

### Dump

One action per outcome of `dns_dump_packet`: `Skip` (over the limit),
`OpenFails`, `Write` (which opens or rotates the file first if one is due, and
may fail). The caller's reaction to an error, destroying the dumper, is part of
the action. Time is in seconds and tokens are whole bytes, where the code has
microseconds and a double.

### Output

`opc` is where the thread is between two calls that the subprocess, the disk or
a signal can interfere with; `todo` is what is left of the frame: its start time
and its packets, each of which `dns_output_check_rotation` is called for. A
rotation is `CheckClose`, `WaitForPipe`, `CheckOpen`. The subprocess is
"running", "deaf" (it closed its end of the pipe), "ok" or "failed" (it ended
and was not waited for yet) or "none"; it may change at any moment. `buffered`
says that stdio holds bytes that are not in the pipe yet: `Flush` is where
SIGPIPE strikes, and its handler looks at `dns_global_stop`. `unread` is what is
in the pipe: `Flush` blocks while it is full (`PipeCapacity`) and has a reader,
`SubprocessReads` empties it, and what a subprocess leaves in it is lost. `files`
(opening times), `written` and `damaged` are history for the properties; `damaged`
tells for each file how it came to harm: a write was "refused", the subprocess
"failed", or bytes were left "unread". Every `die` and `exit` leads to "dead".

### Collector and Capture

`Collector` instantiates the three thread modules over common queues and one
`dns_global_stop`. `main_pc` follows `main` from the first thread started to the
last destructor, and `thread[t]` tells whether the mutex `running` of a thread is
locked and whether the thread can be joined. `Alive` is false when any part has
called `exit`, `die` or failed an assertion. When the matcher takes a frame it finds
out about each packet whether it is a request, its key and its name. `DestroyFails` collects what the destructors
assert or die of.

`Capture` knows only packets read and records handed to stdio. Each record takes one or
two packets that were in none before, and the program ends well only when no
packet is left. The step in which the program dies may still write a record.

### OutputRecord, Escape, CborEncoder

A step writes one column of a record or of the header. `Known` is the condition
of each column and its value; it is the same in both drivers, and `CsvValue`,
`CsvMissing` and `CborValue` are their two ways to write it. Numbers are a
different one for each column and packet; digits printed are one character.
`ConfCommit` is the part of `dns_collector_conf_commit` that concerns the output,
so only configurations the program accepts are tried. `line` is the text up to `p`,
which `snprintf` moves on by the length a text would have: `CsvEnd` cuts what is
too long, and where the code writes behind `outbuf` (`BehindOutbuf`) the record
ends in "undefined", of which nothing is claimed. An error of the CBOR encoder,
such as a record beyond its buffer, leads to "dead". `CborEncoder` follows
`cborencoder.c` function by function; a byte has 32 values instead of 256 in the
numbers it writes, so that TLC's integers reach every length. `ItemAt` is an
independent decoder, and `Unescape` an independent reader.

## What TLC checks

Passing runs:

| run | instance | states | shows |
|---|---|---|---|
| `queue` | 1 producer, 2 consumers, capacity 2, 4 frames, 3 policies | 63,000 | every live frame is owned by one thread or slot, `total_size` is the sum, no wakeup is missed, refinement of `FifoQueue`; enqueue returns and a queued frame is taken (`FramesFlow`) |
| `matcher` | 3 packets, times {0,1,3}, 2 keys, 2 names, a search of 1 request, output queue of 2 | 491,060 | each packet is in one place or leaves once, in frames that tile time; matches are right and only the search limit makes one miss; without late packets, order and window are kept; nothing is left at the end |
| `hash` | 6 requests of 4 keys, 5 responses, a missing name, 2 seeds, at least 2 chains | 12,312 | buckets well formed, load bounded, refinement of `WaitingRequests` |
| `input` | 2 files or a live trace, 3 packets, times {0,1,3}, 2 sizes, clock to 2, queue of 1 | 1,731,724 | frames tile time and hold every parsed packet once and in order, reports count every packet, libtrace objects are released |
| `dump` | 4 packets, times 0..8, 2 lengths | 1,030 | the rate limit of each file, refinement of `DumpFile` |
| `output` | 2 frames, 2 packets, times {0,1,2,4}, with and without period and pipe (of 1 flush), failing open and write | 513,746 | every record is in one file, in order and counted; files rotate; a subprocess per file, waited for; only what was left unread in a pipe is lost unnoticed; the thread ends |
| `collector` | a live trace of 1 packet, clock to 3; a file of 2 packets with dumper and rotation; such a file with a pipe; queues of 1 | 239,716 | refinement of `Capture`; nothing is in use when it is destroyed; no packet, no file; after SIGINT the program ends; a packet of a live trace is recorded although none follows |
| `formats` | each field alone, all, all but one; 5 accepted separators; 6 packets and 6 with long options; buffers of 102 and 140 characters; all data of up to 3 of 7 characters for `dns_snescape`, buffers of 0 to 8 | 106,393 | header and record agree column by column, in CSV and CBOR; values are read back; a long line is cut to one line, and only a record beyond the buffer ends the program; escaping is faithful |

Why the bounds are enough: a ring of two slots wraps, is full and is empty
within a few steps; two consumers are the least with which a wakeup can go to
the wrong thread. Three packets are a request and its response with one packet
before or between; times run past the end of a frame and of the window,
which are two and one long. The hash instance grows and shrinks back,
and its seeds give both full collisions and wrapping sums. Two files are enough
to carry state from one input to the next, and a clock that reaches 2 passes the
end of a frame on a quiet link. Three opening times more than a period apart fit
into the times of `output`. In `collector`
queues of one frame make every thread block, and two packets one frame apart
are matched or not. Its three scenarios (`MCInit`) stand for all combinations of
input, dumper, rotation and pipe, which `Input` and `Output` are checked with apart;
the packet of the live trace comes in the first second (`LiveTimes`). A pipe that one
flush fills makes the output thread block. The numbers of `formats` cross the lengths CBOR has for
them, and packets lack each part once; the long options bring a line with all fields
to exactly the end of its buffer, one and two characters further, and behind it at a
separator or inside a list, and a CBOR record beyond its buffer. No symmetry is used, since several runs
check temporal properties.

Deadlock is checked in every run: `Terminated`, `Finished` and `Done` are the
regular ends of the threads, of the queue and of a file.

### Fairness

* `queue`: a thread that can take a step does (weak fairness of each thread:
  they are preemptively scheduled), the consumers ask for the next frame, as the
  loops of both workers do, and `pthread_cond_wait` does not return without
  reason for ever. There is one producer, as in the collector; several could
  overtake each other for ever, which pthread mutexes allow.
* `output`: the thread runs, and a subprocess reads what is in its pipe and ends
  when its input has ended, or stops reading or ends before. Neither is in the hands
  of the code: it writes into the pipe and waits for the subprocess without a
  timeout, so a subprocess that keeps its input open unread, or that never ends, does
  hold up the program. The matcher need not send anything.
* `collector`: main and both threads run, the clock goes on, and a subprocess reads
  and ends as above. Packets and SIGINT need not come.

### Where the code disagrees with its documentation

Four runs violate a property that a comment, the documentation or an assertion
of the repository states; `findings` in `PROJECT.json` quotes the lines.

| run | what is shown |
|---|---|
| `hash_order` | of two waiting requests that fit a response the newer one is returned; `packet_hash.h:101-102` says "the oldest", `packet_hash.h:47` and `packet_hash.c:153` have the list run from the oldest |
| `input_filter` | after a filter that cannot be applied, the next file fails `assert(!input->bpf_filter)` |
| `dump_abort` | after a write error, `dns_dump_destroy` fails its assertion that the trace is closed |
| `edns_list` | the list of an EDNS option DAU, DHU or N3U is written with every second byte, and bytes behind the option |

Met while modelling, with no run of their own (paths are under `src/`):

* `dns-collector.conf:65-67` says of `match_qname` that names are compared "if both
  present" and ignored when one is missing. `dns_packet_qname_match`
  (`packet.c:220-228`) takes a response with the root name for any request, but a
  response without a name only for a request without one, and a request without a
  name for no response with a longer one. `QnameMatch` follows the code.
* `worker_packet_matcher.h:34-35`: a late packet at the head of the queue keeps
  what is behind it, so a packet may be matched later than `matching_duration`.
  `WithinWindowInOrder` says what does hold: without late packets every match is
  within the window.
* `dns_frame_queue_destroy` (`frame_queue.c:49`) frees slots 0..length-1, not the
  frames in the ring, as action `Destroy` of `FrameQueue` shows. The collector's
  queues are empty by then, which `QuietAtDestroy` checks.
* `dns_dump_open` (`dump.c:108`) fills the token bucket also when it rotates, so
  the limit holds for a file (`FileRateLimited`) and not for several files
  together; `dns-collector.conf:55` speaks of "the rate long-term".
* The size of an output frame leaves out the responses attached to its requests
  (`worker_packet_matcher.c:189`); `packet_frame.h:49` says "Size of the
  contained data".
* Rotation is by the age of the file (`common.c:145`); comments in `output.h` and
  `dump.h` say it happens when the seconds since midnight are divisible by the
  period (`output.h:90-91`); a TODO in `common.c:144` knows. `FilesRotate` is about the age.
  That files do not overwrite each other follows from it only if `output_path_fmt`
  expands the time down to the seconds: any pattern is accepted, a fixed name too
  (`output.c:183-204`).
* The results of `fwrite` and `fclose` are not looked at (`output.c:259`): a plain
  file on a full disk loses records unnoticed, and so does a subprocess that ends
  well with unread bytes in its pipe after the last frame of its file was begun: when
  the file is closed only a failure counts (`output.c:266`). `DamageNoticed` is stated for a
  subprocess and says that nothing else is lost unnoticed. For `Capture` a record
  counts when it is handed to stdio. A subprocess that ended *well* before its input
  did ends the program, too (`output.c:307`).
* CSV: the README (lines 143-144) has characters that are not printable escaped;
  `dns_snescape` escapes NUL, newline, backslash and the separator. A separator
  that is not visible, such as TAB, becomes `\011`, which reads like NUL and "11":
  `EscapeFaithful` demands the value back for visible separators only.
* CSV: `config.c:83-85` compares a signed `char` with 0x7f, and accepts ':' and '*',
  which occur in addresses and names that are not escaped, although `README.md:143`
  lists the separator among the escaped characters. `CsvRecordsAgree` claims
  unambiguous lines for the other separators.
* CSV: "overflow safe" (`output_csv.c:53`) holds for one `WRITE`. It moves `p` on by
  the length the text would have, and the separator of the next column, or the next
  number of a list, is written there unchecked (`output_csv.c:54-62`, `BehindOutbuf`).
* CBOR: a record beyond 4096 bytes, by a long NSID or list, ends the program
  (`output_cbor.c:44-45`); a CSV line beyond 2048 is to be truncated.
* CSV: the table in `README.md:205-243` leaves out `req_edns_ping`, for which the driver
  writes a column that is always empty; the CBOR driver has none.
* The README (line 171) has `req_udp_sum` "only if present (and not 0)"; 0 is
  written.

## What is proved

The theorems hold for every value of the constants that satisfies the named
assumptions.

**`FrameQueueProofs`**, from `QueueAssumption` (capacity at least 1, which
`dns_collector_conf_commit` enforces; producers and consumers are different
threads; any number of either; any set of frames with natural sizes):

* `TypeCorrect`, `WakeupsNotMissed`: type correctness, and that a thread waits
  only while there is nothing for it to do or while the thread that will
  broadcast still holds the mutex. Neither is inductive alone. `IndInv` adds the
  lock discipline (a thread inside the critical section is the holder),
  who holds a frame at which place, that only a blocking queue has waiting
  producers, and that the slots in use hold frames. Missing a wakeup
  would need a test of `length` and the wait to be separated by another
  thread's change, which the lock discipline excludes.
* `FramesOwnedOnce`: every allocated frame has exactly one owner. It rests on
  `InQueueTail` and `InQueueAppend`, which say what the two ring operations do
  to the set of queued frames.
* `QueueImplementsFifo`: refinement of `FifoQueue`. The ring is mapped to the
  sequence `Contents`; `ContentsTail` and `ContentsAppend` prove that moving
  `start` is `Tail` and writing at `start + length` modulo the capacity is
  `Append`. Every other step is a stutter.

**`DumpProofs`**, from `DumpAssumption` (natural rate and period, positive
packet lengths):

* `DumpTypeCorrect`, and `DumpRateLimited`: the bytes in the current file are at
  most the burst, the rate times the age of the file, and one longest packet.
  The inductive invariant is `TokensPaid`: what was written is paid for by the
  tokens at hand, and the debt is never more than one packet. Capping the tokens
  at the burst only loses tokens, which is why it is an inequality.
* `DumpIsDumpFile`: refinement of `DumpFile`, action by action. `Input` and
  `Collector` are built on `DumpFile`, so this joint holds for every rate.

**`PacketMatcherProofs`, `PacketOrderProofs`**, from
`MatcherAssumption` (the assertion on `matching_duration` and the limits of
`dns_collector_conf_commit`) and `InputAssumption` (frames as `Input` sends them:
one with a packet has a time). Any number of packets and frames, any keys, names,
sizes and times in any order. The inductive invariant has four layers, the first three
in `PacketMatcherProofs`, the last in `PacketOrderProofs`:

* `Inv1` (types and `Reading`): a frame is loaded exactly between the places where
  `next_packet` takes and destroys it, and the packets still in it are the last
  ones numbered. It gives `TypeCorrect`.
* `Inv2` adds `Placing`: the packets handled so far are split between queue,
  output frame, output and responses attached, the queue is in the order of
  reading and every list of the hash in the reverse order. It gives `HashCorrect`,
  `NoPacketLost` and `MatchesCorrect`. `HashIsUnanswered` is what makes a match or
  a removal find its request; `Placing` is what keeps a packet from being put
  out twice. `NoneMissed` follows from it: the search stops at a request that fits, at
  the end of the list, or after `MaxSearch + 1` requests.
* `Inv3` adds `Framing`, `Draining` and `Sent`. `Framing` is `FramesTileTime` with the
  current output frame apart, and that the time never passes the end that frame may
  have (`FramesTile`). `Draining` says that nothing queued is newer than the time,
  or than the target while the time advances: so the last call of
  `advance_time_to`, which goes one further than the window, empties the queue
  whatever the order of the timestamps was (`Drained`). `Sent` says that a frame
  without a time is the final one and has no packets.
* `Inv4` adds `Sorted` and `Ordered`, both under the condition that no packet came
  behind the matcher's time: the queue is sorted and inside the window, and
  everything put out is before everything queued. It gives `WindowKept` and
  `InOrder`.

**`InputProofs`**, from `InputAssumption` and `NoFrameAssumption`: any number of files,
any packets, every failure of libtrace, SIGINT at any moment. The inductive
invariant `IInv` consists of `Framing`, the counters, `TraceReleased`, the final frame
(`Finals`) and the dumper (`Dumping`). `Framing`
has the times of the frames (`Tiles`), their packets (`EveryPacketFramed`,
`AllInside`), and what the places of the loop need: while a packet is placed it is
the newest one and the time advances to it, and in "append" its time is reached
(`Clock`); the time of pcap files is that of some packet read (`Past`), which is why
a packet not older than all before it is not before the start of its frame. It gives
`FramesOfInputTile`, `AllPacketsFramed`, `PacketsInFrameTime`, `AllReported` and
`TraceClosed`. `HoldMore` is the central lemma: one packet appended to the last frame
keeps the concatenation of the frames in order.

**`OutputProofs`**, from `OutputAssumption` and `FramesAssumption`: any period, any
frames, whatever the subprocess, the disk and the user do. `IInv` adds to the
properties where the thread may be with a file, a buffer or a subprocess
(`Control`), that what befell the file that is open or waited for is still to be found
out, and everything older was not to be (`Damage`),
that a file is closed before the end only because the next packet is past its
period (`Rotation`, which `FilesRotate` needs to space the next file), and that only
the first thing to do may be the start of a frame (`Packing`). It gives `AllWritten`,
`StatisticsExact`, `Rotates`, `OneSubprocess` and `DamageSeen`.

**`CollectorProofs`**, from `CollectorAssumption` (the limits of
`dns_collector_conf_commit`, and that `NoTime` and `NoFrame` are no values): any
configuration, with and without `match_qname`, any keys and names, any number of files and packets or a live trace, every failure, and any
interleaving of main, the two threads, the subprocess, the clock and SIGINT.

* `PartsHold`: the invariants of the three threads hold inside the program. Each was
  proved of a thread by itself, under an assumption on the frames it is given; here
  these assumptions are discharged against each other, without a circle, because a
  frame is taken after it was put. Three things make it work.
  First, `Handover` says what a thread shows to the next in terms of its queue only:
  `InputHands` (frames number the packets on from one to the next, and hold all of them when
  the input is done), `MatcherHands` (each packet is in one frame or is the response of
  one in a frame) and `OutputHands` (the records are the first of the items taken).
  Each proof module ends with the lemma that its invariant gives this predicate
  (`InputHandsOver`, `MatcherHandsOver`, `OutputHandsOver`).
  Second, `Link` ties the two sides of a queue together, which no thread's own
  invariant can. `InLink`: the packets the matcher knows are those of the frames it
  took. `OutLink`: the items the output took are the packets of the frames it took,
  with the response they have *now*; this holds because the matcher never changes
  a packet it has put out (`MatcherKeeps`). `Order`: main is past the join of a thread
  only if that thread is done.
  Third, the matcher and the output are past their loops only after the
  frame of type 1, which is the last of its queue.
* `DestroysQuietly` (`QuietAtDestroy`) follows: at the destructors all is done, so both
  queues were taken to the end, and the invariants say that what is done holds
  nothing.
* `CapturesAll` (`ImplementsCapture`): refinement of `Capture`. A record takes packets
  that were read and are in none so far, since the items are those of frames that
  hold each packet once. When main returns, the input has framed all packets, the
  matcher has put out all it knows, and the output has written all it took. All
  other steps are stutters, or the step in which the program dies.
* `NoFileWithoutPackets` (`NoPacketsNoFile`) has an invariant of its own, `Barren`: as
  long as pcap files give no packet, no frame has a time (`NoneYet`), so the matcher
  skips them and puts out nothing but a final frame without a time, for which the
  output opens no file.

`SequenceLemmas` has the facts about sequences the others share (appending,
concatenating, removing, ranges) and about the predicates of `Handover`. The inductive
invariants serve the proofs and belong to no run; they were checked on the same
instances before they were proved.

Only model-checked:

* all liveness (`FramesFlow`, `OutputEnds`, `StopEndsAll`, `PacketRecorded`): it
  needs fairness and ENABLED, which the prover does not do;
* `TotalSizeIsSum`, a sum over the ring, and the output formats and `dns_snescape`
  (`CsvRecordsAgree`, `CborRecordsAgree`, `EscapeFaithful`): folds and recursion over
  data of any length need induction over data, which the prover does not do;
* `BucketsWellFormed`, `LoadBounded` and `ImplementsWaiting` of `PacketHash`, whose
  chains are rebuilt by a fold when the table is resized.

## Not modelled

Most of the C code in the repository is bundled third-party code: libucw and all
of tinycbor. It is not the collector's, and apart from the encoder functions that
write the CBOR output it is used here only as lists, logging, memory and the parser of
the configuration. Measured against all files, the modules therefore cover a few
percent; of the collector's own code, some 4800 lines with comments and
declarations, they cover every part that has state or an algorithm the
properties can tell apart. What is left out of it:

* Parsing (`dns_packet_create_from_libtrace`) is a choice between a packet and a
  failure; it is libtrace and header arithmetic on bytes, without state.
* Time is integer and does not overflow; the clock of a live trace does not
  step back (a step back would only delay a frame).
* Byte counters, which go with the packet counters, the dropped-packet counter,
  which is whatever libtrace says, and the text of reports.
* Memory release other than of frames, filters and traces.
* `dns_frame_queue_enqueue` with a NULL queue: only the unused frame logger
  can call it so.
* File names, compression settings and addresses as text. The name of an output
  file is its opening time.
* What a CSV line does that is written behind its buffer.
* Option parsing, declaration of the configuration, logging, the SIGSEGV handler.
* The frame logger, which `main.c` never creates.
