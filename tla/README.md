# Verification of the OpenIPC FPV video link

The repository is a set of C programs for a digital FPV video link. On the air
side an encoder program (`venc`, in one build for HiSilicon and Goke chips and
another for Star6E) takes pictures from a camera, encodes them and sends the NAL
units over UDP. On the ground side `vdec` receives them, feeds the hardware
decoder and can record to a file; an on-screen display (inside `vdec`, or the
separate `osd` program) draws telemetry that arrives as MAVLink messages on
another UDP port. Two sample programs are a relay and a player's front end.

This directory holds TLA+ models of the parts that have concurrency, protocol
state or index arithmetic worth checking, TLC configurations that model-check
them on small instances, and TLAPS proofs of the most important properties for
every value of the parameters. Paths below are relative to the repository.

## 1. Inventory

| Component | State | Operations | Interacts with | What is hard |
|---|---|---|---|---|
| venc streaming loop, `venc/main.c` | encoder channel, `rtp_sequence`, `loop_running`, cursor into the NAL | `processStream`, `sendPacket`, `transmit`, `handler` | encoder hardware (GetStream, ReleaseStream), UDP socket | size arithmetic at the fragment boundary, stale pack count, SIGINT in the middle |
| vdec receiver, `vdec/udp_stream.c`, loop of `vdec/main.c` | `nal_buffer`, `in_nal_size` | `decode_frame`, RTP detection | socket, recorder, decoder hardware | lost, duplicated, reordered datagrams |
| recorder, `vdec/recorder.c` | block being gathered, ring of blocks, file | `recorder_int`, `recorder_input_data`, `enqueue`, `dequeue`, saving thread | receive thread feeds it | two threads, reuse of ring slots, blocking |
| OSD telemetry queue, `osd/queue.c` | ring, one mutex, one condition variable | `initQueue`, `enqueue`, `dequeue` | from the MAVLink thread to the drawing thread | one condition variable for two conditions |
| MAVLink framing, `vdec/mavlink/mavlink_helpers.h` | parse state, checksum, length, flags of one channel | `mavlink_parse_char` for every byte | called by the MAVLink threads of both OSDs | its state outlives a datagram: a frame cut by a loss goes on with the next one's bytes |
| OSD MAVLink handler, `osd/mavlink_parser.c` | armed flag, home position, GPS flags | one handler per message | UDP socket, queue | payload ownership across threads, only changes of the armed flag are queued |
| OSD drawing thread, `osd/ui/ui.c`, `osd/osd.c` | labels, two LVGL timers, flight seconds | one case per item type, two timer callbacks | queue, LVGL loop in the main thread | LVGL called from two threads without a lock |
| vdec OSD, `vdec/main.c` | telemetry globals, byte counters, flight clock | MAVLink thread, drawing loop | receive loop | globals shared by three threads without a lock |
| venc start-up and exit, `venc/main.c` | SDK modules started | sequence of SDK calls, exit path | SDK | failures seen and not seen, what an early return leaves |
| Star6E main, `venc/star6e_main.c`, `venc/shared.c` | stages started, offset into the frame | start and stop of stages, its own `sendPacket` | SDK, socket | partial failure, cleanup labels, fragment arithmetic |
| vdec start-up, `vdec/main.c`, `vdec/vo.c` | SDK modules set up | reset of the media system, sequence of SDK calls | SDK, an earlier life of the process | failures not looked at, no exit path: only the next start cleans up |
| sample programs, `sample/vdec-sample.c`, `sample/vdec-stdout.c` | copies of the two algorithms | as above | sockets, stdout | they differ from the originals in what they reset and where they test |
| frame buffers, profiles and options, widgets, vendored code and SDK | - | - | - | see section 9 |

What makes each component correct:

* streaming loop: a NAL is released to the encoder only after its datagrams
  carried each of its bytes once, in order, with one start and one end bit;
  never both bits in one fragment; consecutive sequence numbers; bounded sizes;
  an interrupt never leaves half a NAL.
* receiver: whatever was lost, doubled or overtaken before, a NAL that arrives
  whole is delivered intact; a loss damages only the NALs that lost something.
* recorder: every NAL from the first VPS on is in one block, no block is lost
  or torn, the receive thread is never held for good.
* queue: a bounded FIFO, no lost wake-up.
* MAVLink framing: a frame that finds the parser idle is taken, whatever was
  parsed before; a loss is forgotten within a fixed number of bytes.
* OSD: each change of the armed flag reaches the screen once and in order, the
  flight clock stops while disarmed, two labels drawn from one message agree.
* vdec OSD: the distance is between the first armed position and the last one,
  the flight clock counts armed time, each frame counts in one figure, the
  latitude drawn is that of one position.
* start-up and exit: what was started is stopped, in reverse, nothing else is,
  and the failure is the exit status; vdec, which stops nothing, never feeds what
  an earlier life left in the media system; Star6E sends each frame once, in
  fragments that tile what lies behind its first 12 bytes.
* samples: what was joined is cut again without loss; the player is given a
  parameter set first.

## 2. Modules

| Module | Models | Role |
|---|---|---|
| `NalHeader` | bit fields of NAL and fragment headers, the datagram | operators shared by both ends |
| `FrameSender` | `processStream`, `sendPacket`, `transmit`, the loop, SIGINT | specification |
| `FrameReceiver` | `decode_frame`, RTP detection, truncation by `recv` | operators and actions |
| `VideoLink` | sender and receiver joined by UDP | composes the two by EXTENDS |
| `NalFifo` | what the link promises | abstract specification |
| `Recorder` | `vdec/recorder.c` | specification |
| `TelemetryQueue` | `osd/queue.c` | specification |
| `BoundedFifo` | what the queue promises | abstract specification |
| `MavlinkFraming` | `mavlink_frame_char_buffer`, `mavlink_parse_char`, and the stream of frames | actions and properties |
| `TelemetryPath` | the byte stream, the parser, the queue and the drawing thread | composes the two by EXTENDS |
| `OsdTelemetry` | `mavlink_handler`, `ui_updating_thread`, LVGL's timers | specification, uses the queue as `BoundedFifo` describes it |
| `VdecOsd` | three threads of `vdec/main.c` | specification |
| `VencPipeline`, `Star6ePipeline` | the two mains of venc, start to exit; Star6E's `sendPacket` | operators and actions |
| `VdecPipeline` | vdec's main from the reset to the receive loop, its end and its next start | operators and actions |
| `Pipelines` | any of the three, chosen by `platform` | composes them by INSTANCE |
| `SampleReceiver` | the `decode_frame` both samples share | operators and actions on top of `FrameReceiver` |
| `VdecSample`, `VdecStdout` | what each sample does with a joined NAL: cut it again, write it out | operators and actions |
| `SampleLink` | venc with one of the samples over lossy UDP | composes `VideoLink` and the two by EXTENDS |
| `FrameSenderProofs`, `VideoLinkProofs`, `RecorderProofs`, `TelemetryPathProofs`, `OsdTelemetryProofs`, `VdecOsdProofs`, `PipelinesProofs`, `SampleLinkProofs` | - | theorems |
| `MC*` | - | small instances: sets of NALs, messages and positions |

## 3. How the models correspond to the code

**Bytes.** A byte of a NAL that a property does not tell apart is a pair of the
NAL's number and its position; a datagram carries an interval of a NAL and the
header bytes in front of it. Only header bytes have values, because `sendPacket`
and `decode_frame` compute with them (`NalHeader`).

**FrameSender.** `pc` is the place in the streaming loop of `venc/main.c`.
`QueryStatus` and `GetStream` are separate because the encoder goes on appending
between them; each iteration of the fragmentation loop is a step because SIGINT
may come between two. `Encode` is the hardware. `size` and `data` are the
variables of the loop in `sendPacket`, whose chunk is chosen before the NAL
header is stripped in the first iteration, exactly as in the code. A length
counts from behind the start code.

**FrameReceiver.** One action per branch of `decode_frame`; `nal_buffer` is its
first `in_nal_size` bytes. The header bytes a fragment writes at offset 4 are
kept (`Rewritten`) also where they hit an empty or foreign buffer. Whether 12 bytes
are skipped is decided as in the receive loop, by two bits of the first byte and of
the second (`LooksLikeRtp`), in every turn of it: `Unwrapped` is what `decode_frame`
is then given, a datagram taken for the other kind included. vdec reads the second
byte of a whole NAL too, which is payload; the first one decides there.

**Recorder.** The ring's slots are copied in two halves, and `fwrite` reads in two
halves, so that a copy that overtakes a read shows. The part of `enqueue` under
the mutex is atomic except for the copy, which the saving thread may see because
it reads a slot without the mutex. Condition variables are the wait states, with
spurious wake-ups.

**TelemetryQueue.** A call is one step under the mutex, two when it waits;
`waiting` is the set of threads blocked on the one condition variable, and a
signal wakes any of them.

**MavlinkFraming.** One action per parse state; header states in which a byte is
only stored share `GotHeaderByte`. The checksum is the sequence of the bytes it
was computed over: it is right exactly when these are what some frame sent
covers, so the CRC-16 itself and its accidental collisions are left out. A frame
may be cut anywhere (`LoseByte` drops one run of bytes, of any place and length),
because one datagram of the sender may hold several frames or a part of one.
After a bad checksum the parser restarts on the last byte only if it is the
marker of version 2, and does not clear the flag of version 1: so do the
actions. `clean` counts the bytes since one was lost or looked like a beginning.
`Horizon`, the distance after which a parser out of step is idle again, is what a
header behind a misread length, the payload, a checksum and a signature take
together. The signature belongs to it: a parser out of step may find a checksum
right, by what a payload holds, and then waits for a signature.

**TelemetryPath.** The thread receives only while it has nothing to queue;
`HandOver` is `enqueue` of one item, waiting included. An empty datagram between
two frames ends the thread, as `recv` returning 0 does.

**OsdTelemetry.** What a handler assigns happens when the message arrives, each
item is enqueued in a step of its own and waits while the queue is full. The
distance of GLOBAL_POSITION_INT reads `gpsdata` after queueing it, so it may be
computed from freed memory: `Garbage`. Each LVGL call of the drawing thread is a
step, and so is each LVGL call inside a timer callback of the main thread.

**VdecOsd.** A read and a write of a shared global are separate steps where the
code's are. A byte count is the set of frames it counts. The decimal texts the
distance goes through are modelled by the number `strtod` makes of them. The
label of the latitude is made from three readings of `telemetry_lat`, a step
each; `crossed` notes a report between them that is on the other side of one
degree. The read of a double is assumed to be one access.

**VencPipeline, Star6ePipeline.** `StartUp` is the list of SDK calls of main in
order, `CleanUp` that of the exit path; a call succeeds, fails and is seen, or
fails unseen (the leading `HI_MPI_SYS_Exit` of HiSilicon's, whose result is dropped,
among them: it is the first call, `reset`). `held` is what was taken and not given back, a set: each call is made
once and in the order of the list, so a thing's `Position` there is when it was
taken. In Star6E's list the cleanup labels are targets of the gotos. Its `sendPacket` is a step per
fragment, with the wrap of `uint32_t` in its size arithmetic; the sequence number
and the marker are whatever the encoder's data has where it looks for them.

**VdecPipeline.** `Reset` is what main gives back before it starts, `StartUp` the
SDK calls of `main`, `VO_init` and `VO_HDMI_init`; `Unchecked` are those whose
failure is not looked at and `AfterFailure` where such a failure leads. No signal
is handled: `Killed` may come anywhere, and `Restart` finds what was left. Nothing
looks at the results of the reset, so each of its calls may fail and give nothing
back; `stale` is the part of `held` that an earlier life or another program set up
and no call has given back since.

**SampleReceiver, VdecSample, VdecStdout, SampleLink.** `program` chooses which sample is at
the end of the wire. `nal_buffer` is the whole memory here and not only its first
bytes, because neither program resets the size it keeps between calls: a whole NAL
leaves `nal_size` as it was and is handed on by the length it returns. The relay's
fragmentation loop is a step per iteration, as venc's, and main receives nothing
until it ends.

## 4. Runs

States are the distinct states TLC finds.

| Run | States | Question and answer |
|---|---|---|
| `sender_avc` | 15 023 | Does the loop carry each H.264 NAL whole, framed, numbered and bounded, through a GetStream failure, an RTP wrap and an interrupt? Yes. |
| `link_lossless` | 20 563 | Do venc and vdec, in H.265 over RTP, refine `NalFifo` on a network without faults, and does every NAL arrive? Yes. |
| `link_faults` | 1 973 771 | With one datagram lost, one doubled and any overtaken by its successor: does a NAL that arrives whole get delivered, and does loss alone stay with the NALs it hit? Yes, in H.264 without RTP. |
| `recorder` | 38 311 | Do the recorder's two threads miss no NAL, block nobody for good, write every block, and is the file exact as long as the ring never filled? Yes. |
| `recorder_file` | violation | Is the file exact always? No, see section 8. |
| `telemetry_path` | 273 115 | From the bytes to the drawing thread, with a run of bytes lost anywhere: is every frame taken that finds the parser idle, is the parser in step again after a fixed distance, and is `osd/queue.c` a bounded FIFO without lost wake-ups? Yes. |
| `osd_telemetry` | 86 986 | Do armed state, flight clock, position labels and the armed text come out right although LVGL is called from two threads? Yes, up to what the properties name. |
| `osd_arm_text` | violation | Does the label name the state? No, the two texts are exchanged. |
| `pipelines` | 36 618 | Whatever fails and wherever the signal comes, does either main of venc stop exactly what it can, in reverse, report it and end, does Star6E send each frame once, and does vdec feed only what it set up itself, whichever of its resets failed after whatever end? Yes, up to what the properties name. |
| `sample_relay` | 105 856 | Do the samples join what arrives whole, does the relay cut it again without loss, does stdout open with a parameter set? Yes, but for the relay's missed sizes. |
| `vdec_osd` | 4 112 484 | Distance, latitude, flight clock and rate in three threads without a lock: right up to the named windows. |
| `vdec_osd_earth` | violation | Is the distance computed between the reported places, anywhere on Earth? No. |

The properties speak of more than one actor or step wherever they can; where a
module's types are proved (`FrameSender`, `Recorder`, `TelemetryQueue`) its
`TypeOK` is checked as well. Each property of a passing run has a *mutant*, an
operator defined next to a definition of the model with a plausible slip in it
(`MustCutNoSlack`, `HasRoomOffByOne`, `CleanUpGroupFirst`, ...): with that slip in
place TLC finds the property violated, so each property really depends on the
code being as it is.

### Bounds, and why they are enough

* `sender_avc`: `MaxSize` 3 and NALs of 4, 7, 8 and 11 bytes lie on both sides of
  the size test (`MaxSize + 4`) and give last fragments of one byte, of a full
  chunk and between; `SeqRange` 5 is passed within one NAL; `MaxNals` 3 lets the
  encoder append during sending; `MaxFails` 1; `NetBound` 12 holds all datagrams.
* `link_lossless`: three H.265 kinds of one, two and four datagrams, `NetBound`
  3, so that two cut NALs meet in the receiver; one GetStream failure.
* `link_faults`: H.264 without RTP, `MaxLosses`, `MaxDups` and `Overtake` 1,
  `NetBound` 2. decode_frame has no memory but one buffer, which any first
  fragment and any whole NAL clears; three NALs are enough for a damaged one, a
  victim and a recovery. (In these properties the codec changes the header
  arithmetic only, which `link_lossless` and the sample run cover in H.265.)
* `recorder`: a ring of 2 and blocks of 2 with NALs of 1 and 2 bytes: a NAL fits
  exactly, fits with room, or does not fit; 7 NALs close up to six blocks, so
  the ring fills, wraps and empties.
* `telemetry_path`: 2 slots and up to six items wrap and fill the ring. Three
  frames are one cut short, one it takes with it and one behind them; one frame is
  of version 1, one of version 2 and one signed, and two hold bytes equal to a
  marker. With `MaxByte` 4 the longest length a parser can misread is about as
  long as a frame, as 255 is of the frames in use, so that a misread length
  ends inside, at the end of and behind the frame that follows.
* `osd_telemetry`: 3 messages of any kind and a queue of 2, shorter than the
  four items one message produces, so that the producer waits; arm, disarm and
  arm again are three messages; two ticks of the flight clock.
* `pipelines`: every call may succeed or fail. Frames of 16, 17, 20, 21 and 24
  bytes with a header of 12 and `-n 16` lie on both sides of the size test and give
  last fragments that are full, of one byte and of the rest; `-n 5`, below the
  header's size, makes the unsigned arithmetic wrap. Three lives of vdec are one
  that leaves something, one that ends during the reset and one that receives; the
  first may find what a display or a decoder of another program left.
* `sample_relay`: venc cuts to 5, the relay to 3, so that a NAL is cut by neither,
  by the relay only or by both; the 4-byte NALs are the missed sizes. One loss, one
  double and one overtaking; two NALs are a damaged one and its victim (three find
  nothing more in 4.7 million states).
* `vdec_osd`: a second of 2 clock units, a minute of 2 seconds and an hour of 2
  minutes, a frame at least every unit, time up to 6: the interval is below, at and
  above a second, and the seconds carry. 2 frames are what two racing
  read-modify-writes need; 4 messages are an arming, a position, the disarming
  and another position, or reports between the readings of a label. The two
  positions are those on either side of one degree, where the label and the
  distance change their form; `vdec_osd_earth` has those south, west, near zero and
  beyond 100 degrees.

## 5. Fairness

* The streaming loop, the receive loop, the recorder's two threads and the
  queue's consumer are weakly fair: they are loops or threads the scheduler runs.
  Their inputs (NALs, datagrams, telemetry) are not: nothing has to arrive.
* `OsdTelemetry`: the enqueueing handler, the drawing thread and a timer callback
  once begun are weakly fair. `ArmTimerDue` is strongly fair:
  `lv_timer_handler` walks through the whole list of timers at each call, so a
  timer that is due again and again is found, however often the other one runs.
* `TelemetryPath`: the drawing thread is weakly fair; the stream, the parser and the
  handing over are not, for an empty datagram may end that thread at any time.
* `Pipelines`: main is weakly fair because every SDK call returns; GetStream
  of Star6E has a timeout of 1000 ms, that of HiSilicon follows QueryStatus.

Deadlock checking is on in every run; where a loop of the code polls (no pack,
no datagram, no telemetry) the model has that turn as a stuttering action.

## 6. Assumptions

* `PackAssumption`: a NAL has an AVC or HEVC header as the encoder writes it and
  a payload, and only slices are longer than the size test allows. (The code
  sends a longer NAL of another type with whatever header the last fragment left
  in `tx_buffer`, `venc/main.c:1247`.)
* `SenderConstants`: `max_frame_size` is not 0. With `-n 0`, which nothing
  refuses, the fragmentation loop would not end.
* `LinkAssumption`: a datagram of the configured size, with the four bytes of slack
  and the RTP header, fits in what vdec reads (4096 bytes).
* `QueueAssumption`, `TelemetryAssumption`: a queue has at least one slot, and the
  values that stand for no position or no item are none.
* `RecorderAssumption`: a NAL is not longer than a block. `nal_buffer` is twice as
  long as a block, and nothing tests the difference (`vdec/recorder.c:123`).
* `OsdAssumption`: frames of the OSD thread are less than a second apart, and one
  takes longer than a tick of the coarse clock.
* `SampleAssumption`: as `PackAssumption`, for the relay's own size.
* `FramingAssumption`: the two markers differ from each other and from the values of
  the flags byte, a signature has a length, there is a frame to send, and what a
  checksum covers names its frame.
* `PathAssumption`: what a message gives to queue are items.
* `PipelinesAssumption`: `-n` is not 12. With it the fragment of Star6E's
  `sendPacket` has no room behind the header and its loop does not end
  (`venc/shared.c:105`). Frames are longer than the RTP header they begin with, and
  sizes are far from the top of the unsigned word.
* `Needs`, `RefusedBy` and `GivesBack` of `VdecPipeline`, rules about the SDK, marked as
  external. `Needs` is what must be set up before a call. `RefusedBy` is what must not be:
  the headers in `sdk/hi3536dv100/include` have error codes for a device that is
  enabled, a layer that is not disabled and a decoder channel that exists.
  `GivesBack` is what a reset gives back when it succeeds. What vdec is shown to do
  does not depend on it, as each reset may also give nothing back.
* `VencPipeline` starts with nothing set up: venc is the first user of the camera since the
  board started, so its leading reset finds nothing to stop.
* `VencPipeline`'s `Needs`, a rule about the SDK: a call on a device, channel or
  group that was not set up is refused. This is what makes unseen failures
  harmless; it is marked as external.

## 7. Proofs

For every value of the constants that satisfies the module's assumption, TLAPS
checks `Spec => []P`, or `Spec => P` where `P` is a specification, for:

| Module | Theorem | Property |
|---|---|---|
| `FrameSenderProofs` | `TypeCorrect`, `StartAndEndApart`, `DatagramsFit` | `TypeOK`, `NeverStartAndEnd`, `DatagramBounded` |
| | `ReleasedAfterSent`, `StopsBetweenNals`, `SequenceContiguous` | `ReleasedIsCarried`, `StopLeavesNoPartialNal`, `RtpSequenceContiguous` |
| `VideoLinkProofs` | `WholeArrivals`, `DamageStaysContained` | `WholeArrivalIsDelivered`, `DamageContained` |
| | `LinkImplementsFifo` | `LinkIsFifo`, where the network has no faults (`NoFaults`) |
| `RecorderProofs` | `TypeCorrect`, `SlotIsSafe`, `FileIsExact`, `NalsAreGathered` | `TypeOK`, `SlotInUseIntact`, `FileExactUnlessFilled`, `EveryNalGathered` |
| `TelemetryPathProofs` | `TypeCorrect`, `SignalsReach`, `RingIsFifo` | `TypeOK`, `NoLostSignal`, `QueueIsFifo`, of the queue alone |
| | `PathUsesQueue`, `PathSignalsReach`, `PathIsFifo` | the queue's `Spec`, `NoLostSignal`, `QueueIsFifo` |
| | `WholeFramesAreTaken`, `LossesAreLeftBehind` | `WholeFrameIsTaken`, `Resynchronises` |
| `OsdTelemetryProofs` | `ClockStops`, `ArmedIsInStep`, `LabelsOfOnePosition` | `ClockStopsWhenDisarmed`, `ArmedInStep`, `DistanceMatchesCoordinates` |
| `VdecOsdProofs` | `LatitudeIsOne`, `FramesInOneFigure`, `DistanceIsFromHome`, `ClockIsNotAhead` | `LatitudeOfOnePosition`, `EachFrameInOneFigure`, `DistanceFromHome`, `ClockNotAhead` |
| `PipelinesProofs` | `FailuresAreReported`, `FrameIsSent` | `FailureIsReported`, `StarFrameIsSent` |
| | `CleanUpsAreExact`, `CleanUpsReverse`, `VdecReceivesOnItsOwn` | `CleanUpIsExact`, `UndoneInReverse`, `ReceivesOnItsOwn` |
| `SampleLinkProofs` | `WholeArrivalsJoined`, `StdoutOpens` | `WholeArrivalIsJoined`, `StdoutOpensWithParameterSet` |
| | `RelayEnds`, `RelaysWhole` | `FragmentsBounded`, `RelayedWhole` |

### Sender

`NeverStartAndEnd` is not inductive: whether a fragment is first and last depends
on the cursor. `IInv` adds `StreamShape` (what is being sent is an encoded NAL)
and `FragmentShape`: inside the loop the NAL must be cut, the first iteration
starts with all of it, and what is left always reaches the NAL's end. In the first
iteration `size > MaxSize + 4` then makes the chunk `MaxSize`, and what is left
after stripping at most two header bytes is more than the chunk: the end bit is
clear. This is where the four bytes of slack are needed; the proof fails without
them, and so does the run. `NetSound` carries the facts about datagrams already
sent.

What the datagrams carry needs more (`Inv`). NALs are numbered in the order they are
encoded, so two counters, `Released` and `Sent`, say where each one is:
`ChannelShape` says that the channel and the stream hold the NALs that follow
them. `CarryShape` says that each of the first `Sent` NALs was carried whole and
that the one being cut was begun at its first payload byte and carried up to the
cursor. `SequenceShape` says that the counter is one ahead of the last datagram.

### Link

All three theorems rest on `NetInv`, about what is on the way: a datagram is one that
`sendPacket` makes of a NAL that was encoded (`Made`: its header gives back the
NAL's header and says whether it is the first or the last), it lies behind the
sender (`SentBefore`), datagrams lie in the order of the byte stream up to doubles
(`Ordered`), and a NAL that lost nothing is complete up to the sender (`ChainShape`).
Overtaking happens when a datagram is taken out, so it leaves the order of those
that stay. `HeaderIsSeen` says that of a datagram `sendPacket` makes vdec sees
rightly whether it has an RTP header: the forbidden bit of a NAL header is clear, and a
fragment's indicator leaves it so. So `decode_frame` is given it as it was made
(`ReadAsMade`), or without its end when it was truncated.

* `WholeArrivals`: `RunShape` follows one NAL that arrives from its first datagram on,
  with nothing in between. After each of its datagrams `decode_frame` holds its
  beginning (`Holds`), after the last it has delivered it: the first fragment
  clears the buffer, the others append behind one another and write the same
  header over its place.
* `DamageStaysContained`: as long as each datagram that arrived lies behind the one
  before it (`Sorted`), the buffer is the beginning of the last datagram's NAL, or all
  that is in it comes from NALs that lost a datagram (`BufferShape`,
  `DeliveredShape`). `Spoils` also admits a NAL one of whose datagrams was
  overtaken; once that datagram arrives `Sorted` is false, and the property, which
  speaks of what is still on the way too, excludes it.
* `LinkImplementsFifo`: without faults the datagrams on the way begin where
  `decode_frame` is and end where the sender is (`LineShape`). The NALs `NalFifo` holds are
  those encoded and not delivered (`Waiting`): encoding one appends to it, the
  last datagram of one takes the first, and every other step is a stutter.

### Recorder

`IInv` relates the ring to the history: `RingShape` says that head is tail plus
count modulo the size, `RingContents` that the slots from tail to head hold the
blocks that were enqueued and not dequeued, in order; `SlotInUseIntact` adds the
slot dequeued last while the ring has room, and `FileShape` says how far the file
has come. The only step that disturbs a slot is the copy, which goes to head; that
head differs from the slot in use is the condition `count < RINGBUFFER_SIZE - 1`.
For `NalsAreGathered` the invariant adds that nothing was gathered before the first
VPS (`GatherShape`) and that the thread, once ready, stays so (`ReadyShape`).

### Telemetry queue and path

* **Queue.** The invariant adds where rear is (`RingShape`). A thread waits only
  while its condition is false; with one thread on each side both can never
  wait, so the one waiter a signal finds is the right one.
* **Ring as FIFO.** `RingIsFifo` maps the slots from front on to the sequence
  `Inside`. An item goes to the slot behind the last one (`RingShape`), which is
  none of those in use because fewer than `MAX_QUEUE_SIZE` consecutive slots are
  different (`SlotsDiffer`), so what is inside grows by `Append`; taking the first
  moves front on by one and leaves the `Tail`.
* **Path.** `PInv` says that what is left to hand over are items (`Carried`) and that
  a signature is waited for only behind a checksum that is right for some frame
  (`Signed`), without which a signed frame could hand over anything. With it each
  step of the path is a step of `TelemetryQueue` or leaves the queue alone, so the
  queue's theorems hold in the composition.
* **Framing.** In `FInv`, `Tracked` says that a parser which was idle when a frame
  began, and lost none of its bytes, is at the frame's own position (`InStep`):
  state, length, flags, index and checksum are what the bytes read so far make
  them. `Settles` bounds the others. `Owes(k)` says that a parser in its present
  state is idle again after `k` bytes at most, and either those fit in what is left
  of `Horizon` or they end inside the frame under way. Two cases need an argument of
  their own: a byte of a frame that looks like a beginning, where the count starts
  anew, and a frame of version 2 read as one of version 1 because a bad checksum left
  the flag (`Misread`), which ends sooner.

### OSD

* `ClockStops`: `ClockShape` says that the timer does not run while the flag drawn is 0,
  but for one tick that LVGL had begun when the flag came.
* `ArmedIsInStep`: `ArmedInStep` is inductive given the types (`HandInv`): the flag
  drawn and the changes on the way, in the thread's hands, the queue and the
  handler, add up to the handler's flag.
* `LabelsOfOnePosition`: before both GPS messages have come neither label is
  written; from then on the last item on its way for either label, or the label
  itself when there is none, is of one and the same position (`PairShape`).
* `VdecOsd`: `LatShape` says what each reading made of the text so far; `FrameShape`
  accounts for each frame that the receive loop, the count, a figure or a window
  between them may hold; `HomeShape` ties the base to the first armed position; the
  clock's invariant bounds what is shown and what the pending interval may still add
  by the armed time and the named excess, for every length of second, minute and
  hour and without the run's bound on time.

### Start-up and exit

`EndShape` says which phases each main knows and that a failure ends its start-up
with the status set. For Star6E's `sendPacket`, `SendShape` says that the pieces sent
so far tile the frame from its start (behind the RTP header when it is cut) to the
offset; that a loop iteration sends at least one byte is where `-n 12` is
excluded, and where `-n` below 12 is seen to make room for everything.

Four invariants say how far a main has come. They speak of places in the lists of SDK
calls, and the lemmas before them (`VencStartUpIs`, `StarStartUpIs`, `LabelOf`, ...)
say what is at each place.

* **HiSilicon.** `SetUp(held, n)` says what must be there before the `n`-th call: what
  a call that is looked at has set up, and what such a call needs. The exit path gives
  back the video buffer and the system, although nothing looks at the failure of
  either: `vi_vpss_mode`, which is looked at, needs the system, and the system needs the
  buffer; the group is there because `group_chn` needs it. With the device among the
  calls that are not looked at the invariant, like the run, fails. In `VencShape` the
  exit path has given back exactly what is before its next call.
* **Star6E.** While main starts up, it holds exactly what the calls so far have taken.
  `LabelOf` says of each stage that the label its failure goes to has below it all that
  was taken before the stage and nothing else, but for a bind, which `bound`
  guards. `Falling` carries this down the labels; what the failed stage had taken
  itself stays, as `CleanUpIsExact` says.
* **Order.** What a call of the exit path gives back was taken after all that is given
  back behind it, so both invariants give `UndoneInReverse` of each step.
* **vdec.** The reset shows nothing, because each of its calls may fail; `VdecShape` takes
  from it only that what is there is `Chained` (no channel without its layer, no
  binding without its decoder), whichever parts went. `OwnSetUp(held, stale, n)` says what
  is there before the `n`-th call of the start-up and whose it is: `vdec_pool_free`, which
  is looked at, has put an old pool away before `vdec_pool` sets up this life's;
  `layer_attr` is refused while an old layer is enabled, `decoder` while an old channel
  exists, and both are looked at; an old channel of the display or binding cannot be
  there without these. Of the calls that are not looked at, `vb`, `sys` and
  `vo_device` have left something, this life's or not: `vdec_pool`, `decoder` and
  `frame_rate`, which are looked at, need them. With `layer_attr` among the calls that
  nobody looks at, the invariant and the run fail. This holds for any number of lives.

### Samples

The theorems of the link are reused: `SampleLink` has its sender and its network, and
`NetInv` of `VideoLinkProofs` is about these alone.

* `WholeArrivalsJoined`: `JoinShape` follows a NAL that arrives from its first datagram
  on, as the link's `RunShape` does, but in a memory that is never cleared: after each
  of its datagrams the first `nal_size` bytes are its beginning, whatever lies behind
  them. `StartShape` adds that a parameter set that arrived has opened the output.
* `StdoutOpens`: the first byte of a datagram opens the output when either header's
  reading takes it for a parameter set. No fragment's first byte does, whichever
  codec it is read as, so that datagram is a whole NAL, the one `decode_frame`
  returns in the same turn: `OpenShape` says that once the output is open that NAL is
  the first in it, and before nothing is.
* `RelayEnds`: `SendShape` says that `relay_data` and `relay_size` delimit what is left of
  the NAL in the memory, also where the `int` is -1, from which the next turn ends
  the loop; `CountShape` adds that the datagrams sent so far and what is left fit in
  the NAL together, each full chunk having taken `MAX_SIZE` bytes of it.
* `RelaysWhole`: `PartShape` says that the datagrams sent of a NAL link up from its
  header to where the relay reads on, framed for the receiver and not ended, with at
  least one byte left: here `MissedSize` is excluded, for such a NAL would be ended
  early or not at all. `DoneShape` says that every other NAL is passed on entirely.

### Only model-checked

* Liveness, which is out of the prover's reach: `DeliveredUnlessLost`,
  `ReceiveThreadReturns`, `EveryBlockWritten`, `EveryItemTaken`, `ArmTextIsCleared`,
  `ExitsAfterSignal`. All other properties that the passing runs check are proved.
* The three counterexamples of section 8.

## 8. What was found

Three runs show that the code does not do what the repository says it does:

* `recorder_file`: `dequeue` hands out a pointer to a slot and frees the slot at
  once; `fwrite` reads it later. Once the ring fills, the producer copies the
  next block over it and the file mixes two blocks (`vdec/recorder.c:147`).
* `osd_arm_text`: "Armed" and "Disarmed" are exchanged (`osd/ui/ui.c:244`).
* `vdec_osd_earth`: the decimal texts behind the distance are wrong for negative
  coordinates, for those below a tenth of a degree and for those of 100 degrees
  and more (`vdec/main.c:1076`).

Seen while modelling, expressed as exceptions in properties or assumptions:

* `-n` is not the largest payload: a datagram may be four bytes longer
  (`DatagramBounded`).
* The relay's loop has no slack: an H.264 NAL of `MAX_SIZE + 1` bytes becomes a
  fragment that is first and last, an H.265 one of `MAX_SIZE + 1` or `+ 2` is cut
  wrongly as well (`MissedSize`, `sample/vdec-sample.c:85`).
* An H.264 slice with nal_ref_idc 2 passes for an H.265 VPS and opens
  `vdec-stdout` early (`sample/vdec-stdout.c:34`).
* HiSilicon's exit path never stops the encoder, and an early return leaves all
  that was started (`CleanUpIsExact`); Star6E exits with 0 when its socket fails
  (`FailureIsReported`).
* Star6E's `sendPacket` takes the first 12 bytes of a frame for an RTP header:
  when it cuts the frame they are sent as header only, so the receiver's joined
  frame lacks them, and the datagrams of every frame are numbered from what they say
  (`venc/shared.c:105`; `README.md:17` speaks of "NAL fragmentation like in RTP", of
  the other build). `StarFrameIsSent` accepts both, as it does one fragment of any
  size with `-n` below 12; what it shows is that the fragments tile the rest of the
  frame in order before it is released.
* vdec may receive on a system, a video buffer and an output device that an earlier life
  set up, when resets fail unseen (`ReceivesOnItsOwn`, `vdec/main.c:592`).
* The distance of GLOBAL_POSITION_INT may be computed from freed memory
  (`osd/mavlink_parser.c:375`). `DistanceMatchesCoordinates` excepts it (`Garbage`) and
  is about where the two labels come from, not about the number printed.
* After a bad checksum the MAVLink parser looks for a beginning in the last byte
  only, and only for one of version 2; the frame behind a cut one may be lost with
  it, at most `Horizon` bytes of them (`Resynchronises`).
* An empty datagram ends the MAVLink thread of either OSD for good
  (`osd/mavlink_parser.c:168`).
* A report from beyond the one degree line between two readings gives the
  latitude both a "0." and a point, or neither (`LatitudeOfOnePosition`).
* The flight clock of vdec runs ahead by up to a second at each arming, and by one
  whenever a frame is drawn exactly a second after the last (`ClockNotAhead`).
* A frame received between reading and clearing the byte count is in no figure,
  one read back during it is in two (`EachFrameInOneFigure`).

## 9. Not modelled

* **Frame buffer back ends** (`vdec/fbg_fbdev.c`, `vdec/fbgraphics.c`): ioctl, mmap and
  pixel copies by one thread; the only caller switches page flipping off, so the
  flip and its wait are never run.
* **Profiles and option parsing**: constant tables and string comparison.
* **OSD widgets, images, drawing utilities**: generated layout.
* **Vendored code and SDK**: MAVLink message accessors, LVGL, image decoders, sensor
  drivers and headers.
* Within modelled components: the text and colour of labels that only print a
  value, counters that are only printed, log lines, character data of
  STATUSTEXT, `resolution.sh`, `recorder_stop` and `destroy` (they have no
  caller); what the SDK calls of the start-ups configure, the HDMI callbacks, the
  ISP thread; of the MAVLink library packing, channels and conversions, which the
  programs do not use.

## 10. Plan

The modules above were built in this order: the streaming loop, the receiver and
the link between them first, because that is what the programs are for; then the
recorder and the queue, which have the concurrency; then the OSDs, the start-up
and the samples. The theorems were proved in the same order, those of the samples
and of the exit paths last. What is left:

1. Extend where the code grows: page flipping once a caller switches it on, the
   end of a recording once `recorder_stop` has one.
2. Properties for the hazards that have none yet: a NAL longer than a block of the
   recorder, and fragments that accumulate in `nal_buffer` while starts are lost.
   Both need memory that a write may leave, which the models bound by assumption.
