# A TLA+ verification of Xefis

Xefis is a flight-display, flight-computer and radio-link framework in C++: a
program (a *machine*) is a set of *modules* wired together by *sockets* and run
by *processing loops*. This directory holds TLA+ modules that model its
stateful parts, TLC configurations that check them on small instances, and
proofs that TLAPS checks for every value of the constants.

Paths below are relative to the repository; `xefis/` is short for
`src/xefis/` there.

## 1. The system

### 1.1 Components, their state and how they interact

| component | state it keeps | operations | meets |
|---|---|---|---|
| XLE secure channel (`modules/comm/xle_secure_channel`, `support/crypto/xle`) | three sessions of the master, two of the slave, the offered handshake blob, the slave's stored handshake IDs | `process()`, `start_handshake()`, `encrypt_packet()`, `decrypt_packet()`, `disconnect()`, restart | its peer over the link; the link codec calls it to encrypt and decrypt |
| Processing loop, modules and sockets (`core/processing_loop`, `core/module`, `core/sockets`) | cycle number, per-module "already processed" flag, per-socket last fetched cycle, value, serial, nil-by-exception flag, connections | `execute_cycle()`, `fetch_and_process()`, `fetch()`, `connect`/`disconnect`, exception rescue | every other component is a module in a loop |
| Link codec (`modules/comm/link`) | the decoder's byte buffer, link validity, failsafe and reacquire timers; the protocol's fields, last values, send counters; string-transfer state | `LinkDecoder::process()`, `failsafe()`, `reacquire()`; `LinkProtocol::produce/consume/failsafe` | XLE channel below, sockets above, the radio below that |
| XBee modem (`modules/io/xbee`) | device, dialogue step, input and output buffers, failure counters, timers | `open_device`, `configure_modem`, `read`, `process_packet`, `failure`, `restart`, ping and pong, `process()` | link codec |
| CHR-UM6 (`modules/io/chr_um6`, `support/hardware/chr_um6`) | current request, initialization chain, gyro biases, timers | open, initialize, read/write registers, failure, `process()` | sockets |
| GPS (`modules/io/gps`) | power-cycle and connection objects, flags for what is to be replaced, baud rate, attempt counters | power on, connect, serial failure, message received, `process()` | sockets |
| Small controllers (`modules/systems`: remote control management, flaps and trim control, altitude acquired, watchdog) | a few counters and timers each | `process()` | sockets |
| Flight computers and autopilot (`modules/systems`) | filters and integrators over real numbers | `process()` | sockets |
| Other drivers (BMP085, ETS, joystick, UDP, virtual modem) | device handles, timers | read, write, reopen | sockets, link codec |
| Screens, panels, instruments (`core/screen`, `core/panel`, `core/instrument`, `modules/instruments`) | per instrument two images, a dirty flag, a position and the result of a painting task; in the status instrument lists of messages and a cursor | refresh, resize, register, deregister, paint in worker threads; delete, recall and clear messages | sockets |
| Application and machines (`core/xefis`, `core/machine`, `src/machines`) | construction and wiring | start, stop | all |
| Simulation (`support/simulation`) | rigid-body, electrical and atmosphere state over real numbers | integrate | - |
| User interface and utilities | - | - | - |

The unit of concurrency is the processing loop. Inside one loop everything is
sequential: a cycle resets the modules, fetches their inputs and calls each
`process()` once, on demand, in dependency order. What makes the system hard is
between loops and programs: two machines meet only over a radio link that
loses, repeats, delays, reorders and damages bytes; timers (failsafe,
reacquire, standby refresh, modem time-outs) fire between any two cycles; either
machine may be started again at any moment; and devices fail in the middle of a
dialogue. Only screens have threads: instruments are painted by a pool while the
GUI thread goes on.

### 1.2 What is hard, and what correctness means

* **XLE channel.** Rekeying without losing traffic in either direction, with
  two views of "which session is current" that are never synchronized; stale
  handshake blobs that stay in sockets; a slave that restarts with nothing but
  its key store. Correct: both ends hold the same key, the slave moves only
  after the master, packets are delivered once and in order per session, a
  handshake is answered once, and a handshake on offer completes by itself.
* **Processing loop and sockets.** Each module is processed once per cycle,
  whatever the graph; values are those of this cycle except across the one edge
  that closes a feedback loop; an exception makes outputs nil and says so.
* **Link codec.** After corruption the decoder finds the next whole envelope;
  a link that carries nothing valid is declared failed; sockets that do not
  retain are nil while it is; a string sent in blocks is never assembled from
  two strings.
* **Drivers.** Every state of a driver has a timer or an input that leads out
  of it, whatever failed and in whatever order handlers still run after a
  failure; a device that is reported serviceable has been set up; data do not
  outlive the connection they came by; and once a device behaves, the driver
  finds it.
* **Screens.** What is shown is finished, and no thread paints on it; nothing is
  painted on images or instruments that are gone; the last data are shown in
  the end. The status instrument shows what is raised and nothing else.

`PROJECT.json` lists each hazard at its line with the properties that cover it.

## 2. Modules

| module | what it is |
|---|---|
| `PacketDelivery` | abstract specification: what one direction of a secure channel promises: packets made by the other end, at most once, in order per session |
| `XleSecureChannel` | both ends of the channel, one action per handler; it implements `PacketDelivery` in both directions |
| `StringRegister` | abstract specification: what the transfer of a string promises the modules at its ends: a register that the reader reads late |
| `SegmentedString` | a string socket sent block by block over a lossy one-way link; it implements `StringRegister` |
| `LinkProtocol` | envelopes in a stream of bytes: what is sent, how the stream is cut and damaged, what the search of `LinkProtocol::consume()` finds |
| `LinkDecoder` | the decoder's supervision of the link: validity, failsafe and reacquire timers, what the sockets hold |
| `ProcessingLoop` | cycles, on-demand processing by recursion, feedback, exceptions, filters between sockets |
| `XBee`, `Gps`, `ChrUm6` | a driver each, with the device and the line it talks to |
| `Screen` | a screen's GUI thread and its painting threads |
| `Status` | the messages and the cursor of the status instrument |
| `MCXleSecureChannel`, `MCLinkProtocol`, `MCProcessingLoop`, `MCParts` | the instances for TLC, and the fairness. `MCLinkProtocol` checks strings and envelopes in bytes, `MCParts` the link decoder, the drivers, the screen and the status instrument in one run |
| `XleSecureChannelProofs`, `SegmentedStringProofs`, `LinkDecoderProofs`, `ProcessingLoopProofs`, `XBeeProofs`, `GpsProofs`, `ChrUm6Proofs`, `ScreenProofs` | the inductive invariants and the theorems |

How they fit together: the ground station's and the aircraft's modules are run
by a `ProcessingLoop` each; a decoder (`LinkDecoder`) takes what the radio
delivers apart, with the help of the secure channel (`XleSecureChannel`, whose
`ready()` is `LinkDecoder`'s `channelReady`), and feeds sockets, among them
strings (`SegmentedString`). How it finds envelopes in the bytes is
`LinkProtocol`'s subject. The models are composed along those interfaces by
assumption: each is nondeterministic in what its neighbours do, so that what
is shown of one holds in any composition. Inside the channel, the two ends are
composed in one module because their interaction is the subject; so are a
driver and its device, and a screen and its painters. The link decoder, the
drivers and the instruments meet only in sockets that modules of a processing
loop copy, and none of what is modelled of one depends on another's sockets, so
that they are checked side by side and not interleaved.

Operators named `Mut...` in the modules are the defects the properties are
tested with: each stands before the definition it is a defective version of,
and nothing uses them.

### 2.1 XLE secure channel

| variables | code |
|---|---|
| `mNext`, `mActive`, `mPrevious` | `_next_session_candidate`, `_active_session`, `_previous_session` of `MasterSecureChannel`; `Nil` is a null pointer. A session is a record of its handshake ID, mode, creation time, the slave's run that answered it (`run`, 0 while the state is `HandshakeRequested`) and the transport's two sequence numbers |
| `sNext`, `sActive` | the same of `SlaveSecureChannel`, whose sessions have a key from the start; there is no previous session |
| `mRequest`, `sResponse` | the output sockets `handshake_request` and `handshake_response` |
| `mSeen`, `sSeen` | the value of the input socket at the last `process()`, which is what the `SocketValueChanged` observers compare with |
| `sRejected` | `_rejected_handshake_request` |
| `usedIds` | the slave's key store; the only state a restart keeps |
| `requests`, `responses`, `toSlave`, `toMaster` | everything ever put on the link: what a link that delays and repeats may still deliver |
| `sGot`, `mGot`, `activated` | history: packets decrypted, and promises fulfilled, for the properties |

Actions are whole handlers. `MasterProcess(v)` handles a new response and then
refreshes the standby offer if it is old; `MasterStart(v)` is `process()` with
the button pressed; `MasterNullCandidate(v)` is the branch of `process()` that
dereferences a null candidate and ends the program. `MasterEncrypt` and
`MasterDecrypt(p)` try the sessions in the code's order and shift them
(`MasterShift`), which with standby handshakes also offers the next request.
`SlaveProcess(v)` ignores, rejects or answers a request; `SlaveEncrypt` and
`SlaveDecrypt(p)` are the same two functions at the slave. `MasterRestart` and
`SlaveRestart` are the program started again; in the sim-1 machine the master
starts a handshake in its constructor. `Tick` is the common clock.

Abstractions: cryptography is perfect (a blob verifies or is `Garbage`; the key
is the pair of the master's handshake and the slave's run that answered it; a
packet decrypts only with the key it was made with). Both ends read one clock.
A packet's payload is its sequence number. A link that loses packets is one
whose packets are never taken; `LinkFaults` says what else it does to
handshake blobs (`reorder`, `corrupt`, and the decoder's `failsafe`, which makes
the socket nil). Packets are always reordered and repeated at will.

Properties:

* `ActiveSessionsHaveKeys`: no session becomes active or previous without a key.
* `KeysAgree`: every key at the master was derived by the slave from that very
  handshake.
* `SlaveFollowsMaster`: the slave activates only sessions the master activated.
* `SlaveInOrder`: the slave's deliveries are strictly ordered, across sessions.
* `OffersMatchCandidates`: what an end offers belongs to the candidate it holds.
* `OneAnswerPerHandshake`: with a key store a request is answered once, however
  often it is repeated and the slave restarted.
* `NoNullCandidate`: the null pointer in the master's `process()` is not reached
  when standby handshakes are kept ready. (Without them it can be: a late
  response that differs from the last one ends the program; `XleNoStandby.cfg`
  includes that action.)
* `PreviousNoLongerUsed`: when the master drops its previous session, the slave
  has moved past it.
* `DeliversToSlave`, `DeliversToMaster`: the two directions implement
  `PacketDelivery`.
* `HandshakeCompletes`: once restarts are over, a handshake on offer ends in a
  key both ends hold.

### 2.2 Segmented strings

| variables | code (`LinkProtocol::Socket` for strings, `link_protocol.h`) |
|---|---|
| `sValue`, `sSerial`, `sCycle` | the sender's socket, its `serial()`, and `_cycle_number`, which selects the next block |
| `wire` | the envelopes the link may still deliver. The link is one-way; without `Reorder` the sender cannot notice a delay, so only the envelope made last is kept: it arrives any number of times, or never |
| `rSerial`, `rSize`, `rBlocks`, `rText` | `_current_serial`, the size of `_recovered_string`, the marked `_received_blocks`, the characters received |
| `rRecovered`, `rValue`, `rOut` | `_recovered`, `_value`, and the receiver's socket |
| `history`, `rFrom`, `restarts` | history, for the properties |

`Send` is `serialize_append()`; `Receive(m)` is `LinkProtocol::consume()` for one
envelope: `unserialize()` (`ConsumeNil`, `ConsumeEmpty` or `ConsumeBlock`) and
then `apply()`. `Failsafe` is the call the decoder makes, `SenderRestart` and
`ReceiverRestart` the programs started again. Damaged envelopes do not get
here, their signature stops them. Serial numbers wrap after `SerialModulus`
changes; the properties are about fewer (assumption `SerialsDoNotWrap`), with
the real modulus 65535 between two restarts.

* `RecoversWhatWasSent`: until the sender is restarted, what the receiver has
  recovered is the very value that had the serial number it came with.
* `ImplementsRegister`: the transfer implements `StringRegister`. Until the sender
  is restarted, each value that the receiver's socket gets is one the sender's
  socket had, the same as before or a later one unless the link reorders, nil
  only when that was nil (and not retained) or the link has failed; what a
  failsafe or a restart took away only a later read brings back.
* `StringArrives`: once the sender's value stays, the receiver shows it in the
  end, whatever state losses, restarts of either end and failsafes left behind.

### 2.3 Envelopes in bytes, and the link decoder

In `LinkProtocol` a byte is a cell: what it looks like, which is all that the
search goes by, and which byte of which envelope it is, which is what signatures
and the cipher can tell. `SendEnvelope` is `Envelope::produce_append()`, `Damage`
the way between encoder and decoder, and `ProcessBytes(n)` is
`LinkDecoder::process()` with the next `n` bytes: `ConsumeAt` is one turn of the
loop in `LinkProtocol::consume()`, `Accepts` and `Verified` are
`Envelope::consume()`. Content may look like the prefix of a signed envelope; the
model leaves out that ciphertext looks like the prefix of an encrypted one, which
the code leaves to chance. When envelopes are due is left open (`send_every`,
`send_offset`, `send_predicate`). Input that equals the last input is not looked
at, since it does not change the socket's serial: that is part of `Damage`, as is
input that is replaced before the decoder sees it.

* `DamageIsLocal`: however the stream is cut, damage costs the envelopes that it
  hits and those that begin within the size of an encrypted envelope behind it,
  which the search may skip for a false prefix. All others are found, once.

`LinkDecoder` begins where envelopes have been found:


| variables | code |
|---|---|
| `linkValid` | the output socket `link_valid`, nil at first |
| `failsafeTimer`, `reacquireTimer` | ticks until the two `QTimer`s fire, `Nil` when inactive |
| `channelReady` | `SecureChannel::ready()` |
| `held`, `out` | a packet's last value and the sockets fed from it |
| `last`, `silence`, `clean` | history: what was found last, the ticks since a valid envelope and since a byte in error |

`Process(o, given, error)` is `LinkDecoder::process()` with new input, in which
each envelope is absent, good, rejected by the channel, or ignored because the
channel is not ready, and perhaps some bytes belong to none. `Failsafe` and
`Reacquire` are the timers' handlers. Both timers live in the event loop that
runs `process()`, so they fire between its calls; `Tick` does not let one be
overdue, and two that are due together fire in any order. A bitfield's value
is never nil, and a retained socket keeps its value in `Cleared` and `Applied`,
as in `failsafe()` and `apply()`.

* `SilenceIsNoticed`: a link that is marked valid has had a valid envelope
  within `failsafe_after`. This needs `reacquire_after < failsafe_after`: `failsafe()`
  does not stop the reacquire timer, and a longer one would mark a silent link
  valid with no timer left to notice. It is a hypothesis (`ReacquireSooner`) that
  no code enforces; sim-1 passes empty parameters, with which neither timer runs.
* `FailedMeansCleared`: while a link is failed and nothing valid has arrived
  since, sockets that do not retain their value are nil.
* `TrustedOnlyWhenStable`: a failed link is marked valid again only after
  `reacquire_after` without a byte in error.
* `LinkComesBack`: with valid envelopes in time and no more errors, it is
  marked valid in the end and stays so.

### 2.4 Processing loop

| variables | code |
|---|---|
| `phase`, `position` | where `execute_cycle()` is: its three loops over `_modules` |
| `stack` | the calls of `fetch_and_process()` that have not returned, with the input each fetches next and whether it has asked the input's source |
| `cycle`, `paused` | the cycle number and `_paused` |
| `cached`, `fetched` | `Module::_cached`, and `_fetched_cycle_number` of a module's output |
| `source`, `filtered` | what an input is connected to, and the value of the filter socket between the two, if it has one |
| `in`, `out`, `failed` | the sockets' values and `nil_by_fetch_exception()` |
| `threw`, `runs` | history: the transform threw; how often a module was processed |

The recursion is taken apart into steps, so that the order of its side effects
is the code's: `BeginCycle` (with `reset_cache()`), `Communicate` for each
module, then for each module `NextModule`, which calls it unless it is cached;
the call in progress fetches each input (`FetchNothing` or `Ask` and `Take`)
and then does `Process`. `Ask` marks the source's output as fetched and calls its
module; in a feedback loop that module is cached and the call returns at once.
`SetPaused` and `Connect` happen between cycles; a connection makes a new
filter.

Abstractions: a module has one output; `rescue()` does not throw and
`set_nil_on_exception` stays on (nothing in the repository turns either
around); a value stands for the cycle in which `process()` made it, so a
transform's result is as new as its argument. An input is connected to an
output, not to another input.

* `NoReentry`: however modules are wired, no module is entered again while it
  fetches its inputs, so the recursion is no deeper than there are modules.
* `OncePerCycle`: each module is processed exactly once in each cycle, whoever
  needs it and whatever throws.
* `InputsAreCurrent`: `process()` sees what its sources computed in this cycle,
  nil if they threw; only from a source that itself waits for this module, the
  value of the cycle before.
* `OrderDoesNotMatter`: without feedback, at the end of the cycle all inputs
  agree with their sources and nothing is left of the cycle before, in
  whatever order the modules were registered.
* `CycleAdvances`: each step within a cycle takes something off what remains of it
  (`Remaining`: turns of the loop, inputs to ask for and to take, calls of
  `process()`) and puts nothing back, also when a module calls another one. So
  the recursion ends in every wiring, within as many steps as there are.
* `CycleEnds`: every cycle ends.

### 2.5 XBee modem

| variables | code |
|---|---|
| `xb` | the driver: `open` is `_notifier` and `_device`, `step` is `_configuration_step`, `restart`, `pong`, `afterReset` and `pinging` whether those timers run, `alive` the periodic pong timer, the two failure counters; `inbox`, `cut` and `swallow` what `_input_buffer` still holds, `sending` the packets that a `process()` has left |
| `queue`, `port` | frames under way to the modem, packets under way from it |
| `modem` | the modem: is it up, in a reset, and which settings it has (external) |
| `lossy`, `calm` | history and environment: has a packet been damaged; from now on nothing goes wrong outside the driver |

The steps of the dialogue are numbered as in the code, where the ID of a frame
is the step that its answer leads to; 17 settings are `Settings`. Functions of
the driver are operators on its state (`Reset`, `Failure`, `Retry`,
`Configure`, `PeriodicPing`), so that a handler that goes on after a failure, as
several do, does so in the model: `process()` sends its other packets
(`SendPacket`), `periodic_ping()` has started its timers, `read()` takes the
next packet from its buffer. A write succeeds, is to be retried or fails.
`periodic_ping()` starts the ping timer before the pong timer with the same
interval: `alive` says which of the two fires first.

Abstractions: a frame is written whole or not at all, since `_output_buffer` is
empty whenever a frame is written; a packet is whole, cut or damaged, and a
damaged length takes in packets that follow. Left out: the RSSI and its timer,
addresses, the counter of clear channel checks, and the payload.

* `OpenOrRestarting`: the port is open exactly if the restart timer does not
  run, and with a closed port nothing else is pending.
* `AlwaysWatched`: with an open port there is a timer due in each step of the
  dialogue, and a configured modem is pinged. (That it is pinged does not mean
  that its silence is noticed: see `xbee_silence` in section 6.)
* `ServiceableModemIsConfigured`: a modem that is reported serviceable has all
  its settings, or its message that it has lost them is still to be read.
* `LinkComesUp`: once modem, line and port behave, the link comes up for good.
* `SilenceIsFailure` is violated (section 6).

### 2.6 GPS

| variables | code |
|---|---|
| `gps` | `powerCycle` and `connection` whether those objects exist, the flags with which they ask to be replaced (`cycleRequested`, `restart`), the counters `powerAttempts` and `attempts`, the timers, `firstMessage`, and of the sockets whether they hold values; `reliable` is GPS's `_reliable_fix_quality` |
| `receiver` | the receiver's baud rate, whether it sends, whether it obeys a change of rate, and whether all works from now on (external) |

`PowerOn` is the timer's handler, `PowerOff` and `CreateConnection` are what
`process()` does with the flags; `AliveCheckFailed`, `SerialFailure` and
`ReceiveMessage` set them. A message is received if both ends have the same
rate. Left out: the contents of NMEA sentences, but that a GGA sentence sets
the reliability of the fix and an RMC sentence may set the clock; and the
initialization commands other than the change of rate.

* `GpsKeepsTrying`: without a power cycle the power timer runs, and only then; a
  connection is watched or about to be replaced.
* `GpsDataIsFresh`: no data and no serviceability without a connection that has
  received something.
* `GpsComesUp`: a receiver that works in the end is found, at whatever rate.

### 2.7 CHR-UM6

| variables | code |
|---|---|
| `um6` | the module's four timers, `serviceable` and the self test, whether the orientation sockets and the gyro biases hold values; of the request interface the current request and whether it is finished |
| `frames`, `packets` | under way to and from the sensor |
| `sensorCalm` | from now on sensor and line work, and status checks and accelerations are not sent while the chain is under way |

`Um6Receive` is `process_packet()` with the callback of the current request,
which continues the initialization chain (`NextInChain`) and so may send. A
request takes the place of an unfinished one, as in `process_queue()`.

* `Um6IsWatched`: a sensor that is not serviceable is about to be opened again,
  or has the initialization timer behind it, or failed its self test.
* `Um6ComesUp`: a sensor that works gets through the chain.

### 2.8 Screen

| variables | code |
|---|---|
| `details` | `InstrumentDetails`: `position` is `computed_position` reduced to its size, `result` the `std::future` of the task (none, pending or ready), `canvas` which of the two images is `canvas`; and the instrument's dirty flag |
| `images` | the two images, with the size they were allocated for and the version of the data that is painted on them, `None` until a painter is done |
| `version`, `canvas` | the data of each instrument; the screen's size |
| `jobs`, `painting` | tasks in the queue of the work performer, and in its threads |
| `gui` | `free`, waiting to deregister an instrument, `closing` or `closed` |

`Refresh` is `refresh()` as a whole: positions, swap of the images of finished
tasks, new tasks for dirty instruments that have none. `StartPainting` and
`FinishPainting` are the threads. `Deregister` and `Erase` are
`deregister_instrument()`, which blocks; `CloseScreen`, `DropJobs` and
`DestroyScreen` are the destructors in their order.

* `OnlyFinishedIsShown`: the image that is composed is complete, and no task,
  queued or running, paints on it.
* `TasksAreRegistered`: no task is of an instrument that is gone.
* `NeverShowsOlder`: once something of an instrument is shown, only images of data
  that are no older follow it, whatever threads, refreshes and resizes overtake.
* `ScreenIsCurrent`: once data and size stay, the screen shows them in the end.

### 2.9 Status instrument

| variables | code |
|---|---|
| `status` | `_visible_messages`, `_hidden_messages`, `_deleted` and `_should_be_shown` of the messages, the cursor and whether it is visible |
| `resized` | the length of the list that a painting task was given |

`ProcessStatus` is `process()`: the cursor inputs, the messages' conditions, the
buttons, and then the moves between the lists with `std::remove_if()` as it is
used there: what is kept is at the front, and behind it the old values stay
(`Behind`). `AsyncPaint` puts the cursor into the list as the painter knows it.

The cursor may point past the list when `cursor_del()` runs. What it then reads
and erases is undefined in C++; `CursorDel` takes one outcome that can happen, in
which a message of before is read and the last one erased. No property depends on
it, and the others are not modelled.

* `OnlyRaisedAreShown`: what is visible after `process()` is raised, whatever
  deleting, recalling and clearing did before.
* `RaisedMessagesAreShown` is violated (section 6).

## 3. Runs

| run | what it shows |
|---|---|
| `xle_safety` | the safety properties, with every link fault, the clock, standby handshakes, the key store and one restart or disconnect |
| `xle_no_standby` | the channel without a key store, as in sim-1, and without standby handshakes, which sim-1 leaves on and tests switch off (`set_keep_next_handshake_ready (false)`); two packets per session, so that reordering inside a session happens. `PreviousNoLongerUsed`, `SlaveInOrder` and `DeliversToMaster` are checked here |
| `xle_recovery` | `HandshakeCompletes` with two restarts, while standby offers do not grow old |
| `xle_standby_race` | a violation of `HandshakeCompletes` once they do (section 6) |
| `link_protocol` | the string properties and the refinement of `StringRegister`, with loss, repetition, two changes of the value, a sender restart, and a failsafe or receiver restart; and `DamageIsLocal`: each behaviour is about one of the two |
| `string_mixture` | a violation of "only the sender's values" after a sender restart (section 6) |
| `link_corruption` | a violation of the comment on `retained` (section 6) |
| `processing_loop` | the loop's properties for three modules in each of 256 wirings, that a cycle only moves forward and ends, with a throwing filter, throwing modules and reconnection |
| `processing_stale` | a violation of what a test says of `nil_by_fetch_exception()` (section 6) |
| `parts` | the properties of sections 2.3 and 2.5 to 2.9: each behaviour is one of a single part and its environment, chosen at the start, while the others rest |
| `xbee_silence` | a violation of the comment on ping and alive check (section 6) |
| `status_lost` | a violation of the comment on moving messages (section 6) |

**Bounds.**

* Channel: `MaxHandshakes` and `MaxRuns` of 3 let a previous, an active and a
  candidate session exist at once with a late response of each; one restart
  with three handshakes reaches every combination of fresh and stale ends. One
  packet per session suffices for everything about sessions, since each packet
  decides at most one shift; two are checked in `xle_no_standby` for order.
  `MaxNow = 2` with `MaxTimeDifference = 1` lets a standby offer be due for
  refresh (half of the difference, rounded up, is one tick), be recent and be
  too old.
* Strings: blocks of two characters and strings of zero to four: no block, a
  short last block, whole blocks; two strings of equal size differ in every
  block, the hardest case for telling them apart. Two changes and one restart
  bring an equal serial number twice.
* Bytes: a signed and an encrypted envelope, each of a prefix and two more cells,
  so that a prefix, one cell or two can arrive alone; three envelopes and one
  damage: one that is hit, one that begins too close behind it and one that does
  not. Two envelopes are under way together. (With two damages the properties
  hold as well, in 6 million states.)
* Decoder: one envelope of each kind and delays of 3 and 2 ticks, so that the
  timers overlap and can be due together. Silence is counted up to one more
  than both delays, beyond which nothing depends on it.
* Loop: one module has two inputs, so that chains, a diamond, a module wired to
  itself and loops of two and three all occur; three cycles distinguish this
  cycle's values from the last one's and from older ones.

* XBee: two settings (one of them the power level, which may be left out) for
  17, since all are alike; one retry and no read without data for the limits of
  the code, so that both the counting and the limit are reached; two frames or
  packets under way, so that a late answer can meet a new request; one packet is
  damaged, and takes in at most one other. (With three under way the safety
  properties hold as well, in 2.4 million states.)
* GPS: four attempts per power cycle, both rates twice, and one power cycle
  more than `MaxRestartAttempts = 2`, after which more change nothing.
* CHR-UM6: one frame and one packet under way; more requests than that overtake
  each other only in the driver, which keeps one anyway.
* Screen: two instruments for one thread, so that tasks wait; two changes, of
  data, position or size, so that a change can meet the painting of another.
* Status: two messages; with one there is nothing to lose, and three add only
  longer lists.

`CHECK_DEADLOCK` is off for the processing loop, where the bound on cycles
stops it, for the envelopes in bytes, of which all may have been sent, and for
the parts: a screen may be closed for good.

**Fairness.**

* Channel: Both processing loops run for ever, and the encoder
  envelopes of the handshake blobs are sent in every period while the blob is
  valid (`send_predicate` in `src/machines/sim-1/common/link`), so weak fairness
  of the slave hearing the request on offer, of the master hearing the response,
  of the master encrypting and of the slave receiving a packet. Nothing is assumed
  of restarts, of the operator, of time, or of the other link faults.
* Strings: the encoder sends in every period. The link may lose any envelope,
  but not all with the same block number: strong fairness of receiving one, per
  block number. Weak fairness would ask for nothing, since each envelope is
  replaced by the next. This is the weakest assumption under which a block
  transfer without acknowledgement can succeed.
* Decoder: the event loop runs, so time passes and timers that are due fire;
  nothing about what arrives.
* Loop: `execute_cycle()` runs on once it has begun. Weak fairness of one of its
  steps; nothing about which, and none about what begins a cycle.
* Drivers: the event loop calls `read()` while there is input, and fires timers.
  A timer waits while `read()` or `process()` is in its loop, hence the strong
  fairness of the XBee's timers; the others are weakly fair. A sensor answers
  even if it broadcasts without end (strong fairness of `SensorAnswers`).
  Nothing is assumed of a device before it is `calm` or `good`, and that it ever
  is, is the premise of the properties, not of the specification.
* Screen: the refresh timer fires for ever, and the threads work: strong
  fairness of `Refresh`, which the GUI thread's waiting interrupts, weak fairness
  of the tasks.

Each property of each passing run has a mutant in `PROJECT.json`: a plausible
defect of a mapped definition under which TLC finds the property violated.

## 4. Proofs

The theorems hold for every value of the constants that meets the constants'
assumptions. Some have a further hypothesis: those of `SegmentedStringProofs`
that serial numbers do not wrap, `StandbyAvoidsNullCandidate` that standby
handshakes are kept ready. In each proof module `Inv` joins the
properties with what they rest on; one lemma per action shows that the action
preserves `Inv`, and the theorems are its consequences. The parts of an `Inv`
were checked by TLC before they were proved. Every invariant and every action
property of the runs that pass, and every refinement, is stated by a theorem.
Type correctness, which all of them rest on, is proved of every module but the
abstract ones, and so most runs do not check it again.

* `XleSecureChannelProofs`: all safety properties of section 2.1, and both
  refinements of `PacketDelivery`. `NoNullCandidate` has the hypothesis that
  standby handshakes are kept ready: whatever takes the master's candidate away
  then starts a handshake in the same call (`AlwaysACandidate`). The other properties
  are not inductive: blobs seen in sockets must be ones that were offered or
  garbage (`BlobsAreGenuine`); handshake IDs and answers grow, and one run
  answers one handshake (`HandshakesInOrder`, `AnswersInOrder`); the slave's
  candidate is newer than its active session and both are newer than what was
  delivered of other runs (`SlaveRunsInOrder`); the sequence numbers of a session
  bound what was made and delivered with its key (`SlaveReceived`, `MasterSent`,
  `MasterReceived`, `SlaveSent`); with a key store an answered ID is stored
  (`AnsweredIdsStored`). The refinements follow: a packet that is made is newer
  than all of its session, one that is delivered newer than all delivered of it.
* `SegmentedStringProofs`: `RecoversWhatWasSent`, for links that also reorder.
  Every envelope is part of the value that had its serial number
  (`WireFollowsHistory`), the blocks the receiver holds are of one value
  (`TextFollowsHistory`), and with no block missing the parts are the whole.

  `TransferIsRegister`: every step is one of `StringRegister` or leaves its
  variables alone (`RegisterStep`). A link that keeps the order holds one envelope,
  which is of no older value than the one that the recovery is about
  (`WireInOrder`), and only its serial number can become that of the recovery
  (`ConsumePlace`); so an envelope that is applied is a read at the place of the
  last one or a later one (`ReceiveReads`).
* `LinkDecoderProofs`: type correctness, `SilenceIsNoticed`, `FailedMeansCleared`,
  `TrustedOnlyWhenStable`. A running failsafe timer and the silence add up to
  `failsafe_after`; a running reacquire timer was started no earlier than the
  last error, by a valid envelope, so that it is ahead of the failsafe timer.

  Of `LinkProtocol`, in the same module: type correctness, `DamageIsLocal`, and
  `CutsDoNotMatter`, for all envelopes and sizes, all damage and every way in
  which the stream is cut. What arrives is in the order in which it was sent,
  but for noise (`StreamInOrder`); what the decoder holds is the rest of it
  (`BlobIsRest`), at the beginning of which too little follows what looks like
  a prefix (`Waits`); of what lies before the rest, every envelope that `DamageIsLocal` is about
  has been found, what has been found is there, and none is there twice (`Taken`).
  That one turn of the search keeps `Taken` is `ConsumeAtTakes`; that the whole
  of it does, is by induction from the end of the bytes (`ConsumeTakes`).
  `CutsDoNotMatter` says that the decoder, given the stream in pieces, has found
  what `Consume` finds in all of it at once, and holds what that leaves: the
  search on a longer input first does what it does on the shorter one
  (`ConsumeGoesOn`), and then what it does on the rest alone (`ConsumeOfRest`).
* `ProcessingLoopProofs`: every invariant of section 2.4, and that
  `nil_by_fetch_exception()` is true only of a nil input after an exception, for any number of
  modules and inputs in any order and wiring. A cached module is on the stack
  or has been processed in this cycle, and its count and output tell which
  (`Stamped`). What a call has fetched stays true while it waits (`TakenOK`):
  its sources have been processed, or wait further down. `PhaseOK` carries that
  the modules passed over are cached, so that all are processed when the cycle
  is over. Without feedback modules have ranks that fall along the stack
  (`RanksFall`), so no source waits further down, and what is processed stays in
  agreement with its sources (`SettledOK`).

  `CycleTerminates` is the part of `CycleEnds` that needs no fairness: the steps a
  cycle can consist of are finitely many (`StepsAreFinite`), and each step takes
  some off what remains and puts none back (`CycleAdvances`). A module is called
  only if it is not cached, when all its steps remain (`CallAddsNothing`);
  since it is on the stack only once (`NoReentry`), what the call on top has
  done is left to nobody (`TopAdvances`, `AskAdvances`).

* `XBeeProofs`: type correctness, with which no failure counter passes its
  limit, `OpenOrRestarting`, `AlwaysWatched` and
  `ServiceableModemIsConfigured`, for any number of settings, any
  limits and any line. The invariant adds that the timer after a reset runs only
  in the step it is for (`GraceStep`). The functions of the driver preserve it,
  each by a lemma, so that a handler that goes on after a failure does too. For
  `ServiceableModemIsConfigured` it adds `DialogueInv`: as long as no packet has
  been damaged, a positive answer that is still to be read, and every step the
  dialogue has behind it, tell of a setting that the modem has, unless a report
  of a reset is under way behind it.
* `GpsProofs`: type correctness, `GpsKeepsTrying` and `GpsDataIsFresh`, for any
  even number of attempts per power cycle. A connection has the rate of its
  attempt (`Attempts`), and one is to be replaced only while an attempt is left
  (`AttemptsLeft`): the number is even, the attempts at the default rate are
  odd, so that a change of rate always leaves one more.
* `ChrUm6Proofs`: type correctness and `Um6IsWatched`.
* `ScreenProofs`: type correctness, `OnlyFinishedIsShown`,
  `TasksAreRegistered` and `NeverShowsOlder`, for any number of instruments, sizes and threads. An
  instrument has one task at most (`OneTask`), its result is pending and it
  paints on the image that is not composed (`TasksOK`); an image that is not
  complete is that one (`ImagesOK`). The refresh starts tasks only of
  instruments without a result, which therefore have none. For
  `NeverShowsOlder` the versions are in order along the way of an image
  (`PaintsInOrder`): what is shown is no newer than what a task paints or has
  painted, and that no newer than the data; so that the swap only goes forward,
  and the refresh, which swaps and starts anew, keeps that order (`RefreshDoes`).

  Of `Status`, in the same module: type correctness and `OnlyRaisedAreShown`, for
  any number of messages. `std::remove_if()` keeps, in their order, the elements
  that it is not to remove (`Kept`, a recursive function over the list's
  prefixes), so that the two lists, whatever old values stand behind what was
  kept, have as many elements as there are messages (`Complete`).

The library's induction theorems take an operator as a parameter, which the
provers do not instantiate. Where a proof needs induction, over the length of a
list or from the end of the bytes, it is stated for a set instead
(`NaturalsByInduction`, `FromTheEnd`) and derived from the least element of the
set's complement (`WFMin`). The search is a recursive function, and the proofs
first show that there is one (`ConsumeIs`).

Only model-checked: liveness (`HandshakeCompletes`, `StringArrives`,
`LinkComesBack`, `CycleEnds`, `LinkComesUp`, `GpsComesUp`, `Um6ComesUp`,
`ScreenIsCurrent`), which is outside what the prover handles: weak and strong
fairness are defined with `ENABLED`. Of `CycleEnds`, `CycleTerminates` proves what
is left when fairness is granted, that no cycle goes on for ever.

## 5. Not modelled, and the plan

Not modelled: control laws, simulation and painting (real numbers and pixels),
the user interface, and pure device input; the reasons are in `PROJECT.json`.
Of the link codec, the encoder's schedule and the packets' formats other than
strings; of the processing loop, time, registration and initialization, several outputs
per module, fallback values and serial numbers; of the drivers and instruments,
what section 2 says is left out, besides a painter that throws (its image
counts as painted) and measurements other than the sensor's orientation and
biases. In `gps.cc` a flag of `Connection` shadows the one of `GPS` with the same
name; the model has the one that is read.

Planned, in this order:

1. Time in `ProcessingLoop` (`advance()`, pausing), registration while it runs,
   and chains of sockets with fallback values.
2. The small controllers: remote control management, flaps and trim control,
   altitude acquired, the watchdog.

## 6. Findings

* `xle_standby_race`: a restarted slave answers a standby offer; before the
  master reads the answer it replaces the offer because half its lifetime has
  passed. The answer no longer matches, and the slave, which now has a
  candidate, ignores every later standby offer. Recovery needs the operator.
* `string_mixture`: serial numbers start again with the sender's program, so a
  new value with the serial number and size of one that is half transferred
  continues it: the receiver shows a string that never existed, until a repeated
  block shows the difference.
* `link_corruption`: an envelope that cannot be decrypted clears its sockets and
  is then applied all the same, with the value that the packet's fields hold (the
  last good one or, as in the run's trace, a bitfield's initial zero when none
  has come yet), and counts as a sign of life.
* `processing_stale`: a transform function that throws after it has once
  succeeded leaves its filter with the old value; the input takes that for a new
  one, and its `nil_by_fetch_exception()` is false.
* `xbee_silence`: each ping restarts the timer that waits for the answer, and the
  next ping comes first: a configured modem that falls silent is never noticed
  while the port takes what is written.
* `status_lost`: `process()` takes for the removed messages what
  `std::remove_if()` leaves behind those it keeps, which are old values. Of two
  hidden messages of which the first gets raised, nothing becomes visible, the
  other one is listed twice among the hidden ones, and the raised one is in
  neither list any more.
