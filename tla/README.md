# A TLA+ model of sysdvr-webos

sysdvr-webos is a client for LG webOS televisions. It finds Nintendo Switch
consoles on the local network, shows them in a list, and plays the picture and
sound of the one the user selects. Two servers can run on a console: **SysDVR**
(two TCP connections, one for video and one for audio, one thread each) and
**Switch Frame Tap** (one TCP connection, one thread). When a console goes to
sleep or its server restarts, the client waits for it and reconnects.

This directory models the client's control: its UI thread, the stream threads,
the registry of consoles, and what the consoles, the network and the user can
do to them. TLC checks the models on small instances; TLAPS proves the most
important safety properties for all values of the constants.

    tlc -config SysdvrSession.cfg SysdvrSession     # any run of the table below
    tlapm SysdvrSession_proofs.tla                  # any *_proofs module

Paths below are relative to the repository (`src/webos_main.c` is the file
`webos_main.c` of its directory `src`).

## The system

| Component | State | Operations | Talks to |
| --- | --- | --- | --- |
| SysDVR session (`src/webos_main.c`, `run_stream_session`, `stream_thread`) | the player, two sockets, `running`, one `stream_worker` for each stream | connect, handshake, prime, start threads, poll keys, stop, join, report a result | NDL, two TCP connections, the selector |
| NDL wrapper (`src/ndl_media.c`) | created / loaded / destroyed, `feed_lock` | create, open, feed, destroy | the vendor's library |
| SysDVR protocol (`src/protocol.c`) | none | handshake, read a packet | sockets |
| TCP sockets (`src/net.c`) | receive timeout, buffers | connect with a deadline, read exactly, write all | the kernel |
| Frame Tap session (`src/frametap_backend.c`) | the socket, five atomic flags, the status text and its mutex | connect, start the thread, poll, stop, join, report | one TCP connection, the selector |
| Frame Tap video gate (same file, video branch) | last sequence number, decoder size, `waiting_key`, time of the last request | skip, ask for a key frame, open a player, submit | the session, NDL, the console |
| Frame Tap protocol (`src/sft_protocol.c`) | none | validate, read while `running`, `SFTK` | sockets |
| Frame Tap audio (`src/sft_audio.c`) | SDL's queue, counters | open, offer, close | SDL's audio thread, the Frame Tap thread |
| Registry (`src/session_manager.c`) | up to 8 devices, the selection, the preferred console | seen, add manual, prune, move, remember, match | the selector |
| Selector (`src/webos_main.c`, `main`, `browse_for_device`, `wait_for_preferred_console`, `show_error_briefly`) | `g_signal_stop`, the target, which loop it is in | drain announcements, prune, keys, start a session, wait and reconnect | registry, discovery, sessions |
| Discovery (`src/discovery.c`, `src/sft_discovery.c`) | two UDP sockets | open, poll, parse | the network |
| Log (`src/log.c`) | start time, limits, stopped | print, disable | every thread |
| Screens, SDL shell (`src/ui.c`, `src/sdl_shell.c`) | window, renderer, pending events | render, poll one key | SDL |
| Tools, scripts, packaging | none at run time | | |

Everything the user sees happens on one UI thread. During a session that thread
polls keys every 10 ms while the stream threads block in reads and feed the
player; they share atomic flags, one mutex inside the player (SysDVR) or one
around the status text (Frame Tap), and objects that live on the UI thread's
stack or are destroyed by it. The hard behaviour is there: teardown against
blocked threads, results computed from flags that several threads set, streams
that end, break, fall silent or stall; and, in the selector, a registry that
changes under the selection while consoles come, go and change addresses.
`PROJECT.json` lists each hazard at its line with the properties aimed at it.

## The modules

| Module | Models | Kind |
| --- | --- | --- |
| `SysdvrSession` | one SysDVR session, all three threads | specification |
| `SysdvrSession_proofs` | theorems about it | proofs |
| `FrametapSession` | one Frame Tap session, both threads, `SIGPIPE` | specification |
| `FrametapSession_proofs` | theorems about it | proofs |
| `FrametapVideo` | the decisions of the Frame Tap thread on video frames | specification |
| `FrametapVideo_proofs` | theorems about it | proofs |
| `StreamSession` | what `main` relies on in a session of either backend | abstract specification |
| `StreamSession_proofs` | theorems about it, which both sessions inherit | proofs |
| `PacketRead` | both packet readers, one `recv` at a time, and their connection | specification |
| `MCPacketRead` | the patience and the headers of its run | instance |
| `PacketRead_proofs` | theorems about it | proofs |
| `PacketStream` | what the sessions rely on in a packet reader | abstract specification |
| `SftAudio` | the sound of a Frame Tap session and SDL's audio thread | specification |
| `SftAudio_proofs` | theorems about it | proofs |
| `LogCapture` | the log under several threads | specification |
| `LogCapture_proofs` | theorems about it | proofs |
| `SessionRegistry` | `session_manager` as operators from registry to registry | operators |
| `Selector` | the UI thread's loops on the registry and the discovery sockets | specification, extends `SessionRegistry` |
| `MCSelector` | the consoles of the selector's runs | instance |
| `Selector_proofs` | theorems about the registry and the selector | proofs |

### SysdvrSession

`mpc` is where `run_stream_session` is; `pc[s]` where the thread of stream `s`
is. `CreatePlayer` ... `PrimePacket` are the start on the UI thread, any failure
of which is `GiveUp`: one action with everything the code releases there.
`SpawnVideo` and `SpawnAudio` are the two `pthread_create` calls, of which the
second is skipped when `running` is already cleared. `PollBack`, `PollQuit` and
`PollEnd` are the three ways out of the 10 ms loop; `StopWorkers`, `Shutdown`,
`Join` and `Release` the teardown in its order.

A thread holds at most one packet. `Begin` processes the primed one; `Submit`
is the test of `running` before each attempt; `Lock` and `PlayOk` / `PlayRetry`
/ `PlayReject` are `feed_locked` around the NDL call; `Loop`, `ReadPacket`,
`ReadEnd`, `ReadFailure` and `ReadSilence` are the reads. NDL's two answers are
free choices. The wrapper's third answer, ERROR, needs a player that is not
loaded, which `WorkersHaveResources` excludes, so it is left out.

A packet is its kind and its number. The console may send any kind, close, or
reset at any time after the handshake, but a socket that was shut down takes no
more data. Each stream carries at most `MaxPackets` packets of its own kind; packets
of another kind, which the reader skips, have no such limit, but one of
them is sent only when nothing else is waiting to be read. The stop signal may come at any moment, also after the
session has returned. A read of several `recv` calls is one
step: the bytes are the reader's alone, and an end in the middle of a packet is
the failure branch of `AtFailure`. The history variables `received`, `fed`,
`rejected` and `lost` exist for the properties only.

### FrametapSession and FrametapVideo

The thread's loop is split by what interacts. `FrametapSession` has the flags,
the socket, the mutex, the reads and the end of the session; there the video
branch may ask for a key frame, skip the frame, open a player or fail to, and
submit. `FrametapVideo` has the data of the video branch: each frame is one
action of its four outcomes (`Skip`, `Show`, `OpenFails`, `SubmitFails`), built
from the decisions of the code in their order (`AskForGap`, `AskForSize`,
`AskAgain`, each with the age of the last request after it). Time is the age of
the last request in units of 250 ms, saturated at the larger of the two limits
it is compared with; sequence numbers are taken modulo `SeqMod` (2^32 in the
code).

In `FrametapSession` the item `part` on the wire is the beginning of a packet
that never arrives in full: the read waits in `middle` until it is stopped, the
connection ends, or 3 s pass. `sft_read_packet` returns -1, not the 0 that
`include/sft/protocol.h:63` names for "stopped", when it is stopped inside a
payload; the caller's test of `running` makes the two the same, and the model
follows the code (`ReadStopped`).

The location `killed` of both threads is the end of the process by `SIGPIPE`:
`send` has no `MSG_NOSIGNAL` and the program handles SIGINT and SIGTERM only.

### StreamSession

`run_stream_session` and `frametap_run_stream_session` have nothing in common
but their result type, yet `main` treats them alike. `StreamSession` states what
it may rely on: a session takes hold of a socket or a player, starts workers,
streams until the user goes back, a stop is requested or a worker is missing,
and returns when no worker is left and nothing is held, with `USER_BACK`
exactly if the user went back. `SysdvrSession` (two workers) and
`FrametapSession` (one, which writes to its socket and may therefore be the
end of the process) each state `ImplementsStreamSession` with a mapping:
`SessionPhase` from where the UI thread is, `WorkerState` from where the
threads are, `Holding` from the sockets and the player. The selector's session,
one step with any result, is the view from the other side.

### PacketRead and PacketStream

The session modules read a packet in one step. `PacketRead` justifies that. It
has both readers, told apart by `backend`, at the level of single `recv` calls:
`sysdvr_read_packet` on `sysdvr_read_exact`, whose patience is the socket's
`SO_RCVTIMEO` and starts anew in every `recv`; and `sft_read_packet` on
`read_exact_interruptible`, whose loop reads `running` (`Test`), sets or tests
its own deadline of progress (`Due`), selects for 200 ms (`Turn`), receives
(`Recv`) and extends the deadline (`Extended`). `EINTR` may come at any wait.
A SysDVR server may send an empty payload; a Frame Tap header is refused when
its flags contradict each other (`ValidFlags`, with `INPUT` taken away first).

The stream is a row of packets, of which some bytes are sent (`out`) and some
received (`at`); a reader knows only how much it has read. The server sends any
number of bytes at a time, closes or resets, and the session may stop, between
any two of these steps.

`PacketStream` is the promise: packets sent whole are given in order, and an
end is reported only if a stop was asked for or the stream is over and nothing
of it is left or cut. `ImplementsPacketStream` maps the bytes to it.

### SftAudio

`pc` is where the stream thread is in `sft_audio_offer`, whose calls into SDL
are steps of their own: how much is queued (`AskStall`, `AskGuard`), clear
(`ClearStall`, `ClearGuard`), queue (`Enqueue`). SDL's audio thread (`Play`)
takes sound between any two. A block of sound in the queue is the time its
packet was received; `Trimmed` is the cut of an oversized packet to its newest
part, `Stalled` the gap that empties the queue, `TooMuch` the latency guard.

### LogCapture

`sysdvr_log_printf` has no lock of its own: `g_stopped` and the limits are read
by every thread, and only the two halves of a line, and the notice, are inside
`flockfile`. `pc[t]` is where thread `t` is in it: `Enter`, `Limits` and
`Measure` are the tests, `Lock`, `Prefix` and `Text` the line, `Disable`,
`Notice`, `Redirect` and `Stop` the end of the capture. stdio calls of other
threads wait while the stream is locked (`holder`). `Vendor` is a line of a
library, which the program also captures. `Close` is `sysdvr_log_close`, which
`main` calls when no other thread is left. The first line, "capture started",
is one of the calls.

### SessionRegistry and Selector

A device is backend, serial (possibly none) and address. `last_seen_ms` is kept
as an age, saturated just past the limit prune compares it with; the comparison
the code makes, on readings of a 32-bit clock, is `KeptByClock`, which no run
uses and `ClockAgesEntries` relates to the ages. `Selector` has
one location for each place where a turn of a UI loop does something the
properties can tell apart: the stop flag and keys, the drain of each socket one
datagram at a time, then prune and key. A turn takes no time: datagrams and the
clock move only while a loop sleeps, the error screen is shown, or a session
runs. `Junk` is a datagram that does not parse or a poll that fails; both end a
drain. A session is one step with any result. That it ends after a stop request
is an assumption here, `SessionsStop`, which `StopExits` names. The session
modules show when it is justified: `LeavingEnds` for a session that streams,
`StopEnds` for a SysDVR session from any point, with the exception named there, a
console that goes on for ever with packets that priming skips.

`ReconnectsAreAnswers` is about what a long session leaves behind. Nobody drains
the discovery sockets meanwhile, and an announcement that waited there is stamped
with the time it is drained (`src/webos_main.c:889`), so an age in the registry
says how long ago the application heard of a server, not how long ago the server
spoke. No property claims the latter. What holds is that such an announcement is
believed once: the application does not reconnect for ever to a console that is
gone.

`SelectionInRange` justifies leaving out main's branch for a missing selection.

## The runs

| Run (cfg) | Question | Answer |
| --- | --- | --- |
| `SysdvrSession` | Do threads outlive what they use, meet inside NDL, lose or repeat packets, or end a session without a cause? Is it a `StreamSession`? | no; yes |
| `SysdvrSessionEnds` | Does leaving end a session whose console is silent or sends only what is skipped, without any receive timeout; with it, does silence end streaming, and a stop end the session from any point? | yes; the last one unless the console goes on for ever with packets that priming skips |
| `SysdvrSessionLost` | Does a lost stream always lead to reconnection? | **no** |
| `FrametapSession` | Is the worker there as long as its thread, the status text whole, the result right; do leaving, loss and stalls end the session? Is it a `StreamSession`? | yes |
| `FrametapSessionPipe` | Does Left return to the selector? | **not always** |
| `FrametapVideo` | Does the decoder only get frames it can decode, are requests spaced but never withheld, does the gate reopen? | yes |
| `Selector` | Do the registry and reconnection stay correct while consoles move, and does only a key or silence move the selection? | yes |
| `SelectorEnds` | Does a stop request leave every screen, do duplicate entries go away, is a returning console noticed, the registry full or not, and is only a console that speaks reconnected to again and again? | yes; the first if sessions end on a stop |
| `SftAudio` | Does the sound stay within its latency, without old sound after a stall and without uncounted loss, while SDL drains the queue? | yes |
| `LogCapture` | With three threads at the limit: is the overrun bounded, the cut told, the file frozen, every line whole, and does the capture end? | yes |
| `PacketRead` | Are packets whole and in order and ends told from cuts, however the bytes arrive? Is only a silent sender given up, and a stop noticed? | yes |
| `SelectorComment` | Is the returned console selected, as the comment says? | **no** |

### What the violated runs show

1. **A lost stream can be reported as ERROR** (`src/webos_main.c:523`).
   `submit_packet` also returns false when it finds `running` cleared, and its
   callers take any false for a decoder error. So when one stream ends while
   the other thread holds a packet, the session returns ERROR, and the user
   sees "Could not start the stream" and the selector. The comment at
   `src/webos_main.c:1276` and `docs/ARCHITECTURE.md:36` promise the reconnect
   state. Leaving by key is not affected (`user_back` is tested first), and
   Frame Tap tests the stop flag in a way that is right (`LostIffFailed`).
2. **SIGPIPE** (`src/net.c:365`). A key-frame request that meets the UI
   thread's `shutdown`, or a connection the console has closed, ends the
   process. `README.md:68` says Left returns to the selector.
3. **The selection does not follow a reconnection** (`src/webos_main.c:1299`).
   The comment above says the matching item is selected; the code refreshes
   the entry only.

### Bounds

- `SysdvrSession`: one retry, two packets for each stream. Two packets are the
  primed one and one read by the thread, so both paths into `process_one` and
  their order occur; one retry makes the limit reachable. All kinds of packet
  occur in the safety run. The temporal run never retries and has one packet of its
  own kind for each stream, since what matters to it is silence and packets that
  are skipped, of which there may be any number: a second data packet would take
  the same way from `submit` on as the first, and a skipped one brings a thread
  back to `read` as often as the console likes. The proofs have no such bound.
- `FrametapSession`: three packets, so a status, a frame and an end can follow
  each other; one retry.
- `FrametapVideo`: sequence numbers modulo 4, so that a gap, a repeat, a restart
  at 0 and a wrap differ; two sizes; limits 1 and 4 as in the code (250 ms, 1 s).
- `Selector`: three entries (two in the other selector runs), two serials, two
  addresses, one datagram a socket, one unit until an entry is stale. `Moving`
  has a console that moves to the address of another one and a Frame Tap server
  at its first; with the manual entry that is a server more than the registry
  holds. `Movers` has a console that moves between two addresses and a second
  server, for a registry of two. A queue of one suffices because datagrams may
  arrive in every turn.
- `SftAudio`: a packet keeps 2 blocks, the queue holds 3, a stall is 2 ticks, as
  the order of 80 ms, 120 ms and 250 ms requires; packets of up to 4 blocks are
  both shorter and longer than what is kept, and 8 blocks in 6 ticks reach the
  guard, a stall, and a stall with the device behind.
- `LogCapture`: three threads, so that one can hold the lock, one be past the
  test and one be ending the capture; two lines until the size limit, calls
  until there are four; the time limit may be reached at any moment.
- `PacketRead`: a header of two bytes and payloads of up to two, so that each can
  be cut; two packets, so that a `recv` meets the next packet behind the one it
  reads; a patience of 3 ticks for SysDVR and 2 for Frame Tap. Time passes only
  while the reader waits.

`CHECK_DEADLOCK` is never switched off: each specification has an explicit step
for its legitimate end (`Terminated`, `Closed`, `Returned`).

### Fairness

- The kernel schedules every thread and NDL calls return: `WF` of the UI
  thread's step and of each stream thread's. In `FrametapSession` the thread's
  is `SF`, because the UI thread takes the status mutex again and again and a
  mutex that keeps being freed is obtained.
- A `recv` on a silent connection returns only by the receive timeout of 15 s
  (`SOCKET_RCVTIMEO_MS`, `include/sysdvr/net.h:24`): `TimeoutFairness`, which
  `StopEnds` and `SilenceEnds` name and `LeavingEnds` does without. It is not
  enough for `StopEnds`: `read_data_packet` (`src/webos_main.c:264`), which primes
  a stream on the UI thread, skips empty and unexpected packets in a loop that
  reads no flag, and each packet starts the timeout anew. So `StopEnds` has the
  second premise `<>[][~PrimeSkips]_vars`: the console does not go on with such
  packets for ever. Without it TLC shows the UI thread in `prime_audio` for ever
  with the stop flag set. The stream threads skip in the same loop, but their
  sockets are shut down, so `LeavingEnds` needs no such premise. For Frame
  Tap, the 3 s deadline inside a packet is a step of the thread.
- Nothing is assumed of the user or, in the sessions, of the console: it may be
  silent for ever. `FrametapVideo` assumes for `GateReopens` that the console
  goes on sending frames and answers a request with a key frame, and `WaitEnds`
  that the console's announcements find room again and again
  (`PreferredReturns`).
- `LogCapture`: a call that was entered goes on, and a stream lock that keeps
  being freed is obtained: `SF` of each thread's next step. `LimitStops` is
  about threads that do log after the limit; none has to.
- `DuplicatesExpire` assumes that time passes (`TimePasses`: `SF` of `Tick`,
  which is enabled only while a loop sleeps). `StopExits` assumes
  `SessionsStop`, that a session ends after a stop request. `ReconnectsAreAnswers`
  says that one thing happens again and again only if another does, and assumes
  nothing.

## What is proved

All from the assumptions named in the modules (`SessionAssumption`,
`FrametapAssumption`, `VideoAssumption`, `RegistryAssumption`,
`SelectorAssumption`, `AudioAssumption`, `LogAssumption`, `ReadAssumption`), which ask only
that counts are naturals, capacities are positive and sets contain what their
comments say.

**StreamSession_proofs.** What a session promises `main`, from the abstract
specification alone and for any set of threads: no thread lives without what it
works with (`HeldCorrect`); and a session that returned holds nothing, has no
thread and answers `USER_BACK` exactly if the user went back
(`ReturnCorrect`), also if a signal arrives after its return. Both sessions
instantiate this module with their refinement mapping and inherit the two
(`PromiseKept` in each).

**SysdvrSession_proofs.** `TypeCorrect`, then `ResourcesCorrect`,
`MutualExclusion`, `OrderCorrect`, `CauseCorrect` and
`SysdvrRefinesSession`; and on the way out `JoinCorrect`, `StopIsNearCorrect`,
`ResultCauseCorrect`, `ErrorsCorrect` and `IdleLossCorrect`.
- *Resources* are not inductive: nothing in "a thread that is alive has its
  socket" forbids the UI thread to be at `release` meanwhile. The strengthening
  states, for each location of the UI thread, what it has already opened, which
  threads can exist, and that from the join on a started thread has ended.
- *Mutual exclusion* needs that the lock's holder is exactly the thread that is
  at the NDL call.
- *Order* needs the packet a thread holds to be the last one received, exactly
  at the locations between a read and its feed, and no packet at the others,
  with the primed packet as the case before the thread starts.
- *Cause* (`EndHasCause`) needs the invariant to say, while the UI thread is
  still starting threads or polling, that both sockets are open, so that a read
  that ends was ended by the far end, and that a cleared flag or a thread on its
  way out already has a cause, which no later step takes back.
- *Refinement* needs the resource invariant, which says that a session that
  joins has no live thread left and one that opens has none yet, and that a
  key, once taken, is remembered until the result: then each action is one step
  of `StreamSession` or changes nothing of it.
- *Join* (`JoinIsAnswered`) is what `LeavingEnds` rests on, without fairness:
  while the UI thread waits in `pthread_join`, each thread that is left can take
  a step of its own, or waits for the other one, which is inside the player.
  The invariant says that both sockets are shut by then, that the holder of the
  lock is at the NDL call, and that a thread that starts has its primed packet.
- *Stop* (`StopIsNear`): with `running` cleared every step of a thread makes
  `StepsLeft`, at most four, smaller. The one exception is `read_data_packet`,
  which skips packets it does not expect without looking at `running`; each
  such step takes a buffered packet away. Together with the join this leaves
  to fairness only that the threads are scheduled.
- *Result* (`ErrorsExplained`, `IdleLossReconnects`): the exact extent of the
  first finding above. A lost stream that is not reported as one was lost
  while a thread had a packet in its hands; an ERROR without such a packet
  means that no thread ran or that the player refused a packet for good.

**FrametapSession_proofs.** `TypeCorrect`, `ResourcesCorrect`,
`StatusCorrect`, `LossCorrect` and `FrametapRefinesSession`; and on the way out
`JoinCorrect`, `StopIsNearCorrect` and `KilledCorrect`.
- *Resources* again tie the thread's life to where the UI thread is.
- *Status*: the text is half written only while the stream thread is writing it
  and holds the lock, which the UI thread holds where it copies.
- *Loss* is the hard one: until the user or a signal asks to leave, `failed` is
  set exactly if something went wrong, except between a failed read and its
  judgement, and `running` is then still set, so that the judgement does not
  overlook it. It is a property of the step that returns, since a signal may come
  later. The UI thread clears `running` and shuts the socket down only
  when it is leaving or the thread has finished.
- *Exit*: the socket is shut only with `running` cleared, and the status lock
  is held only where the text is copied or written. So while the UI thread
  joins, its thread can always take a step (`JoinIsAnswered`), each of which
  brings it nearer to its end (`StopIsNear`, here without exception); and
  `SIGPIPE` can only come from a console that has gone or, while the session is
  being left, after its own shutdown (`KilledOnlyOnTheWayOut`), which is the
  extent of the second finding.

**FrametapVideo_proofs.** `DecodableCorrect` rests on an invariant that ties
the gate to the decoder's last frame: an open gate with a player has that frame
as reference, in the decoder's size and with the last sequence number; a frame
that is not skipped is then a key frame or its successor. `SpacingCorrect` and
`AskingCorrect` rest on the recorded age being the real one.

**Selector_proofs.** All the safety of the selector: `TypeCorrect` (with the
capacity), `SelectionCorrect`, `ReconnectCorrect`, `SelectionKept`,
`BackendsKeptApart` and `StopIsNearCorrect`; and about the operators
`PruneKeepsOrder` and `ClockAgesEntries`.
- *Prune*: the work is in the lemmas on the k-th kept index. It exists, is in
  the domain, grows with k, and every kept index is the k-th for some k
  (`NthExists`, `NthOrder`, `NthOnto`); so the compacted list is a sequence of
  entries as long as the kept set, with each kept entry once and in order.
- *Reconnection* needs that the preferred device is the one the user chose
  whenever a session or a wait is on, so that what matches the preferred device
  matches the chosen one.
- *Selection*: matching is reflexive and symmetric but not transitive, so the
  argument is by index: an announcement overwrites the selected entry only with
  a device that matches it (`StaysSeen`), and prune finds the first kept entry
  that matches the selected one, which exists because a fresh one is kept
  (`StaysPruned`).
- *Backends* need `QueueOwn`: a datagram waits on the socket of the backend
  that sent it, and devices of two backends never match.
- *Stop* (`StopIsNear`) is what `StopExits` rests on, without fairness: with
  the flag set, each step of the UI thread goes to a later place of its turn or
  takes a waiting datagram, no loop makes another turn, and nothing else moves
  the thread or adds to what it drains.
- *Clock*: two readings less than a turn of the clock apart compare as their
  times do unless the clock has wrapped in between; then the entry is kept,
  however old. The limit of 7 s is never cut short, and an unsigned difference
  is the elapsed time. The theorem is about any width.

**SftAudio_proofs.** `LatencyCorrect`: between the guard and the new packet the
queue has room for it, because nobody but the stream thread adds to it (the
audio thread only makes more room). `StallCorrect`: the newest block is less
than a stall older than the packet, from the test for a stall on, by way of
`last_offer`. `AccountCorrect`: while a packet is under way the account has it
among the blocks still to be queued, and what the thread saw in the queue
before it clears is at least what is there.

**LogCapture_proofs.** `OverrunCorrect`: a thread past the test has written no
late line since, and one that has written a late line finds the limit reached
when it comes back. `DropsCorrect`: a line is dropped only if the stream was
redirected or the flag set, for which some thread has given notice; a thread
gives notice at most once. `FrozenCorrect`: with the flag set the stream is
`/dev/null`. `LinesCorrect`: a thread between its two halves is the holder.

**PacketRead_proofs.** `ReadersRefineStream` rests on two invariants: the sent
packets are laid end to end and only the last one may be incomplete; and a
reader stands at the start of the packet it is to give plus what it has
read of it, so that it never reads past a packet. An end at a packet's start
with everything received is then an end with everything given. `SilenceCorrect`
relates the deadline to the ticks waited, which only bytes reset;
`StopCorrect` says that after the stop at most the one `recv` that was already
being waited for is left, and `StopIsNearCorrect` that the read is then at most
three of its own steps from its return. `HeaderRules` compares the code's tests of flags,
written one after the other, with the three shapes of header they let through.

The type invariants of `SftAudio`, `LogCapture`, `PacketRead` and
`FrametapVideo` are proved and not repeated in the runs.

The properties that only a theorem states (`HeldWhileAlive`, `ReturnedClean`,
`JoinIsAnswered`, `StopIsNear`, `ResultHasCause`,
`ErrorsExplained`, `IdleLossReconnects`, `KilledOnlyOnTheWayOut`) are in no cfg:
each refines one that a run checks, or gives the argument for it.

Checked by TLC only: everything temporal (`LeavingEnds`, `StopEnds`,
`SilenceEnds`, `LossEnds`, `GateReopens`, `DuplicatesExpire`, `StopExits`,
`WaitEnds`, `ReconnectsAreAnswers`, `LimitStops`), which TLAPS does not prove under fairness. Every
invariant and every action property of the passing runs is a theorem.

## What is not modelled

- Timestamps, the shared timeline, statistics, the wording of the log, rendering:
  `src/ui.c` reads the registry and draws, and changes nothing another part
  reads.
- The byte layouts of packets, beacons and descriptors, the ranges of sizes in a
  header, and the scan of `sft_packet_is_key` for an IDR unit: a packet is valid
  or not, a frame is a key frame or not.
- The inside of the TCP connect: a search through the addresses one after the
  other, each with the whole timeout; the sessions see its success or failure.
- `SIGPIPE` in the SysDVR handshake, whose `send` (`src/protocol.c:100`) has no
  `MSG_NOSIGNAL` either: a console that closes before it would end the process. In
  `SysdvrSession` it is one more failure of the start, `GiveUp`.
- `sft_audio_reset`, which has no caller.
- The wrap of SDL's 32-bit clock after 49 days, in the runs: ages replace the
  clock. What it does to the comparisons is `ClockAgesEntries`.
- What the user last saw on the screen, which is drawn at most every 80 ms.
- The tools, scripts and packaging, which are not part of the application.

## Plan

Done: the SysDVR session, the Frame Tap session, gate and sound, both packet
readers, the log, the registry and the selector, each with runs and proofs; and
two abstract specifications, `StreamSession` and `PacketStream`, with the proof
that what is modelled in detail implements them.

1. `main` on `StreamSession`, so that the wait that follows a session can be
   stated about sessions that really fail: a player that cannot be opened, a
   console that has not left, announcements queued while a session ran.
2. The IDR scan and the connect, as operators against reference definitions.
