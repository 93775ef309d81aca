# g2mirror: specifications, model checking and proofs

g2mirror wraps a terminal program in a pseudo-terminal, mirrors its screen, and
lets other devices view and drive it. This directory holds TLA+ modules of the
wrapper's core, of the server, of both clients (device viewer and attach) and of
the directory they meet in, the TLC configurations that check them on small
instances, and theorems checked with TLAPS. Paths are relative to the
repository; `main.rs`, `control.rs`, `mirror.rs`, `history.rs`, `attach.rs`,
`paths.rs` and `protocol.rs` are in its `src/`.

## The system

| component | state | operations | what must be right |
|---|---|---|---|
| **Event loop** (`main.rs`, `run`; `control.rs`, `Client`) | `pendings`, `viewers`, `monitor`, `host_rank`, `host_attached`; per client: state, dimensions, rank, role, `dead` | one `select!` over keyboard, pty output, two timers, SIGWINCH, accept, first messages, viewer messages, monitor hangup, child exit | no viewer applies a diff to the wrong screen; the size follows the precedence order; one host-role client; everybody learns titles and host changes |
| **Bell debouncer, activity limiter** (`control.rs`; `main.rs` 528-592) | `last_sent`, `pending_at`, `last_activity_report`, `last_output_at` | `on_bell`, `deadline`, `fire`, report or suppress activity | reports keep their distance, the latest bell is not lost |
| **Input pacing** (`main.rs` 45-100, 1006-1034) | `queue`, `due` | `push`, `pump`, timer | bytes in order, at most once, no sooner than asked; lost or stranded only by a failed write |
| **Screen mirror** (`mirror.rs`) | `parser`, `shadow`, `view`, `title`, `parked`, `staged_seen`, `zone_dirty` | `process`, `start_view`, `end_view`, `host_resized` | every line that scrolls off is archived once, in order; the host shows the view and keeps what scrolled in its own scrollback |
| **History archive** (`history.rs`) | `lines`, `next` | `push`, `fetch` | stable indices; paging is gapless and ends |
| **Server, registry side** (`bin/g2mirror-server.rs` 855-981, 1350-1384) | `terminals`, `monitored`, broadcast channel | directory scan, one monitor task per session, events | what a device is told agrees with the sessions |
| **Server, device side** (983-1250, 1386-1463) | per device: authentication, one open session, event receiver | authenticate, list, open, close, relay, filter | a hidden session is never relayed; a session's end does not end the device |
| **Server configuration** (88-720, `jsonc.rs`) | the configuration file | parse, validate, `--add-token` | (sequential text handling) |
| **Device viewer** (`bin/g2mirror-view.rs`), **attach client** (`attach.rs`) | pending history pages, `skip_replies`, the splice point | snapshot, history, live output, keys, detach | history, snapshot and live output join without gap or overlap |
| **Session sockets** (`paths.rs`, `control.rs` 22-52) | files in `~/.g2mirror` | bind, drop, scan, remove stale ones; a detached launch polls for the file | a live session's socket is not removed, a dead one's goes; a launch reports the truth |
| **Wire protocol** (`protocol.rs`, `PROTOCOL.md`) | - | JSON lines, websocket texts | (encoding) |

How they interact: the wrapper is a single task. Devices reach it through the
server, which opens one socket connection per device and session and relays
lines; the attach client connects to the socket itself; and the server keeps one
more connection to every session as its monitor. The event loop calls the mirror
and writes to the pty and the host terminal; the mirror calls the archive.
Inside the wrapper nothing runs in parallel, but a branch awaits sends and
writes, each of which may fail, and clients die between any two of them.

What is hard here: sends that fail in the middle of a broadcast; state computed
before a broadcast and used after it; messages that reach a connection while it
is still pending; timers that are polled late; a rank order that changes with
every message; rows counted through a library that was not made for counting
them; eviction under a client that pages. `PROJECT.json` lists these hazards at
their lines, with the properties that cover them.

## The modules

| module | models | checked by | proofs |
|---|---|---|---|
| `Session` | the event loop: connections, view, sizes, host slot, titles | `MCSession` | `SessionProofs` |
| `Reports` | bell debouncer and activity limiter, with explicit time | `MCReports` | `TimerProofs` |
| `InputStream` | abstract: input as an ordered stream, each byte at most once | `InputQueue` refines it | |
| `InputQueue` | `push`, `pump`, the timer, a write that may block or fail | `MCInputQueue` | `TimerProofs` |
| `Scrollback` | abstract: an append-only archive of what scrolled off | `Mirror` refines it | |
| `Mirror` | scrollback capture over vt100's staging buffer | itself | `ScrollbackProofs` |
| `HostView` | what the host terminal shows and keeps while a device views | itself | `HostViewProofs` |
| `History` | the archive, and a client that pages through it | itself | `ScrollbackProofs` |
| `Server` | the registry of terminals, monitor tasks, event broadcast, device connections and filters | `MCServer` | `ServerProofs` |
| `Viewer` | g2mirror-view and the server's relay: list, attach, splice, detach | itself | `ViewerProofs` |
| `Attach` | attach clients on one headless session: claim, takeover, splice, endings | itself | `AttachProofs` |
| `Sockets` | the directory of session sockets: processes, pids, cleanup, detached launch | itself | `SocketsProofs` |

In every module an operator named `X_Y` with an underscore is a seeded fault: the
definition `X` as a plausible mistake `Y` would have it. No action uses one; they
are there to confirm that the properties notice the mistake.

Two proof modules cover two components each. Where both would define a name, the
definitions of one are prefixed: `InputQueue` has `QueueInit`, `QueueNext` and
`QueueSpec`, `History` has `HistoryInit`, `HistoryNext` and `HistorySpec`.

### Session

One action is one branch of `select!`, with every call the branch makes. Only the
loop of `sweep_and_refresh` is taken apart: a branch that ends in it leaves
`pc = "sweep"`, and each iteration is a `Sweep` action, so that its termination
is something to check (`SweepEnds`). `refresh_view` is `RefreshView` (with the
set of clients whose snapshot send fails) or `RefreshViewFails` (the pty resize
or host write failed: `?` returns before the snapshots; the pty may or may not
have been resized).

| TLA+ | code |
|---|---|
| `conn[c]` | which of `pendings`, `viewers`, `monitor` holds the connection |
| `viewing`, `dead` | `ClientState::Viewing`, `Client::dead` |
| `size`, `rank`, `role`, `hostRank`, `hostAttached` | `Client` fields and locals of `run` |
| `view`, `hostSize` | `Mirror::view`, `Mirror::host_rows` / `host_cols` |
| `childSize` | the size last given to the pty |
| `screen[c]` | what client `c` shows: the model, at some size; `Drifted`, all of it but what a rebuild did not convey; or `Stale` |
| `toldAttached`, `knowsTitle` | what connections were told (for the properties) |
| `faulted` | a host-side step of a view change has failed (for the properties) |

Payloads are abstracted to the one thing the protocol is about: whether a
client's screen still is a copy of the mirror's model, so that the next diff
applies. A snapshot makes it one; a missed diff, or a model rebuilt at other
dimensions or emptied, makes it `Stale`.

A client that sends `view` while another one is viewing at the same dimensions
has the model rebuilt from a snapshot of itself (`StartView`), and only that client
is sent the snapshot. A snapshot does not convey everything that later diffs build
on: `render_snapshot` (mirror.rs 673-717) writes no cursor position while the cursor
is hidden, and never the current pen. What the screen held decides whether something
is missing, so
`PassedOver` leaves it open: the others stay in step or have drifted. A drifted
screen is so until the client's next snapshot; it is never of another size.

### Reports

Instants are a counter; `Tick` may run past a deadline, because the loop polls
its timers only between branches and picks ready branches at random. The wall
clock that stamps bells agrees with the monotonic clock. `lastBell`,
`heardOutput` and `since` are kept for the properties.

### InputQueue

A byte is its position in the order of arrival, a chunk a range of positions.
`pump` is taken apart into an action per iteration (`PumpReturns`, `Pop`) and
`Write` or `WriteFails`, because time passes while a write to a full pty blocks.
`due` counts the ticks that remain. A write may fail after any number of its bytes,
and what happens then depends on who called `pump` (`caller`, `AfterFailure`): the
timer branch returns the error from `run` (main.rs 598), and the session is over; that
of a message only drops the sender (755-766), so the loop goes on with the popped
chunk lost, no deadline, and the rest of the queue waiting until another message
pumps. `lost`, `failed`, `log` and `gap` are kept for the properties. `Input` also
receives requests that are invalid (offsets out of order or past the end, one
delay too many, a pause above the cap).

### Mirror

Lines are numbered in the order in which they leave the top of the model's
screen; the staging buffer is then just its length. The parser is vt100, which is
not in the repository. The model assumes of it what `mirror.rs` relies on: the
staging buffer is bounded, a parked scrollback offset advances with each row that
scrolls off, the alternate screen has no scrollback, and the primary screen's
offset survives a stay on the alternate screen. Were the last point wrong,
`NothingForgotten` would fail.

`Scrollback` is the promise: a log that only grows, by lines that have left the
screen, in their order. Its `left` and `log` are `scrolled` and `archived` here
(`Promise`), and `ArchiveAppends` is its specification under that mapping.
`NothingForgotten` adds what an append-only log alone does not say: that nothing
is left out.

`StagingPremise` bounds the rows between two harvests by the staging buffer. The
code comment derives this from the slice size (mirror.rs 31-32). It is an
assumption about the program that is wrapped: deferred harvests can break it, see
below.

### HostView

The host terminal is a record of its scrollback `back` and its `rows`, with one
operator per escape sequence that the mirror sends (`Newlines`, `DeleteLines`,
`Flow`, `Paint`, `Clear`). Rows are numbered in the order in which the program
writes them, so a row of the host shows which row of the model it came from.
While a device views, the screen is divided: the live region at the bottom
(`Visible`), the history zone above it (`Zone`), with `Crop` rows of the view that
do not fit.

| TLA+ | code |
|---|---|
| `model`, `shadow` | rows of the screens of `Mirror::parser` and `Mirror::shadow` |
| `view`, `hostRows`, `zoneDirty` | the fields of `Mirror` |
| `resized` | the terminal has another height than `host_rows`: SIGWINCH is not handled yet |
| `ScrollHost` | the host's part of `process` when rows scrolled off |
| `Retained`, `Evicted` | `history.tail(scrolled)`: what is left of a batch in an archive of `--scrollback` lines |
| `PushCrop`, `PushZone` | `push_crop_to_host_scrollback`, `push_zone_to_host_scrollback` |
| `RenderFull`, `RenderDiff` | `render_rows`, without and with a previous screen |
| `mirrored`, `lost` | kept for the properties |

A terminal that shrinks pushes its top rows into its scrollback; one that grows
adds blank rows or takes rows back. It does so when its user resizes it
(`TerminalResizes`); the event loop takes the signal in a later turn
(`HostResized`), and every other branch may run in between and draw for the old
`host_rows`. What that leaves on the screen depends on the terminal, so `Draws`
scrolls it by any number of rows (up to `MaxScroll`) and blanks it: the properties
then count all that was on the screen as lost, never as kept. Cells, colours, the
cursor and columns are left out; a line wider than the host counts as two rows
(`Wrapped`).

### History

`Push` evicts; `Fetch` is one request of a client that pages by `start` as
PROTOCOL.md describes. A retained line carries the index it was pushed with, so
that what `fetch` returns can be compared with what was asked for.

### Server

The runtime has one thread, so the code between two awaits is one action. Tasks
interleave at awaits, and a task that is blocked in a send is one that does not
take its next action for a while. Two places need more care. A connect request
checks the filter (`Connect`), dials, and stores the session (`Opened`): between
the two, everything else runs. And a line that a monitor task has read is stored
and broadcast in one step (`ReadLine`), because no await separates the two.

| TLA+ | code |
|---|---|
| `terminals`, `monitored` | `BellState` |
| `mon[s]` | the `run_monitor` task of a session: none, dialling, reading |
| `wire[s]`, `link[s]` | the monitor connection and the wrapper's end of it |
| `events[d]`, `lagged` | the device's broadcast receiver: unread events, and whether the next `recv` is `Err(Lagged)` |
| `unauth`, `dev[d]` | the count behind `UnauthGuard`, and how far `handle_device` is |
| `session[d]`, `opening[d]` | the `session` local, and the socket of a dial that is under way |
| `cut` | devices whose session connection has ended at the other side |
| `told`, `lost`, `scanFailed` | kept for the properties |

Wrappers are reduced to what `Session` has them do: greet with the title, send it
again on registration, send every change. Bells, activity and host changes are
one kind of event (`Notes`), since each stores a field nothing here reads and
takes a place in the receivers. Socket names carry a pid; their reuse is left
out.

### Viewer

Two queues carry messages between the viewer and the server, which answers a
device's messages one at a time and forwards the rest. A session's answer comes in
the same step as the request reaches it: what the wrapper's own loop may put in
between is `Output`, `Resize` and `Ends`. Output is numbered, and a screen is the
session and the number of the last output it holds, so that a mirror that misses
an output or gets one twice is no screen at all (`Applied`). `next` counts lines
in the archive; nothing is trimmed, so `history_oldest` is 0.
`overtaken` notes that the user chose a session while an answer to an earlier
request was still under way; `SpliceExact` is stated up to then, because the code
counts on it. A message that is forwarded to a session that has just ended is
`Server`'s subject (`ForwardFails`) and does not occur here. Two things are
simplified: the server relays a session's greeting in the step that connects,
where the code does so in a later turn of its `select!`, and the terminal hands
over one key at a time, where one read may hold several Enters.

### Attach

`g2mirror attach` looks for a session first (`Probe`), connects to it anew
(`Connect`), and claims the host role once it has been greeted (`Claim`); the
wrapper, reduced to what `Session` and `History` have it do for clients with that
role, refuses the claim or displaces the holder. Each action of the client is one
branch of the `select!` in `Attached::run` with the whole handler. A connection is
two queues. Its end is a message of its own, because the code tells endings
apart by what it read before the end: `exit`, an error, or nothing.

| TLA+ | code |
|---|---|
| `mode[c]` | `Mode`, and before it how far `attach` and `run_attached` are |
| `app[c].snapshot`, `.pending`, `.skip` | `Mode::FetchingHistory` |
| `app[c].mirror`, `.printed` | what the terminal shows: the last output on its screen; where the printed history ends and the screen begins |
| `app[c].lastError`, `.exited` | `last_error`, `exit_status` |
| `outcome[c]` | how `run_attached` returned |
| `conn[c]`, `viewing` | the wrapper's end of the connection |
| `displaced`, `unserved` | kept for the properties |

When the wrapper closes a socket with unread input in it, the other end may get an
error instead of an end (`Close`), and a write to a closed socket fails.

### Sockets

A file is named by a pid and a directory, and pids are reused, by wrappers and
by unrelated processes (`others`), so a name comes back with another owner.
`cleanup_stale_sockets` is taken apart into its system calls (`Stat`, `Probe`,
`Remove`), between which everything else may run, and so is the poll of
`spawn_detached` (`Look`, `Wait`, `GivesUp`). A dead child keeps its pid until it
is reaped (`Gone`), which is why a launch cannot confuse its child with a later
process. The age of a file is one bit: older than `STALE_SOCKET_AGE`. `bound`,
`leftover` and `robbed` are kept for the properties.

## What the runs show

`sockets` checks for deadlock. The other runs say `CHECK_DEADLOCK FALSE`: a
session may exit, a bound may be reached, and a client need not do anything more.

| run | instance | shows |
|---|---|---|
| `session_hosted` | 3 connections, 2 sizes, ranks {0,1} for clients and host; faults | `StreamsInSync`, `ChildHasModelSize`, `TitleKnown`, `RealViewIffViewing`, `SizePrecedence`, `SweepEnds` |
| `session_headless` | 3 connections, headless, forced and unforced claims; no drift | `OneHost`, `SizePrecedence`, `FlipReachesEveryone` |
| `reports` | window 3, interval 2, output until 5, time until 11 | `BellSpacing`, `BellAccounted`, `ActivityFresh`, `HeldBellReported` |
| `input_queue` | 2 messages of up to 2 bytes, up to 2 delays (3 are refused), cap 1, writes that fail after any byte | refinement of `InputStream`, `TimerArmed`, `PausesRespected`, `EveryByteWritten` |
| `mirror` | staging buffer 4, slices of 3 events, 8 lines, heights 1-3 | refinement of `Scrollback`, `NothingForgotten` |
| `host_view` | heights 1-3, 4 rows written, an archive of 2 lines, 3 view changes, resizes or refreshes, a terminal scrolled by 0 or 1 row while a resize waits | `HostShowsModel`, `HostScrollback` |
| `server` | 1 session, 1 filtered device, 1 stranger, 3 titles (one hidden), 2 title changes, 1 other event, channel capacity 2, budget 1, 1 lost connection | `RegistryCurrent`, `RevocationPending`, `ToldCurrent`, `BudgetExact`, `RegistrySettles` |
| `viewer` | 2 sessions, 5 keys, 1 output per session, 1 snapshot caused by others | `LiveInStep`, `SpliceExact`, `AttachEnds` |
| `attach` | 2 clients, one with `--force`, 1 output, 1 snapshot caused by others, 1 message of input each; exit or crash | `Gapless`, `EndingTrue`, `AttachSettles` |
| `sockets` | 2 pids, 2 directories, 2 wrappers, unrelated processes | `LiveSocketKept`, `LaunchTrue`, `StaleGone` |
| `history` | cap 3, byte budget 4, lines of 0, 2 or 5 bytes, 6 pushes | `PagesJoin`, `NothingRetainedIsMissed`, `PagingEnds` |

Why these bounds are enough. Three connections are a viewer that asks, one that
is already viewing and one that dies, displaces or watches as monitor; two sizes
are all that "changed or unchanged" can tell apart, and the simulated device's
size is one of them. Two ranks, for viewers and the host alike, give
every order of two and every tie; `SizeFollowsPrecedence` is proved for any ranks. The
headless run leaves out the drift of screens (`Conveys`), which none of its
properties looks at. Three bells within the horizon reach the leading
edge, the held bell, the trailing report and the window after it. Two messages
with two delays reach every split, including empty chunks, a message that
arrives during a pause, and one that finds the queue stranded by the failed write of
the message before it. Eight lines through a buffer of four fill the buffer,
pass it, and cross a rebuild. In `host_view`, heights 1 to 3 give a zone, a crop
and neither, and a batch of lines below, at and above the size of the region;
three turns are a view, a change while it is on, and its end. An archive of 2 lines
is smaller than the largest batch and not than the others; the run also passes with 0
and 1. A budget of 4
against a line of 5 makes a single line exceed it, and twice the cap of lines
makes eviction happen between requests. In `server`, terminals do not influence
each other except through the receivers they share, and there other events take
the same places as another terminal's; two changes of the title hide a terminal
and show it again, or overrun a receiver of capacity two together with a note;
the registration's title line is a third event. The stranger and the budget of
one make room contended. In `viewer`, five keys are choose, detach, choose,
abort or detach, choose; a resize during the fetch makes a stale reply, and an
output falls before or after it. `LiveInStep` also held with seven keys (7.1
million states). In `attach`, the second client takes over from the first one or
is refused, and one snapshot more than the first is what makes a history reply
stale. In `sockets`, two wrappers are an owner of a name and the next one; the
cleanup only looks at one name at a time.

### Violations: where code and documentation disagree

One run checks a property taken from a comment, and TLC finds a behaviour of the
code that breaks it.

| run | what happens |
|---|---|
| `viewer_wrong_session` | The terminal goes live with the session of the third choice although the user has made a fourth, of another session. |

No answer says which request it answers, and the viewer goes by its mode. The
behaviour that TLC finds is a chain of three such confusions:

1. The user chooses a session and aborts while the viewer still waits for its
   greeting (g2mirror-view.rs 633-639). The greeting comes all the same, so the
   viewer asks for a view; the server has handled the abort by then and answers
   with an `error`. The answer to the abort, `disconnected`, is read first and brings
   the list.
2. The user makes a second choice. The server connects, the session greets, and
   ends: a greeting and a `disconnected` are under way, behind the `error`. The
   `error` is read during the attach and so brings the list (404-410).
3. The user makes a third choice, and the server connects to it. The second
   session's greeting is read and taken for the third's (350); the `view` it
   triggers reaches the third session, which sends its snapshot. Then the second
   session's `disconnected` is read and brings the list (402), while the server
   stays attached to the third session.
4. The user makes a fourth choice, of another session. The third session's
   greeting and snapshot are taken for it, and the terminal goes live with the third.

The fourth choice's `connect` is still on its way. If its session is alive, the
view sent in 4 brings that session's snapshot and the terminal is right from then
on; if it has ended, as in the run, the server answers with an error, which a live
terminal drops (416-418), and the wrong session stays.

Two choices do not suffice: the view that a stale greeting triggers follows the
later `connect`, so what it brings is of the later choice. With four keys TLC finds
no such behaviour.

Others were met while reading and modelling and have no run. In the wrapper:

- A connection is greeted, the host slot flips, and the connection then becomes a
  viewer or the monitor. Titles are re-sent at that point (main.rs 709), the flip
  is not: `FlipReachesEveryone` is about connections classified before the flip.
- Rows scroll off and the program switches to the alternate screen in the same
  slice, so the harvest is deferred (mirror.rs 403); a view starts or ends; the
  parser is replaced and the rows are gone. `NothingForgotten` excepts them
  (`discarded`).
- An attach client claims the host slot and dies while its own claim is
  broadcast. `sweep_and_refresh` has computed the occupancy before, removes the
  client after, and returns (main.rs 922-943): `host_attached` stays set for a free
  slot until the next sweep, and connections greeted in between are told so.
- A bell rings when the window has run out but the timer has not been polled. It
  is reported at once and the older, held bell after it (control.rs 80-93), so
  `last_bell_at` goes back; PROTOCOL.md 186-188 has it catch up to the latest.
- A view starts or ends while the program is on the alternate screen. The new
  parser is on its primary screen, and what the program scrolls there is archived
  (mirror.rs 467), although "alternate-screen output produces no history".
- A client sends `view` while another one is viewing at the same dimensions. The
  comment on `refresh_view` says that "the rebuilt stream stays seamless for the
  others because the model is re-primed with its own current state" (main.rs
  831-834), and PROTOCOL.md 394 that every other viewing client receives the snapshot
  too. It goes to the one that asked only (897), and it does not hold all of the
  state: with a hidden cursor or a pen that is not the default one, the next diff
  is made for a screen the others do not have. `StreamsInSync` excepts them until
  their next snapshot (`Drifted`).
- A write to the pty fails in the pump of an input message. The sender is told and
  dropped (main.rs 755-766), but what was left of its chunk is gone, and what
  waits behind it has no deadline: it is written, pauses first, when somebody sends
  input again. `TimerArmed` and `EveryByteWritten` except that time (`failed`), and
  `Delivers` the lost bytes.
- A batch of scrolled lines is larger than the archive (`--scrollback`, main.rs
  192-194, 466). `process` flows what the archive holds of it (`history.tail`, mirror.rs
  316, history.rs 53-59, 74-76), so the oldest lines of the batch do not reach the
  host's scrollback. The comment on `tail` (history.rs 71-73) gives it no byte budget
  because "truncation would lose lines from the host terminal's scrollback"; the
  limit truncates too. `HostScrollback` excepts them.
- The user resizes the host's terminal, and output of the program is drawn before
  SIGWINCH is handled (main.rs 601-611). It is laid out for the old height: a
  dirty zone and a batch that scrolls then may end up anywhere. `HostScrollback`
  excepts what is drawn over, and `HostShowsModel` the time until the resize is
  handled.
- A view that starts while another one is on clears `zone_dirty` (mirror.rs 474,
  main.rs 873-877) although the zone may hold lines that are not in the host's
  scrollback yet; the end of the view then clears them (mirror.rs 514-540),
  against what 107-110 and 525-527 say of the flag. `HostScrollback` excepts them.
- A scrolled line that is wider than the host takes more rows than the mirror
  counts, so the newest rows of the batch are still in the region when it is
  repainted, and are gone (mirror.rs 303-329, where the comment has only the order
  at stake). `HostScrollback` excepts as many of the newest lines of the batch as its
  text has extra rows, here one.
- A terminal that takes rows back out of its scrollback when it grows puts them
  where the mirror paints or clears, unless the zone is dirty
  (`host_resized`, mirror.rs 542-578). `HostScrollback` excepts them.
- Slices that come back from the alternate screen, scroll and leave again defer
  the harvest each time (mirror.rs 403), until more rows wait than the staging
  buffer holds. `StagingPremise` excludes it.

In the server and the clients:

- A device sends input or `view` to a session that has ended before the relay has
  read the end. The write fails, and the error leaves `handle_device` (server
  1225-1228): the device loses its websocket instead of getting `disconnected`.
- A scan that fails to read the directory empties the registry while the monitor
  connections live on (server 858-876, 1350-1353): working directories, which
  only greetings carry, are gone until a monitor is reconnected, and titles until
  they change. A filter on either hides the terminal meanwhile. `RegistryCurrent`
  is stated for the time before such a scan.
- When a choice is made while the answers to an earlier one are under way, the
  server may be attached to a session that the viewer does not show; the viewer then takes `readonly` and
  the oldest history line from whichever greeting comes first, and a snapshot of
  the old session starts the splice (`overtaken`).
- Whoever types into a read-only session before the attach is live is detached
  from it: the refusal is an error, and an error before the first screen is fatal
  (attach.rs 603).
- When the wrapper closes while input of the attach client is unread, the client's
  write or read may fail instead of ending, and the exit status is lost
  (attach.rs 511-520). And a refusal that a live attach remembers is reported as
  the reason of any later end without an exit message (606).
- A program that exits before its wrapper has classified an attaching connection
  makes the attach report that the session closed unexpectedly (`unserved`).

In the socket directory:

- A cleanup looks at a pid and then removes by name (paths.rs 111-113). A wrapper
  that is born in between with that pid and directory loses its socket file and
  is unreachable (`robbed`).
- A detached launch takes any file of its child's name for its child's (main.rs
  345), so after a crash it may report success at once, although 341-342 promises
  the opposite (`leftover`). A program that ends between two looks is reported as
  having failed to start, and a child that is slower than five seconds is
  reported as a failure but runs on (`GivesUp`).
- A crashed wrapper's file whose pid now belongs to an unrelated process is
  spared by every cleanup while that process lives; `StaleGone` asks for the pid to
  stay free.

Three smaller points about the wrapper. In a headless session the greeting
reports `mirror.host_size()`, which is the size at launch and not, as the comment above it says, the size of the last view (main.rs 618-622). When a
pty resize or a host write fails in one viewer's message, the error drops that
viewer, but the view has changed and the others get no snapshot (main.rs 882,
756-766): this is why `StreamsInSync` ends at the first such failure (`faulted`).
And a monitor that replaces another within the activity interval is not told of
output in the rest of that interval (main.rs 541-548), which is why
`ActivityFresh` asks for a monitor that has been there for one interval.

## Fairness

- `Session`: `WF(Sweep)`. Once `sweep_and_refresh` runs, nothing else of this
  task can; its sends have a timeout. No fairness for clients or the program.
- `Reports`: `WF(Tick)`, `WF(Fire)`. Time passes, and `select!` polls an
  expired timer eventually, since it picks among ready branches at random.
- `InputQueue`: the same for `Tick` and `Wake`, and `WF` for the iterations of
  `pump`. There is none for `Write`: the program need not read its input, and
  `EveryByteWritten` excepts that, and a `pump` that a failed write has ended for
  good.
- `Server`: `WF(Scan)`, the manager's endless loop; `WF` for a monitor task that
  can run, since the runtime polls every ready task; `WF(Register)`, since a
  wrapper's loop reads the first message of a connection. None for devices.
- `Viewer`: `WF(ServerStep)` and `WF(ViewerStep)`: both loops read their sockets.
  `AttachEnds` says that this is enough, whatever sessions and user do.
- `Attach`: `WF(WrapperStep)`, the wrapper's loop polls all its connections, and
  `WF` for a client that reads its greeting or a message. None for users, the
  program, or other viewers.
- `Sockets`: `WF(CleanerStep)`, a cleanup that has begun is sequential code, and
  `WF(Ages)`, time passes. That servers are started again and again is a premise of
  `StaleGone`, and so is that the pid stays free; nothing else is fair.
- `Mirror`, `HostView`: none, they are checked for safety only.
- `History`: `WF` for a request whose limit is not zero, of a client that is
  paging: a client that stops, or asks for nothing, is not promised an end.

## What is proved

For every value of the constants that satisfies each module's named assumption:

| theorem | says | argument |
|---|---|---|
| `SessionProofs!TypeCorrect` | `[]TypeOK` | inductive as it stands; `RefreshTypes` for the view decision, then one lemma per group of actions |
| `SessionProofs!ViewersStayInSync` | `[]StreamsInSync` | `SyncInv`, below |
| `SessionProofs!ChildStaysModelSize` | `[]ChildHasModelSize` | the same invariant |
| `SessionProofs!HostSlotIsExclusive` | `[]OneHost` | `TypeOK /\ OneHost` is inductive: a claim leaves at most the claimant, everything else only shrinks the set of holders (`NoNewHost`) |
| `SessionProofs!TitleReachesEveryone` | `[]TitleKnown` | strengthened to hold inside the sweep too, for whoever is not marked dead: a failed send marks the client, and only the sweep, which closes it, takes the mark away |
| `SessionProofs!FlipsReachEveryone` | `FlipReachesEveryone` | no invariant is needed: only a sweep changes `hostAttached`, and whoever it cannot tell it closes |
| `SessionProofs!ViewFollowsViewers` | `[]RealViewIffViewing` | `ViewInv`: the same in every state before the session's end, and only a headless session has clients with the host role |
| `SessionProofs!SizeFollowsPrecedence` | `[]SizePrecedence` | from what `refresh_view` computes for any viewers, ranks and sizes |
| `TimerProofs!BellsAreDebounced` | `[]BellSpacing` | strengthened by: no Bell message is later than `lastSent` |
| `TimerProofs!LatestBellIsKept` | `[]BellAccounted` | strengthened by: without a monitor no bell is owed |
| `TimerProofs!ActivityIsFresh` | `[]ActivityFresh` | `LimiterInv`: nothing is stamped in the future, and a report made since the monitor was classified went to it |
| `TimerProofs!QueueTypeCorrect` | `[]QueueTypeOK` | `Split` makes chunks whose pauses are clamped |
| `TimerProofs!StrandedOnlyByFailure` | `[]TimerArmed` | strengthened by what holds inside `pump` and its write: a deadline is set only for a queued head, and what ends a `pump` with chunks queued and no deadline is a failed write |
| `TimerProofs!PausesPass` | `PausesRespected` | `PauseInv`, below |
| `ServerProofs!BudgetIsExact` | `[]BudgetExact` | strengthened by the type of `dev` and the limit: four steps move one connection into or out of the counted set, the others leave both alone |
| `ServerProofs!RegistryIsCurrent` | `[]RegistryCurrent` | `WireInv`, below |
| `ServerProofs!RevocationIsPending` | `[]RevocationPending` | `FeedInv`, below |
| `ServerProofs!ToldIsCurrent` | `[]ToldCurrent` | `FeedInv`, below |
| `ScrollbackProofs!PagesAlwaysJoin` | `[]PagesJoin` | `PagingInv`, below |
| `ScrollbackProofs!NothingIsMissed` | `[]NothingRetainedIsMissed` | `PagingInv`, below |
| `ViewerProofs!StreamsLead` | `[]ViewerInv` | the inductive invariant of the next two, below |
| `ViewerProofs!LiveShowsSession` | `[]LiveInStep` | `ViewerInv`, below |
| `ViewerProofs!HistoryMeetsScreen` | `[]SpliceExact` | `ViewerInv`, below |
| `AttachProofs!StreamIsGapless` | `[]Gapless` | `AttachInv`, below |
| `AttachProofs!EndingsAreTrue` | `[]EndingTrue` | `AttachInv`, below |
| `ScrollbackProofs!CaptureImplementsScrollback` | `Spec => Scrollback!Spec` | strengthened by: no archived line is among the `NewRows` newest ones, so a harvest appends only later lines |
| `ScrollbackProofs!NothingIsForgotten` | `[]NothingForgotten` | strengthened to an exact count, below |
| `HostViewProofs!RegionShowsScreen` | `[]HostShowsModel` | `ScreensAgree`, below |
| `HostViewProofs!ScrollbackAccumulates` | `[]HostScrollback` | `ScrollbackInv`, below |
| `SocketsProofs!SocketsAreKept` | `[]LiveSocketKept` | strengthened by: living wrappers have different pids, and a name that is about to be removed belongs to no living wrapper born before the look at its pid |
| `SocketsProofs!LaunchesReportTruly` | `[]LaunchTrue` | strengthened by who may have bound the file that a launch looks for: its child, or somebody before it was born |
| `TimerProofs!ImplementsStream` | `Spec => InputStream!Spec` | `OrderInv`: the range being written and the queue together are always a chain from the first byte whose turn has not come to `sent`, without gap; a write, failed or not, moves that frontier over its whole range |

`ViewersStayInSync` is the central one. `StreamsInSync` is not inductive: a
message handler calls `refresh_view` for everyone who is viewing, which restores
the property only if no dead client is still among them. The strengthening
`SyncInv` adds that nobody is marked dead except while a sweep is about to run,
and that the pty has the model's size. `RefreshInStep` then says what
`refresh_view` does for any set of viewers, any dimensions and any failed sends:
whoever could be sent to shows the model, and whoever a rebuild at unchanged
dimensions passed over showed it before and has at most drifted.

`NothingIsForgotten` rests on `StagingPremise`, which guards `Scroll` in the model:
fewer lines than the staging buffer holds wait for a harvest. The buffer's own
length is no count once it is full, so the invariant says when the code relies on
which: with the offset parked, the offset counts; without, the buffer was empty
when the slice or the stay on the alternate screen began, and its length counts.
Then the archive and what a rebuild threw away are always all lines but the
newest `New` ones, and on the primary screen between slices `New` is zero.

The three theorems about what the server knows follow a title along its way: from
the wrapper over the wire to the registry (`WireInv`), and from the registry through
a device's queue to what the device was told (`FeedInv`). Neither property is
inductive, because each speaks of an empty wire or an empty queue only. The
invariants say the same of every wire and every queue: the latest title in it is
the latest at its source, and with no title in it source and destination agree.
`LatestIs`, `Has` and the lemmas about sending and taking (`Sending`, `Taking`)
are stated once for both. `WireInv` also says that the greeting, which alone carries
the directory, is the first line or gone; `FeedInv` that a device which may not see
its terminal has an event of it to read, which covers a dial during which the filter
changes its mind because `opening` counts like `session`. What excuses a device
from all this is exactly what the properties except.

`ScreensAgree` is what `render_rows` relies on when it draws a diff: while a device
views, the region shows what fits of the shadow, and the shadow is the model. It
needs the heights to be right, that is that the model has the view's height, or the
host's without a view, and that no scroll, deletion, crop or resize changes the
number of rows of the terminal; each operator on the terminal has a lemma that says
so for any rows and heights. While a resize waits to be handled only the heights are
kept, and the repaint that handles it restores the rest (`ScreenShown`). A full repaint then shows the region whatever stood
there (`RenderFullShows`), and a diff does if the region showed the shadow
(`RenderDiffShows`).

`ScrollbackInv` follows the mirrored lines on the host. `Carried(m, l, t)` says that
the lines of `m` that are neither blank nor in `l` have places in `t`, in the same
order. `HostScrollback` finds them in the scrollback and the zone together; the
invariant is sharper where the code relies on it: a zone that is not dirty holds none
of them, so that the scrollback alone has them all (`HostLog`). Without that, the
resize of a clean zone, which is painted over and not pushed, would lose lines. What an
operation of the terminal does to scrollback and zone is stated by what the
scrollback and the first k rows are, taken together (`Upto`): newlines move the
border and change nothing else (`NewlinesLog`), deleted lines and repaints leave them
alone, flowing text goes behind the rows above it (`FlowLog`). From these follow that
what the archive retains of a batch leaves the region as a whole, but for the last
line after a wide one (`BatchGoes`, for every size of the batch, the region and the
view; `ScrolledLog` when the text is at least as long as what is scrolled out,
`ShortLog` when the limit has made it shorter), and that a host
that grows or shrinks keeps the pieces in their order (`ShrunkLog`, `GrownLog`). Four
lemmas say when lines stay carried: when something follows (`CarriedOn`), comes
between (`CarriedAround`), when what is cut off was excepted (`CarriedBefore`), and
when a batch is added (`CarriedLines`). What is drawn while a resize waits adds to the
scrollback and excepts the zone (`DelayedKeeps`). That lines which have places are found by the
search of `Keeps`, which takes the first place for each, is proved by induction on
the lines (`CarriedIsKept`).

`PagingInv` says of a client that is paging that its next page ends where what it
holds begins, and of one that has stopped that nothing older is retained. Eviction
only raises `oldest`, so it keeps both. How many lines a reply holds is a sum over
sizes, which the provers cannot compute; the proof needs only that it is one of the
numbers the limit and the archive allow (`StartInRange`), and at least one when
there is anything to return. That the largest such number exists is proved from the
well-foundedness of `<` (`LargestExists`). `PagingInv`, like the invariants of
`Server` and `Reports`, was checked by TLC before it was proved.

`PauseInv` carries the pauses through the queue. It says that there are numbers
`sure[0]`, `sure[1]`, ..., the ticks that are sure to have passed since the last byte
when so many chunks have been taken: each chunk adds at most its own pause, one with
bytes starts anew at 0, and what is owed before its first byte is no more than what
is sure in front of it (`Passes`). `sure[0]` has passed already, and with the head's
pause it will have passed when the timer expires, however late that is noticed
(`Passed`); `gap` stops at `MaxGap`, which no byte is ever owed more than
(`OwedFacts`). Taking the head moves the numbers up by one, a tick only adds to what
has passed. The work is in `Input`: that the chunks of a message, whose delays may
share an offset, stand at its start or end or be cut to the cap, add up to what is
owed before each byte, that of the message before included (`SureAdds`,
`SureSuffices`, `SureAtEnd`), and that a new message changes nothing of what is owed
before the bytes that are queued (`LogGrows`). A pause is a sum over the delays of a
message, a recursive function, of which the proof needs only that delays at other
offsets add nothing (`NoneBefore`, `NoneAfter`). TLC checked `PauseInv` first, on the
instance of `input_queue`.

`AttachInv` is about the messages that are on their way between a client and the
wrapper, which can be any number in both directions. `Path(R, q, a, b)` says that
the messages of the queue `q`, one after the other, take a number from `a` to `b`,
each changing it as `R` allows, and lemmas about `Append`, `Tail` and the empty
queue (`PathAppend`, `PathHead`, `PathEmpty`) keep it without induction. Two numbers
are followed. Along `Shown`, what is on its way to the client takes its screen, or
the snapshot and output that it keeps while fetching, to the wrapper's last output
(`StreamInv`). Along `Asked`, the replies and then the requests on their way bring
the replies that a client still waits for, `skip` and one, down to zero, and only
the last of them is about the snapshot it holds (`RepliesInv`); a new snapshot moves
every number on this path up by one (`PathShift`), which is just what counting all
earlier replies as stale must do. For the endings, each last word on its way is
true, and an end without a last word before it is one that the wrapper did not
explain (`WordsInv`). The invariant is one client's at a time, so the proof goes
by what a step does to one client (`Effect`): most steps leave most clients alone.
TLC checked the invariant first, on two clients.

`ViewerInv` is of the same kind, for the device viewer and the server's relay. A
state says which session a device is attached to, the last output it was shown of it,
and how many answers to the current attach are still to come. The messages in
`down`, one after the other, take the device from what the viewer has made of
those before them (`ShownBy`) to a state that is how things are at the server
(`Current`), and the requests in `up` bring the answers to wait for to an end, with
only the last of them about the snapshot that the viewer holds (`StreamInv`).
`ViewInv` adds that a viewer past the greeting has been given its view or will be,
unless a `disconnect` comes first: this is why a terminal that goes live hears of its
session's output. The answers are counted down from the greeting to the history
reply; a snapshot that replaces another one during the fetch makes one more stale,
and moves every count by one (`OneMoreFacts`, `PathMap`); an error, or an attach that
overtakes an earlier one, ends the counting (`Nil`), which is what `SpliceExact`
excepts with `overtaken`.

Induction. The library's induction theorems take an operator as a parameter and
cannot be used here. Where a proof needs induction over the natural numbers
(`CountingUp`, in `TimerProofs`, `ViewerProofs` and `HostViewProofs`), the claim is
made a set: a set that holds 0, and with a number below the bound also the next, holds
all numbers up to the bound, since otherwise the least number that is missing
(`WFMin`) has no predecessor. So is the existence of what a recursive function
defines (`SumFacts`).

Liveness (`SweepEnds`, `HeldBellReported`, `EveryByteWritten`, `PagingEnds`,
`RegistrySettles`, `AttachEnds`, `AttachSettles`, `StaleGone`) is left to TLC:
it rests on fairness, and so on `ENABLED`, which the prover does not handle. Every
safety property of the runs that pass is also stated by a theorem.

## What is not modelled

- How a row is written as escape sequences, the cursor, columns and modes; what
  the host shows of an alternate screen.
- The host's own keystrokes. They are written to the pty directly, past input
  that a pause holds back (main.rs 506-522).
- `drain_pty` after the program's exit, apart from its end: the session closes.
- JSON, base64, argument parsing, raw mode, configuration files and the
  compiling of filter patterns.
- In the server: the checks of a launch request (the launch itself, a child
  process and a poll for its socket, is in `Sockets`), the keepalive ping, the
  refusal of input for read-only tokens, which changes no state. A device that
  is sent something and has gone is `Hangup`.
- In the viewer: how the list is drawn and kept up to date, Ctrl+L and SIGWINCH,
  several Enters in one read.
- In the attach client: the list of sessions and the choice in it, terminal
  set-up, and how the detach key is filtered out of the input.
- `enclosing_session` (one look at one file), and the raw-mode guard
  (`raw_guard.rs`): terminal settings saved and restored.

## Plan

Next, in this order:

1. In `Viewer` and `Attach`, an archive that is trimmed, so that `history_oldest`
   matters; what the two splices share becomes a module of its own.
2. The alternate screen in `HostView`, and `Mirror` and `HostView` composed, so
   that what the host keeps is compared with what the archive keeps.
3. Several devices in `Server` that view one session with different filters.

Then the proofs of what these add.
