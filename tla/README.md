# Verification of meetino

meetino is a video-meeting application: a NestJS API (`src/apps/api`) with Postgres (Prisma)
and Redis, a Next.js client (`src/apps/web`), shared wire types (`src/packages/shared`), and
LiveKit for the media.  One API process serves everything.  It has no tests of its own.  Its
difficulty lies in the state several actors share: the Redis presence hash, the Postgres rows of
meetings and participants, the in-memory whiteboard buffer, files on a disk beside their rows, the
refresh cookie all tabs of a browser share, and the copies of all of them the pages keep; and, in
one page, in the devices, connections and recorders that outlive the render that asked for them.
No handler holds a lock or a transaction over what it reads and then writes, so every `await`, in
the server and in the browser, is a place where something else may come in between.  That is what
the modules here are about.

* [Inventory](#inventory)
* [Modules](#modules) and their correspondence to the code
* [Runs](#runs), bounds, fairness
* [Finding](#finding)
* [Where the code does not keep its word](#where-the-code-does-not-keep-its-word)
* [Proofs](#proofs)
* [What is not modelled](#what-is-not-modelled)
* [Plan](#plan)

Paths below are relative to `src/apps/api/src/modules/` for the API and `src/apps/web/src/` for
the web client.

## Inventory

| Component | State | Operations | Talks to |
|---|---|---|---|
| Presence (`realtime/services/presence.service.ts`) | Redis hash `room:<slug>`: per participant `connectionCount`, media flags, `lastSeenAt`; TTL 12 h | addConnection, removeConnection, forgetParticipant, setMediaFlag, listParticipants | Redis (one connection, commands in order) |
| Gateway (`realtime/meeting.gateway.ts`, `services/socket-auth.service.ts`) | `socket.data` (`inRoom`), socket.io room membership | handshake, disconnect, join, leave, mic/camera toggle, whiteboard op/clear/snapshot, broadcasts for HTTP | Presence, Whiteboard, Meetings |
| Whiteboard persistence (`realtime/services/whiteboard.service.ts`) | buffer and flush timer per meeting, row `whiteboard_snapshots` | recordOp, flush, clear, getSnapshot | Postgres |
| Whiteboard in the room (`hooks/useWhiteboard.ts`, `components/meeting/whiteboard/`) | operations, undo and redo stacks, isReady | open, close, draw, undo, redo, clear, snapshot | the gateway |
| Meetings (`meetings/meetings.service.ts`) | rows `meetings`, `meeting_participants` | create, joinAsRegistered, joinAsGuest, touchActivity, recordParticipantLeft | Postgres, called by HTTP and by the gateway |
| Host actions (`meetings/services/host-actions.service.ts`) | the same rows | lock, unlock, setPassword, clearPassword, end, kick | Presence, LiveKit, gateway broadcasts |
| Auto-end (`meetings/services/auto-end.service.ts`) | the same rows; a cron job every minute | sweep, endMeeting | Presence, LiveKit, gateway |
| Rejoin requests (`meetings/services/rejoin-requests.service.ts`, `KickedRejoinScreen`, `RejoinRequestsToast`) | rows `rejoin_requests`, `wasKicked`; screen and cards | createRequest, approve, reject, findPendingRequestId, polling | Postgres, gateway |
| Chat (`chat/`, `ChatPanel`) | rows `chat_messages`; list, error, badge | send, history, broadcast | Postgres, gateway |
| Files (`files/`, `hooks/useMeetingFiles.ts`, `components/meeting/files/`) | rows `meeting_files`, files on disk; list, dialog, preview | upload, list, download, delete | disk, Postgres, gateway |
| Auth (`auth/`, `lib/api-client.ts`, `stores/auth-store.ts`, `middleware.ts`) | rows `refresh_tokens`, cookie, access token of each tab | register, login, refresh (rotation), logout, bootstrap | Postgres, cookies |
| Room page (`app/m/[slug]/room/page.tsx`, `hooks/useMeetingSocket.ts`) | loaded meeting, flags of the broadcasts, socket | load, leave, eject, reload, host controls | HTTP, gateway, the hooks below |
| LiveKit client (`hooks/useLivekitRoom.ts`) and API (`livekit/`) | connection, published devices | token, connect, first media, switches, leave; remove, delete room | an external server |
| Camera effects (`hooks/useCameraEffects.ts`) | effect, picture, processor of the track | choose, apply, load the processors | LiveKit track |
| Prejoin page (`app/m/[slug]/prejoin/page.tsx`, `hooks/useMediaPreview.ts`) | switches, preview stream, localStorage | switch, join | getUserMedia, HTTP |
| Recorder (`hooks/useLocalRecorder.ts`) | MediaRecorder, chunks, three streams | start, stop, finalize, cleanup | browser |
| Reports (`meetings/services/meeting-reports.service.ts`) | none | read-only aggregation | Postgres |

What is hard about each of them, and the properties that make it correct:

* **Presence and gateway.**  Every operation is a read-modify-write of one JSON field over two
  or three Redis round trips.  Two tabs of one participant, a reload (old connection closing
  while the new one joins), `meeting:leave` with the disconnect right behind it, and a kick from
  HTTP all touch the same field.  Correct: the count equals the open sockets, no ghost keeps a
  meeting alive, the incremental broadcasts add up to the list a late joiner gets.
* **Whiteboard.**  A flush reads, merges in memory and upserts; timer, full buffer and snapshot
  requests can start flushes, a clear can fall in the middle, a failed flush pushes back; in the
  page a snapshot replaces what was drawn, undone and cleared meanwhile.  Correct: one ordered
  list, nothing lost, doubled or revived, snapshots complete, pages agree.
* **Meetings, host actions, auto-end.**  Status, `startedAt`, lock and attendance are computed
  from rows read several awaits earlier.  Correct: attendance is credited once and bounded by
  the wall clock, an ended meeting has no open session, a live one has `startedAt`, locks and
  kicks hold, an abandoned meeting is ended.
* **Rejoin.**  Request coalescing is find-then-create; a decision is two statements; the kicked
  client only polls.  Correct: a decision is taken once, nobody is turned away before it, and who
  waits learns of it.
* **Chat and files.**  HTTP answers race broadcasts; a file is in two stores.  Correct: lists show
  what is persisted and miss nothing they attended, badges count, senders are answered, rows have
  bytes.
* **Auth.**  Refresh rotation is find, check, revoke, create; tabs share the cookie.  Correct: the
  browser's cookie stays good for a session, and no request is retried for ever.
* **Room page and recorder.**  Broadcasts change what was loaded; the socket, the LiveKit connection
  and the recorder are torn down by unmounting, leaving, a kick, the end.  Correct: the page shows
  the rows, no call goes on behind an end screen, no capture after a recording, recordings are whole.
* **Prejoin, LiveKit, effects.**  Requests to the browser are answered late and out of order.
  Correct: what captures is what the switches show, a muted device stays muted, the camera looks as
  the menu says.

`PROJECT.json` lists the hazards line by line with the properties that cover them.

## Modules

| Module | Models | Uses |
|---|---|---|
| `Presence` | PresenceService, the gateway's presence handlers, kick's part in Redis, each client's roster | |
| `BoardLog` | abstract: a whiteboard is one list of operations | |
| `Whiteboard` | MeetingWhiteboardService | `BoardLog` (refinement) |
| `BoardRoom` | the gateway's whiteboard handlers and every page's board, over one abstract list | |
| `Meetings` | MeetingsService, HostActionsService, AutoEndService, HostAuthzService, on Postgres | |
| `Rejoin` | RejoinRequestsService, the kicked tabs, the hosts' cards | |
| `Chat` | ChatGateway, ChatService, lists, panel and badge of the pages | |
| `Files` | FilesService on its two stores, lists, dialogs and previews of the pages | |
| `Session` | AuthService, api-client, store, bootstrap, layout, middleware | |
| `Recorder` | useLocalRecorder and its button | |
| `RoomPage` | the room page with socket, LiveKit connection and recorder | `Recorder` (EXTENDS) |
| `Prejoin` | the prejoin page and useMediaPreview | |
| `Media` | devices in the room and camera effects, after the prejoin page | `Prejoin` (EXTENDS) |
| `MC...` | one instance of each of them for TLC | |
| `...Proofs` | see [Proofs](#proofs) | the module they are named after |

### Presence

| Variable | Code |
|---|---|
| `row[p]` | the Redis hash field of participant `p` (`connectionCount`, flags), or None |
| `conn[s]` | the life of connection `s`: new, connected, joined, leaving, left, closed, dropped |
| `inRoom[s]` | `socket.data.inRoom`, and membership of the socket.io room |
| `kicked[p]` | `meetingParticipant.wasKicked` |
| `removing` | kicks that wait for LiveKit, before `broadcastKicked` |
| `pipe` | Redis commands issued and not answered, oldest first, each with its handler's stack |
| `view[s]` | the roster `useMeetingSocket` keeps at the other end of `s` |

The process has one Redis connection, so commands run and are answered in the order in which
they were issued.  An action of a user or of the network (`Connect`, `Join`, `JoinAgain`, `Leave`,
`Disconnect`, `Toggle`, `Kick`, `FinishKick`, `KickAgain`, `Approve`) runs a handler up to its
first Redis command, which it appends to `pipe`; a reply (`ReadRow`, `ReadNothing`, `WriteRow`,
`LeaveForgot`, `KickForgot`, `JoinDone`, `DisconnectDone`, `ToggleDone`, `SendRoster`) takes the
head of `pipe`, executes it, and runs its handler up to the next await, with the broadcasts it
emits on the way.  socket.io keeps the order of messages to a client, and nothing a client does
depends on when it gets them, so a broadcast changes `view` at once.

`Overlap` is the one switch: FALSE means that a new handler for `p` starts only when no other is
between its HGET and its last reply.  The comment on the service calls such overlaps rare; no
code prevents them.  The serial run says what the handlers do right, the overlapping one what
survives.

`Crash` is the death and restart of the process: connections, handlers and commands are gone,
Redis and Postgres are not.  It only exists in `CrashSpec`.

Left out: display names and roles in a row, `lastSeenAt`, the TTL, payload validation.

### Whiteboard

`buffer` and `timer` are the two maps of the service for one meeting, `row` the Postgres row,
`task[t]` a call waiting for Postgres in one of the `Slots`: a flush before its findUnique
("reading") or its upsert ("writing"), a clear ("wiping"), a snapshot request ("loading",
"sending").  `RecordQueued` and `RecordFlushed` are the two outcomes of `recordOp`, `TimerFires`
the timer's callback, `Clear` and `Request` the calls of the gateway up to their first await,
`FlushRead`, `FlushWrite`, `Wipe`, `Load`, `Send` the answers, `FlushFails`, `WipeFails`,
`LoadFails` the catch blocks.  `recorded` and `owed` are history: what a board should hold, and
what it held when a snapshot was asked for.

`BoardLog` is the promise: a list to which operations are added at the end, which a clear
empties, and of which only operations older than the newest `Keep` may go.  A clear is in force at
once (the buffer is dropped, the clients are told) but its statement may be refused: `erased` is
what is back then.  The refinement mapping puts together row, flush under way and buffer
(`Stored`); what the row holds during a clear is `Erased`.

### Meetings

`meeting` and `seats` are the Postgres rows, `online` abstracts presence (a seat is online in
Redis or not), `leaving[i]` is a `recordParticipantLeft(i)` in flight, `task[t]` an HTTP call or
sweep in flight with the rows and the time it has read, `now` the clock.  One action per
statement: a join is `JoinAsGuest` or `JoinAsRegistered`, `Lookup`, `Sit`, `Touch`; end and sweep
are `End` or `Sweep` and `AskPresence`, `Refresh`, then `ListOpen`, `CreditOpen`, `Close`,
`Dismiss`; a kick is `Kick`, `ReadTarget`, `WriteKick`, `Drop`; the gates are `SetGate`,
`WriteGate`.  What each writes is computed from what it read, as in the code.  The clock only
orders events and measures sessions; seconds and minutes are one unit.  The touch of the
meeting's clock at the end of `recordParticipantLeft` is taken together with the update before
it, and so is the gateway's `touchActivity` with `Enter` and, when a kick closes a
socket, with `Drop`; no property reads `lastActivityAt` in between.  The handshake and
`meeting:join` are one step here (their separation is in Presence).

`Serial` says whether a call may start while another one waits.  The same action definitions
serve both: serial runs show that each call, with all its steps, clock ticks and gateway events in
between, is right; what overlap does is told below.

### BoardRoom

`board` is the service seen as `BoardLog` (what `Whiteboard` is shown to implement).  `up[c]` are the
messages of page `c` the gateway has not handled, in order; a handler runs whole when its message
is taken (`HandleOp`, `HandleClear`, `HandleAsk`), except that a snapshot is read first (`reading`)
and sent later (`SendSnapshot`).  `open`, `ready`, `view`, `undone`, `mine` are the panel and the state of
`useWhiteboard`; `OpenPanel`, `ClosePanel`, `Draw`, `ClearAll`, `Undo`, `Redo`, `Drop`, `Return` its
effect, its cleanup, its four operations and the socket's events.  `Overlap` lets other messages
be handled between the reading and the sending of a snapshot.  Left out: what a stroke looks like.

### Rejoin

`request` are the participant's rows in order, `kicked` the flag; `screen`, `pendingId` and `call` are
one `KickedRejoinScreen` per tab with the statement its HTTP call has reached (`Submit`, `FindPending`,
`WriteRequest`; `ReadParticipant`, `ReadPending` for a poll); `card` and `act` a host's card and how far
its decision is (`Decide`, `WriteDecision`, `Lift`, or `LiftFails`).

### Chat

`rows` is the table, `handler[m]` how far `onSend` is with message `m` (`Receive`, `Checked`, `Save`,
`Broadcast`, and the two ways to fail), so handlers overtake each other.  Per page: the socket
(`conn`), the one history request (`history`, `answer`), the list, the error, and the panel with
`lastRead` and `unread`.  `gap`, `seen` and `settled` are history.

### Files

`rows` and `disk` are the two stores; `upload[f]` and `delete[p]` say which statement a request has
reached, each of which may fail, or the process may die (`Crash`).  Per page: one hook (`load`, `answer`,
`list`), the delete dialog, and the preview window with its request (`preview`, `fetch`, `blob`).
`torn`, `removed` and `gap` are history.

### Session

`cookie` is the browser's, `revoked` and `parent` the rows of `refresh_tokens`; `access[t]` and `page[t]` a
tab.  `task` holds the requests on their way: a call, its refresh (`Find`, `Revoke`, `Issue`,
`SessionArrives`), its second attempt, a login, a logout.  A request carries the cookie of the moment
it left; an answer sets the cookie when it arrives, or is lost.

### Recorder and RoomPage

`Recorder`: `status` is what the button shows, `call` where `start()` waits, `rec` the MediaRecorder, `due`
its pending stop event, `held` the live streams, `chunks` and `files` what was recorded and saved.
`RoomPage` puts it into the page: `server` are the rows, `data` what was loaded, `rt` what the broadcasts
said, `sock` and `lk` the two connections, `zombie` a cancelled LiveKit connect that is not undone
yet, `exit` the way out.  The host's locks, kicks and the end are the environment.

### Prejoin and Media

`want` are the two switches, `wants[n]` and `asked` the calls of getUserMedia, `stream` and `live` the
stream of the state and those that capture, `joinWith` the switches as the join handler's closure
holds them.  In the room: `intent` what was read from localStorage, `lk` the connection, `calls[k]` the
pending calls for a device, `dev` what is published, `muted` history; `effect`, `image`, `loads`, `swaps`
and `attached` the menu, the runs of the effect and the processor on the track.  LiveKit is
taken to carry out the calls for one device, and for one track, in order.

## Runs

| Run | Instance | Checks | Distinct states |
|---|---|---|---|
| `presence_serial` | `Spec`, Overlap FALSE | `TypeOK NoGhost CountExact RostersConverge` | 1,300,024 |
| `presence_crash` | `CrashSpec`, Overlap TRUE | `CountBounded` | 1,287,054 |
| `whiteboard_serial` | Serial TRUE, any statement may be refused, twice | `NothingLost NoneTwice SnapshotComplete ImplementsBoard EventuallyPersisted` | 73,859 |
| `meetings_serial` | Serial TRUE | `OneSeatEach EndedIsClosed AttendanceBounded KickedIsOut ClockRight LockHolds EndIsFinal AbandonedEnds` | 367,016 |
| `room_page` | one page, two recordings | `NothingCaptured MirrorsRows NoCallBehind SavedWhole LeaveEnds` | 600,272 |
| `rejoin_tabs` | two tabs, one host page | `DecidedOnce NoHastyRejection PendingIsAnswered` | 115,629 |
| `boardroom_serial` | two pages, Overlap FALSE | `OthersAgree LoadingEnds` | 688,548 |
| `chat_pages` | two pages, two messages | `ShowsPersisted NothingMissed BadgeCounts SentIsAnswered` | 563,284 |
| `session_tabs` | two tabs | `CookieLives CallEnds` | 501,263 |
| `files_share` | two pages, a host's among them | `RowsHaveBytes ListsFollow PreviewShowsItsFile` | 1,041,494 |
| `media_devices` | one person, both devices | `CapturesWhatIsShown MutedStaysMuted EffectFollows` | 3,501,029 |
| `media_switches` | the same | `OffStaysOff` | violated |

What the passing runs show:

* **presence_serial.**  With two tabs of one participant and one of another, kicks, leaves,
  reloads and toggles in any order: `NoGhost`, a row never counts a socket that is not in the room
  (or auto-end would never reap the meeting); `CountExact`, tabs that are only ever closed are
  counted exactly; `RostersConverge`, what the clients put together from joined, left, patched and
  listed events is what Redis holds, the flags included.
* **presence_crash.**  With lost updates, stale write-backs and restarts of the process, a count is
  still never inflated: no row counts more connections than its participant ever opened
  (`CountBounded`).  After a crash the counts of dead sockets stay in Redis; only the TTL or a
  `meeting:leave` removes them.
* **whiteboard_serial.**  One call at a time, with refused reads, writes, clears and loads: the service refines
  `BoardLog`; a retry after a failed flush neither loses nor reorders (`NothingLost`)
  nor doubles (`NoneTwice`); unless
  something was refused, a snapshot holds everything that was on the board when it was asked for
  and what is buffered reaches the row.  `EventuallyPersisted` stops at the first refusal because
  the code does: pushed-back operations get no timer and wait for the next operation or request.
* **meetings_serial.**  `EndedIsClosed` and `AttendanceBounded` cross leave, kick, end and sweep
  with the clock: no session is credited twice, and none is open when the meeting has ended.
  `AbandonedEnds` is liveness: a live meeting that is empty, old and idle is ended or becomes
  active again.  `EndIsFinal`: once the meeting has ended, no late leave, kick or approval changes its
  participants, its duration or a credited time, which is what the attendance report adds up.
  `ClockRight` (`LiveHasStarted`, `DurationMatches`), `KickedIsOut`, `LockHolds`, `OneSeatEach` are
  the promises of the schema and of the service's comments.
* **room_page.**  Whatever the host does and whenever the page is left: the page that missed no
  broadcast shows what the rows say (`MirrorsRows`), there is no socket, no LiveKit connection and no
  half-made one behind an end screen (`NoCallBehind`), and a recording that was stopped is saved whole
  and releases screen and microphone (`SavedWhole`, `NothingCaptured`).  `LeaveEnds`: leaving waits for
  the file and never for ever.
* **rejoin_tabs.**  With two tabs that submit, reload and poll while the host decides and kicks again: a
  decision is never replaced by another (`DecidedOnce`, with one host page), a waiting tab is told of
  a rejection only about a request that was decided (`NoHastyRejection`), and once all requests are
  decided no tab goes on waiting (`PendingIsAnswered`).
* **boardroom_serial.**  While pages draw, undo, redo, clear, close, reopen and lose connections, when
  all is quiet an open, synchronised page shows exactly what the others have on the board, in order
  (`OthersAgree`); a snapshot that was asked for comes (`LoadingEnds`).
* **chat_pages.**  With handlers that overtake each other, reconnections, and a history answered at any
  moment: a list holds persisted messages, each once (`ShowsPersisted`); what a page does not show was
  broadcast while it was away or waiting for its history (`NothingMissed`); the badge of a closed
  panel is the number of messages since it was last open (`BadgeCounts`); a message that left the form
  shows up or is answered with an error (`SentIsAnswered`), with two exceptions the property names.
* **session_tabs.**  Refreshes, logins and logouts of two tabs in any order, with answers lost: the
  cookie in the browser is never one that was exchanged or revoked, except while the answer that
  replaces it is on its way or after that answer was lost (`CookieLives`); no call goes round
  between 401 and refresh for ever (`CallEnds`).
* **files_share.**  Row and bytes differ only in the middle of a request, or where a failure or a crash
  cut one short (`RowsHaveBytes`); lists follow the broadcasts they attended (`ListsFollow`); the
  preview shows the bytes of the file in its title or none (`PreviewShowsItsFile`).
* **media_devices.**  No replaced stream goes on capturing (`CapturesWhatIsShown`); reconnections do not
  reopen a device somebody turned off (`MutedStaysMuted`); when the runs of the effect are over, the
  camera looks as the menu says, however they overtook each other (`EffectFollows`).

Each property of a passing run has a mutant in `PROJECT.json`: a small, plausible bug in one
definition (written next to it as `<name>_<bug>`), under which that run fails.

### Bounds

* Presence: three connections, two tabs of one participant and one of another, one media flag
  (flags are independent of each other), `MaxPending` 2.  Two handlers of one participant with
  interleaved HGET and HSET is the smallest lost update, and a third party is needed to see a
  roster.  Each connection is used once, so a reload is a second connection.  `MaxPending` only
  delays new events; what handlers issue themselves is never held back.  Three tabs of one
  participant and one of another pass the serial run as well (2.6 million states); with overlaps,
  three tabs are what it takes to leave somebody on a roster for good (below).  `CrashSpec` without
  overlaps and kicks keeps `RostersConverge` too (129,356 states; proved below): the counts of dead sockets are
  wrong for everybody in the same way.
* Whiteboard: four operations, buffer limit 3 and snapshot limit 3, so that the timer, the full
  buffer and the trimming all occur; two refusals; `MaxRevision` bounds clears.  Operations are
  recorded at most once each: a page emits one when it is drawn, and redo emits nothing.
* Meetings: one host, one student or guest, two seats, a clock to 2, one call at a time.
  `MinDuration` 0 and `IdleGrace` 1 let a meeting become abandoned within the clock's bound; an
  instance with `MaxTime` 3 and `MinDuration` 1 (1.7 million states) passes as well.  Locked and
  unlocked is the only gate in the run; the password acts at the same place.
* RoomPage: one lock or unlock, two recordings (one that ends and one after it), one chunk before the
  last.  Everything else is bounded by itself: a page is loaded once, and kick and end are final.
* Rejoin: three requests and one more kick: a request rejected and made again, one approved, and one
  after the next kick.  Two tabs are what makes a request be reused or doubled.
* BoardRoom: two operations and one clear, one message of each page on its way, two pages: a page's
  own operation, another's, and a clear that races both.
* Chat: two messages, a history of one, so that the history is shorter than the table.
* Session: four tokens: a login, two rotations and one of the other tab; one request per tab at a
  time, two tabs, so two requests overtake each other.
* Files: one file, as requests about different files share nothing but the list they are in; two
  crashes or lost connections, three openings of a panel, two previews.
* Media: one turn of a switch, three clicks, one interruption, one picture: apply, change and change
  back.
* `CHECK_DEADLOCK FALSE`: connections, operations, pages and time are used up, and then the system
  may stop.

### Fairness

Redis answers and LiveKit answers or fails (weak fairness of `Reply` and `FinishKick`), timers
fire and Postgres answers (weak fairness of `TimerFires` and of each slot's `Answer`); refusals,
clicks, drawings and disconnects are never required.  The cron job runs every minute whatever
else goes on: in the serial model a sweep waits for other calls, so `Sweep` gets strong fairness
in place of the free slot it has in reality.  In `RoomPage` a stopped MediaRecorder delivers its
stop event; in `Rejoin` polls are made every five seconds and calls answered; in `BoardRoom` and
`Chat` the gateway handles what it was sent and answers; in `Session` a request is answered or
fails.  No user is required to do anything.

## Finding

`media_switches`: `persistMediaIntent` (`app/m/[slug]/prejoin/page.tsx:113`) is called after the join
request was answered, with the switches of the render in which join was clicked.  A switch turned
off while the request was on its way has been stored by then, and is overwritten; the room reads
the stored values and turns the device on.  The comment at line 110 says that what is flipped off
there stays off after the join.

## Where the code does not keep its word

The properties named here are in the modules and are not part of a run: the code breaks them.

Presence and meetings:

* `meeting:leave` in one tab deletes the participant's whole row (`realtime/meeting.gateway.ts:217`)
  although another tab is in the room; `packages/shared/src/types/realtime.ts:34` says online means
  at least one open socket (`OnlineWhileOpen`).
* Only the handshake looks at `wasKicked`: a socket that connected before the kick and joins after it
  is counted online (`KickedStaysOut`; `socket-auth.service.ts:54`).
* A socket that closes while its join is handled is not `inRoom` yet; its disconnect is ignored and the
  join counts a connection that no longer exists (`LastSocketOffline`).
* With overlaps a client can be left with somebody on its roster whom Redis holds offline: two tabs join
  at once and one increment is lost; one of them closes, and the count is 0; a third tab joins while
  the second closes, both read 0, the disconnect writes last and says that nobody went offline, and
  the join's announcement stands.  Three tabs and a client of another participant are needed.
* The process dies in a kick, between `wasKicked` and `forgetParticipant`: the row stays online in
  Redis (`host-actions.service.ts:220`).  Kicking again takes the participant off the rosters of those
  who are there (`broadcastKicked`), while whoever joins later is still sent the row as online.
* Two flushes read the same row and the second upsert erases the first one's operations, although
  `whiteboard.service.ts:20` says that persists serialize (`PersistsSerialize`); a clear between a
  flush's read and write is undone by it.
* A disconnect closes the attendance session and a reconnect over the gateway opens none
  (`OnlineIsCredited`; `schema.prisma:141`, `meetings.service.ts:280`).
* With two calls at a time, a join that read the meeting before it went live writes its null
  `startedAt` over the stamp, and such a meeting is never auto-ended; two joins create two seats; a
  session is credited twice; somebody joins between the sweep's check and its update.

The room page and its recorder:

* Unmounting or a kick while `start()` waits at the screen picker or the microphone: the capture begins
  afterwards and nothing stops it.
* A second click on leave, or the answer to the host's own "end", unmounts the page before the file is
  finished (`LeaveWaits`); after a recorder error the stop event saves only the tail.
* A page that loaded a locked meeting shows it as locked after it was unlocked.  A lock, kick or end
  broadcast while the page was disconnected is never sent again, and the handshake does not look at
  ENDED (`OpenSocketKnows`).  A reconnect uses the access token the page had when it opened the
  socket and is refused for good after its fifteen minutes.
* `myRejoinDecision` cannot reach a kicked page, which has no socket.

Rejoin: between the two statements of an approval a poll shows "rejected" (`RejectionIsReal`); if the
second fails the participant stays kicked with an approved request; two host pages can decide one
request differently; two tabs can create two pending rows; a host's reload loses its cards.

Whiteboard in the room: a board opened while disconnected loads for ever, as only an open socket asks
(`useWhiteboard.ts:105`); operations broadcast while disconnected are not fetched again; redo after
reopening draws twice or revives what was cleared; one's own operations may be ordered differently
in one's own view, or be missing after a racing clear; if a snapshot is read while other messages are
handled, it erases what arrived meanwhile.

Chat: the query at `chat.gateway.ts:94` is outside the `try`, so its failure is told to nobody; the
history answer replaces live messages; messages of a disconnection are not fetched again; a message
sent between connect and the end of JOIN is refused although the draft is gone; before the history
has come, the badge counts all of it.

Files: a list answer replaces broadcasts and can revive a deleted file, and so can a deletion
announced before the upload's own broadcast; a failed row delete leaves a row without bytes, a crash
bytes without a row; the badge is silent after a deletion; the mobile panel lacks the props that
decide who may delete.

Sessions: of two calls that get a 401 at once one refresh is refused, and the page is logged out
though the cookie is good; one token can be exchanged twice; a network failure during a refresh
logs out; a refused refresh does not clear the cookie, so the middleware sends the login redirect
back and the dashboard stays blank (`BouncedIsAuthed`).

Prejoin and media: switching both off while a stream is awaited leaves that stream captured; answers
out of order show the last one answered; a stream granted after the page is gone is never stopped;
`applyInitialMedia` can turn the camera on after its button was pressed during the microphone's
prompt; `isApplying` stays set when a disconnection cancels an effect.

## Proofs

Each theorem holds for every value of the constants that meets the named assumptions of its module,
and for any of the bounds; the runs show the same property on one instance.

| Theorem | Property | Condition |
|---|---|---|
| `PresenceProofs!TypeCorrect` | `TypeOK` | |
| `PresenceProofs!CountsBounded` | `CountBounded` | `CrashSpec`, any overlap |
| `PresenceProofs!NoGhosts` | `NoGhost` | `~Overlap` |
| `PresenceProofs!RostersRight` | `RostersConverge` | `Spec`, `~Overlap` |
| `PresenceProofs!RostersSurvive` | `RostersConverge` | `CrashSpec`, `~Overlap`, `Kickable = {}` |
| `PresenceProofs!CountsExact` | `CountExact` | `~Overlap` |
| `WhiteboardProofs!ServiceIsABoard` | `ImplementsBoard` | `Serial` |
| `WhiteboardProofs!NothingIsLost` | `NothingLost` | `Serial` |
| `WhiteboardProofs!SnapshotsComplete` | `SnapshotComplete` | `Serial` |
| `WhiteboardProofs!EachOnce` | `NoneTwice` | any overlap |
| `WhiteboardProofs!WhiteboardTyped` | `TypeOK` of `Whiteboard` | any overlap |
| `WhiteboardProofs!PagesAgree` | `OthersAgree` | `~Overlap` |
| `WhiteboardProofs!RoomUsesTheBoard` | `BoardRoom` implements `BoardLog` | `~Overlap` |
| `MeetingsProofs!OneRowPerUser` | `OneSeatEach` | `Serial` |
| `MeetingsProofs!AttendanceIsRight` | `AttendanceBounded KickedIsOut EndedIsClosed` | `Serial` |
| `MeetingsProofs!ClockIsRight` | `ClockRight` | `Serial` |
| `MeetingsProofs!LockKept` | `LockHolds` | `Serial` |
| `MeetingsProofs!AccountsAreFinal` | `EndIsFinal` | `Serial` |
| `RejoinProofs!NobodyHastilyRejected` | `NoHastyRejection` | |
| `RejoinProofs!OneDecision` | `DecidedOnce` | at most one host page |
| `RejoinProofs!RejoinTyped` | `TypeOK` of `Rejoin` | |
| `FilesProofs!PreviewsTrue` | `PreviewShowsItsFile` | |
| `FilesProofs!StoresAgree` | `RowsHaveBytes` | |
| `FilesProofs!ListsRight` | `ListsFollow` | |
| `FilesProofs!FilesTyped` | `TypeOK` of `Files` | |
| `RoomPageProofs!NothingBehind` | `NoCallBehind` | |
| `RoomPageProofs!RowsMirrored` | `MirrorsRows` | |
| `RoomPageProofs!CaptureEnds` | `NothingCaptured` | |
| `RoomPageProofs!RecordingsWhole` | `SavedWhole` | |
| `RoomPageProofs!RoomPageTyped` | `TypeOK` of `RoomPage`, `RecTypeOK` of `Recorder` | |
| `RoomPageProofs!ChatFollows` | `ShowsPersisted NothingMissed BadgeCounts` | |
| `RoomPageProofs!ChatTyped` | `ChatTypeOK` | |
| `MediaProofs!PreviewHonest` | `CapturesWhatIsShown` | |
| `MediaProofs!MutedHolds` | `MutedStaysMuted` | |
| `MediaProofs!EffectShown` | `EffectFollows` | |
| `MediaProofs!MediaTyped` | `TypeOK` of `Media`, `PreTypeOK` of `Prejoin` | |
| `SessionProofs!CookieAlive` | `CookieLives` | |
| `SessionProofs!SessionTyped` | `TypeOK` of `Session` | |

The conditions are those of the runs: they say that calls do not overlap, and
[what overlaps break](#where-the-code-does-not-keep-its-word) is told above.

**Presence.**  The content of `TypeCorrect` is in `row`: no count ever becomes negative, which needs
that a command in flight that will write a row carries one that it read.  `TypeInv` therefore adds
to `TypeOK` the shape of commands in flight.  `NoGhost` says nothing while a handler of `p` is in
flight; `GhostInv`, which is `OrderInv` (the first three points) and `Counted`, fills that in:

* `Alone`: at most one command in flight works on the row of a participant, unless there is no row
  (the disconnects of a kicked participant's tabs then all find nothing);
* `Fresh`: what an `hset` about to be sent carries was read from a row that Redis still holds;
* `Joining`, `Entered`: a join in flight belongs to an open socket that is not in the room yet, and
  a socket in the room has sent `meeting:join`;
* `Counted`: the count exceeds the number of sockets in the room by at most one, and by none unless a
  handler in flight owes the row one: a join that has written but not entered (at `expire`), or a
  disconnect that has left the room but not yet written (at `hget` or `hset`).

`CountBounded` needs no such order.  `BoundInv` says why a lost update can lose a connection but never
invent one: the row (`RowBound`), and every row a handler has read and not yet written (`StackBound`),
counts at most the sockets that have sent `meeting:join` and whose JOIN has written (`Past`), and a
socket's first join happens once (`JoinedOnce`).  A crash only makes that set larger, since it throws
JOINs away.

`RostersConverge` is about quiet moments; `RosterInv` says for every moment why a client shows
somebody wrongly: a kick is waiting for LiveKit, the handler that wrote the row has yet to tell
(`ToBeTold`), the kick's broadcast came before the last disconnect (`ToBeGone`), or the client's own
snapshot is on its way (`Awaiting`).  A handler must then tell what the row really holds: `Announced`,
a row is as its writer left it until the writer has told, which is what overlaps would break.

A crash leaves the counts of dead sockets in Redis and so ends `Counted`, but not `OrderInv`: it
throws every command away.  Rosters need `Counted` only where a kick deletes a row under the
disconnects it causes, so without kicks (`NoKicks`, preserved as long as `Kickable` is empty) they
follow Redis through any number of crashes, the ghosts included: `RostersSurvive`.

`CountExact` is the other half of `Counted`: for a participant who neither leaves nor is kicked
(`Gentle`), `ExactInv` bounds the count from below by the sockets in the room, and by one more while
a handler owes the row one (`Owed`).

**Whiteboard.**  `CallsInv`: at most one call waits; what a flush has read is still the row when it
writes; while a clear is under way everything recorded is still in the buffer.  From it,
`BoardOfStage` computes what the board is in each stage of a call, and `EveryStep` shows that each
action is one of the board's steps or none (`Change`): `ServiceIsABoard` is the refinement, step by
step.  `NothingLost` is not inductive, as trimming what was trimmed before must be known to leave a
suffix; `OnlyTrimmed` names the number of operations dropped.  The lemmas on sequences (dropping from
a part, dropping twice, suffixes) are proved first.  `SnapshotInv`: until Postgres refuses something,
what is in the buffer while a request waits was drawn after the request was made, and so is not owed
to it; with `OnlyTrimmed` the row holds what is owed.

`NoneTwice` needs no `Serial`.  `OnceInv`: what waits to be written, in the buffer or with a flush, is
in one place only (`Separate`) and in no row anybody has read or holds, so that writing it on top of
a row, an old one too, doubles nothing.  Overlapping flushes lose operations; they double none.

**Whiteboard in the room.**  `BoardRoom` stands on the board the service is shown to implement, and its
proofs are kept with the service's (which is why its specification is called `BoardSpec`).
`OthersAgree` is about quiet moments; `BoardInv` says for every moment that a page that is up to date and
has no snapshot to come shows of the others' operations what the board has of them (`Follows`), that a
snapshot about to be sent is the board (`CurrentSnapshot`, where `~Overlap` is needed), and that what
travels to the gateway is new to the board, and travels once (`NewToBoard`), and that a page's stacks
hold its own operations only (`OwnStacks`), so that undo and redo touch nothing of the others.  What one page leaves out of a list is a
recursive function (`Only`), and what `Only` does to an appended or a skipped element is shown for all
lists: induction in the form of a fact about a set of sequences (`SequenceInduction`), which follows
from the well-foundedness of `<` and needs no operator as a parameter.  `RoomUsesTheBoard` closes the
circle: what the gateway's handlers do to `board` are steps of `BoardLog`, which `ServiceIsABoard`
shows the service to implement.

**Meetings.**  Each call writes what it computed from rows it read some statements before.  `OneCall`
says of each stage that what the call holds is still so: the meeting as read but for its activity
(`AsRead`), the seat a join may take (`MaySit`), the open sessions an end or a sweep has listed
(`MayEnd`), the target of a kick (`MayKick`); `Leavers` says it of `recordParticipantLeft`.  With it
`SeatsFit` (a row's credited time plus its open session fits in the time since the first join; no
session is open after a kick or the end), `OneRowEach` and `MeetingFits` are preserved, one lemma per
action.  `LockHolds` is an action property: the only step that makes a row is `Sit`, for a
join whose gates were those of the row.  `EndIsFinal` is the
other: of a meeting that has ended, a call that waits is the end's own last statement (`LastOfTheEnd`),
a leave whose row is closed and credits nothing (`LateLeave`); an approved rejoin touches no
account (`LateApproval`).

**Rejoin.**  `WaitInv`: who waits, waits for a row of the table, and so does a submission that found
one.  `TableGrows` says that no step shortens the table.  `DecidingInv` for `DecidedOnce`: a decision
that has read its row as PENDING and has not written it finds it PENDING still, and there is one such
decision per row; with two host pages this is false, and so is the property.

**Files.**  `WindowInv`: an open preview has asked for its own file and no other (the effect's cleanup
sets `cancelled`).  `StoresInv`: nothing but an upload's own statements touches its file before the row
is there, since a page can only list, and so delete, what has had a row; and a deletion past its
unlink has removed the bytes.  `FollowInv`: for a file whose broadcasts a page has all attended, the
answer on its way, and then the list, says what the rows say (`Told`); a row that is gone never comes
back, so an older answer cannot revive it without a gap.

**RoomPage and Recorder.**  `PageInv`: before the page has loaded there is no socket and nothing was
heard.  `RecorderInv`: the chunks of a recorder that records, or that `stop()` stopped and whose stop
event is due, are all it has made; no recording is started while another one is still there.
`BoundedInv`, for the type: while a recorder records, or its stop event is due, it has made no more
than `MaxChunks` chunks, and the one it hands over when it stops is the last.

**Chat.**  The proof is kept with those of the page the panel belongs to (`RoomPageProofs` extends both
modules, which is why the specification of `Chat` is called `ChatSpec`).  `ChatInv`: what a page lists, or is sent as history, is in the table, each message once
(`Persisted`); a message that was broadcast is in the list or was missed before the history had come
(`Attended`); and from then on the list only grows, so that what the badge counts is its length less
`lastRead` (`Counted`).

**Media and Prejoin.**  `PreviewInv`: as long as answers keep their order, the last request asks for
what the switches show, and at most the stream of the state is live.  `MuteInv`: `applyInitialMedia`
runs once, before any button can be pressed; while it is at work nothing counts as muted, and at
most one call is its own.  `EffectInv`: of the runs of the effect only the newest is not cancelled, it
is the last in its queue and asks for what the menu shows (`Following`), so that when it has called
the track no older run is left that would call it again (`Settled`).  `LooksInv`, for the type: a run
that will call the track has something to put on it, since one that wants a picture and has none ends
when the processors have come.

**Session.**  `AnswerInv`: a token on its way to the browser belongs to that answer alone, so
nobody can have revoked it.  Tokens are numbered in the order in which they are issued (`TokensInv`).
`TypeOK` also says that a token whose replacement was lost (`wasted`) had been revoked for it; `SpentInv`
says it of the token a request has spent and of the one its answer was exchanged for.  It needs a
`MaxTokens` of at least one, which `SlotsAssumption` asks for: the page may start with a cookie.

**Types.**  `TypeOK` of `Meetings` and `BoardRoom` is part of their invariants (`Inv`, `BoardInv`) and
so is proved where calls do not overlap; that of the other modules needs no such condition.

Only model-checked:

* all liveness (`EventuallyPersisted`, `AbandonedEnds`, `LeaveEnds`, `PendingIsAnswered`, `LoadingEnds`,
  `SentIsAnswered`, `CallEnds`): the prover does not handle liveness under fairness;
* `OffStaysOff`, which the code breaks.

## What is not modelled

* Attendance reports: read-only aggregation of the rows of `Meetings`.
* Dashboard pages, dialogs and the video grid: rendering of fetched lists; what they share with the
  rest is the session, which is modelled.
* Texts, wording, formatting, names, codecs, sizes, picture and stroke contents.
* HTTP routing, validation, configuration, user lookup: they decide who the caller is, which is a
  parameter of the actions.
* Screen sharing and the tiles of remote participants: LiveKit's own state, of which the page keeps
  no copy.
* Infrastructure and build files.

## Plan

Done: every module above, its run, and the theorems of the table.  What is left:

1. Theorems: type correctness of `Meetings` and `BoardRoom` when calls overlap.
2. Instances in which calls of `Meetings` and `Whiteboard` overlap, with properties for what survives
   (`NoneTwice` is proved for overlapping calls, but no run overlaps them; no session is credited more
   often than calls overlap).
3. Screen sharing in `Media`.
4. A refused statement as the pages of `BoardRoom` see it: a snapshot that does not come, a clear that
   the row survives.  The abstract board has these (`erased`), the pages do not.
