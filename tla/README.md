# Verification project for line-legacy

line-legacy lets an iPhone 4S with LINE 3.7.1 use today's LINE service. A set
of small processes stands between the two: they speak the old Thrift, SIP and
HTTP to the phone and the current protocol to LINE, and hand work to each other
through files. Almost nothing in it is protected by a transaction; order, "once
only" and "not lost" come from cursors, id lists and the order of writes. These
modules model that machinery, TLC checks it on small instances, and TLAPS proves
for every instance what is safe about it: each invariant, action property and
refinement that a run expects to hold is stated by a theorem.

## 1. Inventory

The code is in `src/`; the paths below are relative to the repository.

| part | source | state it keeps | operations | speaks to |
|---|---|---|---|---|
| proxy of the phone | `src/legy_proxy.py` | delivered ids (memory, `delivered_ids.json`), pending ops, hold counter, drain lock, books of read receipts, sent media, position in `upload_done.jsonl`, copies of files | `fetchOperations` (long poll), C5 and `sendMessage`, `sendChatChecked`, resync, group writes | phone (HTTP), `outbox.json`, `send_queue.jsonl`, `send_out.jsonl` |
| SPDY of the proxy | `src/legy_proxy.py` | per connection: the table of streams with its lock, the header blocks, a held poll | relay with replaced replies (`spdy_relay`), service without LINE (`spdy_synth`) | phone (SPDY), LINE, `send_queue.jsonl` |
| local worker | `src/local_worker.py` | `.cur_send`, `.cur_recv` and further cursors, the last calls of the log in memory | `pump_send`, `pump_recv`, `pump_calllog`, `pump_token`, `append_outbox` | the files of proxy and bridge |
| bridge | `src/bridge_worker.mjs` | revision, `send_done.txt`, deferred jobs, self-sent messages in memory, `blocked_mids.json`, `hidden_mids.json`, `contacts.json`, `profile.json`, `recommendation_*.json` | `recvLoop`, `sendLoop`, `handleSend`, `handleGroupCommand`, `delegateVideo`, `handleCallOp` | LINE, `send_in.jsonl`, `send_out.jsonl`, `recv_out.jsonl`, `video_in.jsonl` |
| video worker | `src/video_worker.mjs` | its done list | send a video, record, mark | LINE, `video_in.jsonl`, `video_out.jsonl` |
| content proxy | `src/cdn_proxy.py` | `upload/<id>.bin`, `upload_done.jsonl`, the list of notes, created notes and uploaded pictures in memory, a cache of videos and thumbnails on disk | uploads, downloads, notices, notes, videos | phone, LINE's object store, LINE |
| timeline | `src/legacy_timeline_rest.py` | one lock, created posts and share lists in memory | creation of a post; lists, likes, comments | phone, LINE's object store, LINE |
| group writes | `src/legacy_groups_write.py` | none between calls | command, wait 25 s, answer | proxy's send queue |
| push notifier | `src/line_skyglow_notify.py` | two offsets (memory and files) | tail, post, save | `recv_out.jsonl`, `call_ops.jsonl`, Skyglow |
| call gateway | `src/legacy_call_gateway.mjs` | `active`, `ringing`, `ringArmed`, registration, media socket, timers | `bridgeInvite`, `ringLegacy`, `finishRing`, `closeActive` | phone (SIP/RTP), PLANET, `call_log_out.jsonl`, EAS1 helper |
| status line | `src/legacy_status_home.py` | one lock, remembered answers, `profile.json`, `status_history.json` | `sendMessageToMyHome`; the lists of the home | LINE, `profile.json` |
| friend additions | `src/legacy_friend_add.py` | one lock, tickets, remembered additions | `findAndAddContactsByMid`, `remove_recommendation` | LINE, `recommendation_mids.json`, `recommendation_contacts.json` |
| sticker shop | `src/legacy_sticker_shop.py` | none | translation of one request | LINE |
| set-up, DNS probe, tweak, EAS1 helper | `src/setup-login.mjs`, `src/dns_probe.py`, `tweak/`, `tools/`, `docker/`, `eas1-helper/` | none of a protocol | run once, or pure functions | |

How they interact: *phone → LINE*: proxy → `send_queue.jsonl` → local worker →
`send_in.jsonl` → bridge → LINE, results back through `send_out.jsonl`. *LINE →
phone*: bridge → `recv_out.jsonl` → local worker → `outbox.json` → a poll of the
proxy. Files are only appended to and read behind an index; `outbox.json` and the
state files are replaced whole. The state files (contacts, profile, who is
blocked or hidden, recommendations, pictures, the token) have writers in several
processes without a common lock, and readers that keep copies.

What is hard here, and what makes each part correct:

* **Polls** overlap: the phone has several connections, drops those it waits
  on, and the proxy may restart. Right: an item goes out once, what went out is
  remembered first, no hold slot leaks, every poll ends.
* **Read receipts** come late, early and out of order, and the books that match
  them to the phone's messages are capped and in memory. Right: nothing is
  reported twice or before it can be true, and nothing is left out.
* **Sending** crosses three processes that restart apart from each other. Right:
  LINE gets a message once and in order, an acknowledged text was accepted, a
  job is answered.
* **Receiving** takes revisions, a grace period for the account's own messages,
  and a pump. Right: the saved revision never passes what was written, nothing
  is repeated, a message of the phone does not come back to it.
* **Contact state** is written from two loops with awaits in between, hidden
  contacts from a third place at the start. Right: the file, the operations and
  what the phone shows agree.
* **Status and friends** are requests with a memory against repetition, and end in
  files the bridge rewrites. Right: what was answered is so at LINE and in the
  files, and is not performed again.
* **Call history** comes from two files through one worker, with a filter in
  memory. Right: a call is listed once.
* **SPDY**: two threads share a table on the relayed connection, and one thread
  does everything on the served one. Right: the calls the proxy answers get its
  reply, the others LINE's; every call is answered though a poll is held.
* **Media, video, group commands** join a request, an upload or another process,
  and a timeout. Right: one effect per request, and the answer tells the truth.
* **Notes and timeline posts** are posted again when they look failed, by threads that
  meet, with caches that expire. Right: what was answered is stored, appears in
  the list, and is not posted twice.
* **Videos and copies of files** are filled by threads without a lock. Right: a video
  is played whole and the cache keeps its limit; a lookup shows what the file
  held when it looked.
* **Pushes** follow two files. Right: no line is passed without its push.
* **Calls** are coroutines over two globals. Right: what a call took is released,
  the phone gets an answer, the gateway comes free again.

`PROJECT.json` lists the hazards one by one with the line where each bites.

## 2. Modules

| module | models | state and actions |
|---|---|---|
| `FetchOperations` | `fetchOperations` with `drain_outbox`, `_save_delivered`, hold slots | a record per connection is the handler's locals; `Poll`, `Drain`, `SaveOpen`/`SaveWrite` (the two halves of rewriting the file), `SaveFails`, `AcquireHold`, `Expire`, `ReleaseHold`, `Reply`; `Disconnect` and `Restart` strike anywhere |
| `Mailbox` | what the outbox promises (abstract) | post, take, give back, hand over; a lapse forgets what was received |
| `ReadReceipts` | `note_local_msg_id`, `take_read_catch_up`, `take_local_read_ids` | `pending`, `seen`, `mark`, `lastPos` are the proxy's books; LINE's messages and receipts, C5 and S4, the drain |
| `SendPipeline` | C5/`sendMessage`, `pump_send`, `sendLoop`, `handleSend`, `wait_send_result` | the three files as sequences, cursors, the bridge's memory; crashes between any two writes, and in the middle of the worker's cursor (`CursorLeft`) |
| `InboundSync` | `recvLoop`, `handleOperations`, `flushSelfPending`, `pump_recv` | a round is `Sync`, `HandleOp`, `AppendEvent`, `SaveRev`; it fails as `SkipMessage` (logged, the next one goes on), `AbortRound`, `EndFails` or `FlushFails`, which lose what was at hand (`lost`); the pump is `PumpSize`, `PumpMove`, `PumpCursor` and skips cut lines (`cut`) |
| `Relay` | what the receiving side promises (abstract) | the sink is a prefix of the source; a failure takes at most one value out of the source |
| `BlockState` | `refreshBlockState`, `syncContactState`, `updateContactState` | both loops' refresh with its awaits, the file, the operations passed on; `AnswerLost` is a call LINE performed that throws |
| `HiddenState` | `hidden_mids.json`: `dumpContactsAndGroups`, `updateContactState`, `syncContactState` | a dump is `Round`, `DumpAnswered`, `DumpWritten`; a command is `HideAtLine`, then `HideReturns` or `AnswerLost`; `Restart` rebuilds the file from an old dump |
| `StatusHome` | `sendMessageToMyHome` of `legacy_status_home.py`, `dumpProfile` | `request[r].pc` is the step under the lock: `Enter`, `Update`, `ReadProfile`, `WriteProfile`, `SaveHistory`, `Answer`; `FetchProfile`/`DumpProfile` of the bridge; `NewPicture` and `SetElsewhere` of other devices |
| `FriendAdd` | `legacy_friend_add.py`, the recommendations of `syncContactState`, `removeRecommendation` of the bridge | `Enter`, `Verify`, `Add`, `Refresh`, then read and write of each file; `SyncFetch`/`SyncWrite` of the bridge, `BlockReads` where it removes a blocked contact |
| `CallHistory` | `pump_recv`, `pump_calllog`, `is_duplicate_callout` | the two files with their cursors, the calls remembered; each pump is two steps, the move and its cursor, which a stop may leave empty; LINE's time for a call is free, up to beyond the filter's window |
| `MediaConfirm` | `sendMessage` of media, the upload of `cdn_proxy.py`, `upload_done.jsonl`, SEND_CONTENT | `UploadOpen`, `UploadWrite`, `UploadDone`; `DrainSize` and `DrainLines` are the two looks at the file; announcing and looking up may fail (`unheard`) |
| `VideoSend` | `delegateVideo`, `video_worker.mjs` | `Delegate`, `Answer`, `GiveUp`; `NextLine`, `SendVideo`, `RecordVideo`, `MarkVideo` |
| `MediaSend` | `handleMediaSend`, which joins the two | the actions of both parts; `HandOver` needs a body, `SendBody` sends what the file holds by then |
| `VideoCache` | `_video_url`, `_ensure_cafe_video_local`, `_trim_rts_cache` and the thumbnails of `cdn_proxy.py` | a file is an inode that a thread may still hold when it was renamed; `Fetch`, `Write`, `Replace`, `Sidecar`, `Trim`, `DropBody`, `DropSidecar`, `Render`, `Serve`; `Upload` rewrites a captured file, which `CopyEnds` copies as it is |
| `SnapshotCache` | the eight copies of files in `legy_proxy.py` and `cdn_proxy.py`, `pump_token` | `Steps` is the order in which each loader reads, clears, fills and stamps; a lookup is `Look`, `Step`…, `Use` |
| `PostWrite` | `cafe_create_note`, `cafe_note_items` and their caches; `_create`, `_obs_upload` and the lock of `legacy_timeline_rest.py` | `req` is where each thread is; `Post`, `ReadPicture`, `UploadPicture`, `TakeLock`, `Create`, `StoreNote`/`StorePost`, `Fail`; `List`, `Fetch`, `KeepList`; a clock |
| `PushNotify` | `line_skyglow_notify.py` | `ReadLine`, `Post`, `PostFails`, `Retry`, `Advance`, `WriteOffset`, `WriteFails`; `Hopeless` is a post that fails in every round: a rejected device, a call without its fields (`Incomplete`) |
| `SpdyRelay` | `spdy_relay` | the phone's thread: `Take`, `Note`, `Forward` in the order of the code; LINE's thread: `Lookup`, `PassOn`; the table of streams is `streams` |
| `SpdyServer` | `spdy_synth` | one thread: `TakeHeader`, `Echo`, `Answer`, `AnswerSend`, `Poll`, `Hold` |
| `GroupWrite` | `legacy_groups_write.handle`, `handleGroupCommand` | `Command`, `HandleCommand`, `Answer`, `Timeout` |
| `CallGateway` | `legacy_call_gateway.mjs`, `handleCallOp` | `pc` is the await each coroutine is at; `dialog` and `owed` are the phone |

Three modules hold several components that share no state, so that they are checked
and proved about together: `Account` (`BlockState`, `HiddenState`, `StatusHome`,
`FriendAdd`, `CallHistory`, `CallGateway`: the state of the account the phone is
shown, and its calls), `Requests` (`GroupWrite`, `SpdyRelay`, `SpdyServer`: what
the proxy answers itself) and `Content` (`PostWrite`, `VideoCache`,
`SnapshotCache`, `MediaSend`: what it keeps and passes on in bulk). There a
behaviour has a `scene`, chosen in `Init`: it is a behaviour of that component,
and the variables of the others are "off". The product of components that never
meet would say nothing more; what a property of such a module says of a component,
it says in that scene, and it covers every component that has a promise of that kind.

An `MC…` module gives a component or a composition its model values (`SendPipeline` needs
none: its jobs are numbers), and the symmetry. The assumption on the constants
(`…Assumption`) is an `ASSUME` of the module itself, or of the composition it is
instanced in, which TLC evaluates in each run.

The theorems about a module `X` are in `XProofs`; there are eight of these modules, for
`FetchOperations`, `ReadReceipts`, `SendPipeline`, `InboundSync`, `PushNotify`, `Account`,
`Requests` and `Content`. Definitions marked "Mutant" are broken variants of the
definition next to them, used to see that a property can fail.

How the modules fit together: `SendPipeline` delivers each request in order and
at least once to the bridge; `GroupWrite`, `VideoSend` and `MediaConfirm` start
from that and do not repeat the files. `InboundSync` ends at the outbox, where
`FetchOperations` and `ReadReceipts` begin: its `Relay` is the source of the
posts of `Mailbox`. `PushNotify` follows the file `InboundSync` writes, and so does
`CallHistory` with the messages about calls. `SpdyServer` fills the queue `SendPipeline`
begins with, and its poll takes what `FetchOperations` takes, without slots.
`SnapshotCache` is the reading side of the files that `BlockState`, `HiddenState` and
`StatusHome` write.

Abstractions common to all: a file is a sequence of its lines and an append is
one step (lines are far shorter than a block). A file the code rewrites in place is
truncated first: where another process or thread may read it in between the rewrite
is two steps (`delivered_ids.json`, the token, an upload); where only its writer
reads it, the cursors of the worker, a stop takes the choice between the old and
the empty file. Times are the order of events; what a message
says is left out; LINE is a nondeterministic service.

## 3. Runs

| run | instance | shows |
|---|---|---|
| `FetchSafety` | 2 connections, 2 items, 1 confirmation, 1 slot, 1 lost connection, 1 restart (in the middle of a save, too), 1 failed save, 1 resync | each item once and once more per lapse, saved before answered but for a failed save, slots counted, implements `Mailbox` |
| `FetchLive` | 2 connections, 2 items (one silent), 1 loss, 1 restart, 1 failed save | items reach the phone, polls end |
| `Reads` | 3 messages, 2 readers, a cap of 2 pending ids, 1 restart | receipts: once, not before they can be true, none left out; in direct chats and groups |
| `Send` | 2 jobs of any kind, 2 faults (crash of worker or bridge, emptied cursor, failed write) | once, in order, acknowledged means accepted, answered |
| `Inbound` | 2 operations of any kind, whole or cut, 1 restart of the bridge, 1 fault (failed step of the bridge, restart of the worker, emptied cursor) | saved means forwarded, no echo, implements `Relay`, reaches the outbox |
| `Account` | 2 contacts, 3 operations, 1 command, 1 failure (a refresh, a lost answer); 2 statuses and connections, a history of 2, 1 remembered answer, 1 dump; 1 account, 2 requests asked 3 times, 1 sync or block; 2 calls and peers, 1 remembered call, a window of 1; 2 outgoing calls and a ring in the gateway; 1 restart, 1 fault | files, answers, operations and LINE agree; answered means not performed again; a call is listed once; closed calls release, a running bridge is the active call's |
| `Media` | 1 message (picture or video), 2 uploads, 1 failed append or lookup, 2 dispatches; restarts: proxy 1, video worker 2, bridge 1 | an upload is confirmed; a request handed over is served |
| `Content` | 1 note or timeline post with or without picture, 2 threads, 2 tries, 2 lists, a clock of 3 values; 2 videos, captured or not, in a cache for one, 3 lookups; each of the eight copies, 3 writings, 3 lookups; the message of `Media`; 1 failure, 1 restart | stored and listed when answered, not created twice; videos whole, within the limit; lookups fresh; media queued once, a copy costs a restart |
| `Push` | 2 devices, 2 messages, a receipt, 2 calls (one incomplete), a cancel, 1 failure (of a post or a save), 1 restart | nothing skipped, one line repeated, everyone notified |
| `Requests` | 3 commands, 3 tries, 1 error, 2 timeouts; 2 relayed calls of up to 2 frames, replies of up to 2; 2 calls and a PING on a served connection, 1 item, 1 failed write | what the phone was told is true; the right replies are replaced; retried tasks get done and every call is answered |
| `GroupCreate` | `createGroup` | the disagreement of section 6 |
| `Calls` | 2 outgoing calls, 1 incoming | every INVITE answered, gateway comes free |

Why the bounds are enough: every property relates at most two items (or two
readers of three messages, or two calls and a ring), and its hazards need at
most one fault of each side: most runs have a spare item or fault over that.
Two connections with one slot make the slot scarce. In `FetchSafety` the restart finds the file a failed or
interrupted save left. The cap of two pending ids
with three messages makes ids expire. The code's own numbers (256 results, 10 s,
25 s, 120 s, 300 s, the cap on ids) appear as "may run out now", never as a
count, except where a property is about the count.

`CHECK_DEADLOCK FALSE` stands where the bounded environment runs out of things to
do: the phone has sent everything it will.

`Media` and the last scene of `Content` have one message: the properties speak of one message each, its several
uploads, lines, pollers and restarts are what meets. The parts meet other
messages only through the index into `upload_done.jsonl` and through the one
line the video worker works on; the theorems hold for any number of messages. In the posts of `Content` the lives of 5 s and 600 s are 1 and 2
ticks: only which of them is over matters. `FriendAdd` has one account: its
requests meet in the lock and in the files, whose entries are handled one by
one, and its theorems hold for any number. In `StatusHome` and `CallHistory` a memory of one
entry makes the limits of 256 and 50 bite.

No run lists a type invariant: the types are proved, as parts of the inductive
invariants.

Symmetry is used only in runs without liveness: invariants, action properties and
the step-by-step refinement of `Mailbox`.

## 4. Fairness

* Threads of the proxy are scheduled (`WF` of `Serve`), the drain lock is granted
  to each waiting thread in the end (`SF` of `Drain`: CPython's lock is no queue,
  but a drain holds it for milliseconds and polls come seconds apart), and the
  phone keeps polling.
* The worker, the bridge, the notifier and the video worker are `while True` loops
  under systemd with `Restart=always`; a step of a loop that can go on does go on.
  No fairness is assumed for a fault or a restart (a video worker that stops may stay
  stopped), for the phone's user, or for the phone uploading a body.
* In the bridge of `InboundSync` the round, the flush of its timer and the answer of a send
  are separate (`WF` of `Round`, `Flush`, `Answer`): a round that only fails is still one
  that goes on, and the number of failures is bounded.
* Every call to LINE returns or times out (`WF` of `Answer`, `UploadOverdue`), and the
  bridge handles the commands it knows.
* The thread of a served SPDY connection goes on while it has a frame or holds a poll
  (`WF` of `Serve`, one thread, one `while`); nothing is assumed of the phone, the
  clock or the outbox, so that a held poll has to end by its own count of turns.
* In the gateway every await ends, by a result, an error or the timeouts the code
  passes; timers fire; and a peer hangs up in the end.

Liveness properties ask for something only after the last fault: the faults are
counted and the premise says that the count is used up.

## 5. Proofs

All by `tlapm` (SMT, Zenon, LS4), for every value of the constants.

`FetchOperationsProofs`. `TypeOK` is inductive by itself (`TypeCorrect`). `SlotsAccounted`
needs more than the count: `HoldInv` says which connections hold a slot in which
phase, so that the step that gives a slot back, or finds its phone gone, finds it
held; the set of holders is finite and each step adds or removes one. "At most
once" is not: the same item may be in a thread's hands, in the memory set, in
the file and on the phone, and a restart wipes two of these. The inductive
invariant is `MailboxInv`, the conjunction of
`IdsInv` (once memory is loaded it holds every id of a whole file), `ClaimInv` (what a
thread carries is claimed in memory, in the file once its save is over unless that
failed, carried by no other thread, and not on the phone since the last lapse) and
`GotInv` (what the phone got since the last lapse it got once, and its id is in the
file unless the last write failed). `NeverTwice` and `AnswersAreSaved` follow. A
*lapse* is a restart that finds the file cut or without what its last write should have
put there: the code forgets what was received, and the statements count lapses
instead of assuming there are none. `ProxyIsMailbox` is the refinement: each action is
a `Post`, `Take`, `Untake`, `Receive` or `Lapse` of `Mailbox`, or leaves `outbox`,
`Delivered` and `copies` alone, given `MailboxInv`; the only `Untake` is a restart
that forgets claims not saved.

`ReadReceiptsProofs`. What the phone is told depends on the order in which entries
leave `outbox.json`, so the invariant, `ReadInv`, starts there: a message and a
reader's position enter it once (`OneEntry`), and a receipt is newer than all that is
in front of it (`InTime`; in a direct chat its position covers the messages there).
`NotedOnce` says that an id is noted once and that one of another device is noted
when its entry is drained; `ToldOnce` that `seen` knows, of every pending id, whom it has
been reported for. From these come the four results. `ReadReportsAreTrue`: `ToldOnce`, and
`ToldInTime` for the groups. `ReadCatchUpExact`: `DirectBooks`, by which a message of
another device has been reported or waits, pending, for a receipt that has not come:
`take_read_catch_up` restores this when the message is the later of the two.
`ReadGroupComplete`, an action property: by `GroupBooks` a watermark is a position that was
drained and no id but an expired one has left the pending ones, so a receipt refused as
stale that is not older than the newest drained would be a second entry of the same
position. All hold for any cap, any number of restarts, and `Msgs` and
`Readers` of any size.

`SendPipelineProofs`. `SendInv` says where each job on its way is. `SentInOrder`: the second
copy of a line, after a crash of the worker, is harmless because it comes behind
the jobs that are to be sent before it (`FileOrder`, `BatchOrder`), or these were
answered already (`LogOrder`), whatever else stops. That fails when a stop empties the worker's
cursor (`tears`), since then the whole queue is copied again, with jobs the bridge never saw
behind those it answered. With a bridge that neither stops nor fails a write every
earlier copy of a job was read by it (`Orderly`: `CopyKept` to `LogFirst`, that of each
job the first copy counts and is in order in each file), and the order holds all the same.
`SentAtMostOnce` has two cases, as its
premise has: without a crash of the worker no line is copied twice and
a job the bridge took is at one place (`CopiedOnce`); without a fault of the bridge what
LINE accepted is remembered or its answer is at hand (`NoFault`). `AckedWasSent`
follows success backwards through the files (`AckInv`). Jobs with a body
are left out of the order, as in the code: a body may be late.

`InboundSyncProofs`. `NothingLost` needs `InRound` and `Forwarded`: the operations between the
saved revision and the one in memory are in `recv_out.jsonl`, among the events
of the round, or were at hand when a step failed (`lost`). `PhoneHearsNoEcho`: what is being sent or was answered is not on
its way to the phone (`NoEcho`). `InboundImplementsRelay` is the refinement of `Relay`: by
`OrderInv` the first appearances in `recv_out.jsonl` are in the order of LINE and
`outbox.json` has each once, so that a pump, even one that repeats, extends the sink along the
source (`Forward`), an operation of LINE extends the source (`Produce`), a failure takes
at most one value that was not passed on out of it (`Fail`; the source is what is neither cut nor lost,
`Through`), and every other step is a stutter. A cursor read as 0 makes the pump begin
again at the start of `recv_out.jsonl`: `Boxes` says that what lies behind it is in the outbox.

What the recursive functions `AppendNew`, `Passing` and `Parsed` compute is proved
by induction on a natural number: the set of numbers for which a statement holds has 0
and every successor, so its complement has no least element (`CountUp`, from `WFMin` of
the library). They are functions and not the filters of the library so that this
argument applies.

`PushNotifyProofs`: `PushTypes`, from `TypeInv` (the type plus: a line being
served exists and its offset is behind it); `NoLineSkipped`, for
`Fresh = FALSE`, from `SkipInv` (every pushable line below the offset was pushed to
every device, and devices not in `todo` have the current line); and `RepeatsBounded`,
for `Rejected = {}`. There the repeated lines are not inductive to count: a line is at
risk (`AtRisk`) for a device that has got it and will meet it again, and only a
failed post, a failed write of the offset or a restart adds one to these, since the offset file
is at most one line behind for each of them. A call that can never be posted adds none: nobody gets it
(`Untouched`). With a device that Skyglow rejects for good the statement is
false: its line is pushed to the others in every round.

`AccountProofs`. The invariant of the composition, `AccountInv`, is that of the component in each
scene; a step of the composition is a step of that component, and the rest is off. Each of
the six has its own argument.

* *Blocks* (`ListsAreCurrent`, `PhoneShowsBlocked`). `BlockFile`: about each contact the file is
  right, or a refresh under way will write what is so, or somebody has still to ask: the operation
  not fetched yet, the call to LINE that was made. `BlockPhone`: where the phone is wrong an
  operation is on its way (`Unsaid`, `Tells`), and where the result of a round is wrong one is
  still to be fetched. That the unblockings are passed on in order (`BlockOrder`) is what makes the *last*
  operation in the outbox count. The two properties name what they suppose: no failed call to
  LINE, lost answers included, and for the file that two refreshes did not meet, for the phone that no command of its
  own (`contact_block`, `contact_unblock`) went to LINE, whose operation LINE may not send back.
* *Hidden contacts* (`ListsAreCurrent`). `HiddenCurrent`: unless two writers met, an answer was
  lost or an old dump was taken, a dump and a job are never under way at once, and whoever writes last writes
  what LINE says, unless an operation is pending, whose dump comes later.
* *Status* (`ToldIsSo`, `PerformedOnce`). `StatusRetry`: an answer that lives is remembered, and
  the holder of the lock found none. `StatusAgree`: LINE, history and profile agree but for the steps
  the holder of the lock has still to do, and so does what a dump fetched,
  but for a status another device set (`lost`).
* *Friends* (the same two). `FriendWrites`: what was performed is remembered or counted
  as forgotten, and what is about to be performed is not remembered. `FriendRemoval`: no one taken off is in
  anything that will yet be written to the two files, a request's list, what a sync fetched or
  what the removal after a block read.
* *Call history* (`ListedOnce`). `CallKept`: a call of the log is in memory or was forgotten; a
  message that was moved came before its line of the log, after that was forgotten, or carries a
  time the filter does not take for that call's (`FarOff`).
* *Gateway* (`ClosedCallsRelease`). `ClosedInv`: a call closed in time holds nothing and is
  at no await behind which the code takes something without looking at `cancelled`; that is
  inductive only with `OwnerInv` (whose handler is at work, or whose bridge runs, is
  active, was closed, or was pushed out by an answered ring) and `RingOwned` (nothing
  reopens the transport of a ring that is or was active).

`RequestsProofs`. `RepliesReplaced`: a call is *unnoted* while it is not sent, its first
body frame is with the phone, or that frame is taken and the name not yet in the
table. `RelayInv` is: nothing of an unnoted call is beyond the first thread, in no
queue and no hand (`NotedInv`); the first frames of the phone are in front of the rest of
their bodies (`PhoneInv`); and a noted call the relay is to answer is in the table
exactly until the phone got its first frame (`TableInv`). The order of `BodySteps` carries the
proof: noted after the frame left, LINE could answer first. `TheAnswersAreTrue`, for the commands: the
queue has the requests of a task in the order of its tries, each newer than any result
(`InOrder`), so that the result the proxy waits for comes when no earlier request is left; a
success was performed, and while LINE answers a failure is one the bridge refused (`OutcomesTrue`; not for
`createGroup`, see section 6). For the served connection: every line of the queue
has an id of its kind and every acknowledged call without a failed write a line (`ServerInv`).

`ContentProofs`. `AloneInv`, `WholeInv`, `SidecarInv` and `TrimInv` give `VideosArePlayedWhole`:
two fills of a video that never met have one writer of its `.part`; a file that is not
whole has a thread that still writes all it lacks, or was copied from an upload that was not
whole (`short`); a body has its sidecar or the thread that
is about to write it; and what is over the limit is about to be counted or to go, where
the number counted is bounded through the victims of the thread that trims.
`MemoryIsFresh`, for the copies: a stamp that equals the file's is one of the file's present
content (`SeenInv`), what was read is at least what was there at the look (`ReadInv`,
`FilledInv`), and a copy under the file's stamp holds it (`CopyInv`); each of the eight loaders
is a sequence of the same few steps, and the steps left (`LeftToDo`) say which. For
the list of notes, and for `SuccessIsStored` and `CreatedOnce`, the invariant is one of each
request by itself (`RequestOK`: where its picture got to, what it created, what it
knew when it entered) and one of the memories (`MemoryInv`: what is kept was created, and what
was told is kept as long as it lives); a step of one thread changes the world so that the
others' `RequestOK` stands. `OneLineQueued` needs that the queue of a message not sent is empty, through
both looks of the drain at the file. `CopyCostsRestart` is not inductive to count: a video is at risk
(`AtRisk`) when LINE has it, the done file does not, and the worker will send it again; only
a stop puts one there, and only one, the one it worked on, so copies and videos at risk
together are paid for by restarts (`CopiesPaid`).

The statements assume the `…Assumption` of the module, which TLC evaluates: bounds are natural
numbers, `None` is none of the values it stands apart from. Four say more: the videos
are finitely many (`VideoCache` counts them), the calls of `SpdyServer` are not times, which
job ids are made of, the outgoing calls of `CallGateway` are not rings, and a list of notes lives
shorter than the memory of a created one (5 s and 600 s in `cdn_proxy.py`).
In `Account`, `Requests` and `Content` a property of a component's name is that of the component in its scene.

Only model-checked: liveness and `ENABLED`, which are out of the prover's reach
(`ItemReachesPhone`, `PollEnds`, `JobAnswered`, `OpReachesOutbox`, `UploadConfirmed`,
`RequestServed`, `EveryDeviceNotified`, `TaskGetsDone`, `EveryCallAnswered`,
`InviteAnswered`, `ActiveComesFree`), and the expected violation of `GroupCreate`.
Every other property of the runs is both checked and proved.

## 6. What the code does otherwise than said

**Run `GroupCreate`** (expected violation): `createGroup` reads `groupId` from the
result, the bridge answers `chatMid`; the group is made, the phone is told it was
not, and a second try makes a second group. The comment at
`src/legacy_groups_write.py:115` says the group is answered and enters the
phone's database.

The following were met while modelling. The properties name them as exceptions
instead of hiding them, and no run counts them as failures:

* *Lost answer.* A poll that loses its connection after claiming items loses them;
  the docstring of the drain names this problem as solved. `ItemReachesPhone`
  speaks of unclaimed items, and `Mailbox` allows an item taken and never got.
* *`delivered_ids.json`* is rewritten in place, and a write that fails is only logged
  while the answer leaves. After a stop in the middle of a write, or after a failed one,
  the outbox, or the part not saved, is delivered again (`unsaved`, `lapses`).
* *Receipts in a direct chat* mark messages sent after the receipt, since the list
  of pending ids is emptied whatever the receipt's position. `ReportsAreTrue`
  asks for the order in groups only.
* *C5 answers 503* after 10 s although LINE may accept the text later; only
  "acknowledged means accepted" holds. Over SPDY a C5 is acknowledged when it is
  queued.
* *Jobs queued while the bridge is down* are skipped, since it starts at the end of
  `send_in.jsonl`. `JobAnswered` speaks of lines not yet copied.
* *A text with U+2028, U+2029 or U+0085* is cut by `splitlines()` and never sent
  (`cut`). So is a received text: `pump_recv` cuts its line in the same way, skips the pieces,
  and its cursor passes them. `OpReachesOutbox` and `Relay` leave it out (`Through`).
* *The worker's cursors are rewritten in place.* After a stop in between they read as 0: the
  whole queue is copied again, with the jobs the bridge had skipped, which LINE then gets
  behind later ones (`tears`); the receiving side repeats nothing, since the outbox
  keeps each item once.
* *A step of the bridge that fails on an operation loses it*: the revision in memory has
  passed it, and later rounds save that. A message whose append or body fails is logged and
  skipped; a receipt, a dump or an event that fails drops the rest of the batch, and the events collected (`lost`).
* *Two faults of two sides* (worker and bridge) can send a job twice.
* *A message of the account's other device* held for its grace period is lost when the
  bridge restarts, though its revision is saved; an answer later than the
  grace period makes the phone's own message come back.
* *Two block refreshes that meet* may leave the older file (`met`).
* *A block, unblock or hide LINE performed but whose answer is lost* throws past the refresh:
  the file stays stale until somebody asks again (`failures`).
* *A fresh offset file* makes the notifier start at the end of its file, and one
  device that Skyglow rejects for good blocks the line for all (`Fresh`, `Rejected`). So does a
  call whose fields are incomplete: it raises in every round, and no call behind it is announced
  (`Incomplete`, `Blocked`); messages, which are tailed first, still are.
* *A note posted while its first request is still at LINE*, or whose answer was lost or
  holds no note that can be converted, is posted again, although the docstring of
  `cafe_create_note` wants retries suppressed; a timeline post is posted again
  a moment later when the clock has entered the next ten minutes.
  `NoSecondCopy` speaks of requests after a success, within the bucket.
* *A failed fetch of the list of notes* is cached as an empty list for five
  seconds (`bad`), and a list that was on its way when a note was stored is cached
  without it (`crossed`). A list has at most twenty notes (`postLimit`): older ones are
  left off (`off`).
* *A picture captured again while a request for its post is served* can be stored cut,
  and stays so (`rewritten`).
* *A dump asked for before the phone hid somebody* writes the old list over the change, and a
  start rebuilds `hidden_mids.json` from a `contacts.json` that may be hours old (`met`,
  `old`).
* *The status is merged into `profile.json`* by read and replace while the bridge replaces the
  file with what LINE said before or after: one of the two is lost (`crossed`). An update whose answer
  was lost is reported as failed and leaves history and profile behind, and a status set on another
  device reaches `profile.json` with the next dump but never `status_history.json` (`lost`).
* *A removal from the recommendations* that a sync, or the bridge's own removal after a block, crosses, or a file that cannot be
  replaced, recommends the new friend again; the phone is told success (`crossed`).
* *A call moved before its line of the log*, or after a restart of the worker or 50 newer
  calls, or whose message has a time more than 60 s from that of the log, is listed twice
  (`early`, `forgotten`, `FarOff`); a call of another device near one of the phone's to
  the same peer is dropped (`NearOne`).
* *The copies of files* show old or empty content each in its own circumstances, which
  follow from the order of its loader's steps (`Excused`). The copy of the contact states is
  wrong after a failed load only: the empty set is kept under the file's stamp until the file
  changes (`failed`).
* *Two threads that miss the same video* share one `.part`, so that a player can get half a
  video, for good if one of them is cut; a trim can remove the sidecar of a body stored in between,
  which then never counts against the limit (`met`, `cut`, `crossed`). `upload/<oid>.bin` is
  rewritten in place: a copy made meanwhile is short, and is kept and played for good (`short`).
* *An upload that could not be announced* is answered 200 all the same, and a line of
  `upload_done.jsonl` whose message could not be looked up or queued is passed over: such a
  message is never confirmed (`unheard`).
* *Two `sendMessage` in one millisecond* get one job id; the second is taken for done, and both are
  acknowledged (`SameKind`). Over SPDY a send is acknowledged although the queue could not be written
  (`unwritten`).
* *A first body frame that does not hold the call's name* leaves the call to LINE's reply
  (`nameless`). What LINE sends after the replaced frame is passed on.
* *Accept, reject and cancel of invitations* have no command in the bridge.
* *An INVITE the phone cancels* gets no 487: the gateway answers the CANCEL only.
  `InviteAnswered` takes a cancelled dialog as over.
* *A call closed while its route or its media bridge is awaited* leaks a transport,
  or the media port and two intervals, for ever (`late`). Later calls then fail
  to bind.
* *`finishRing` makes its call active over another one* (`displaced`); that one, when it
  fails, closes the new call and the phone gets no final response. When its
  bridge cannot be started the call stays active and the gateway busy until
  somebody hangs up.
* *A BYE while an incoming call is being joined* finds no active call; the call is
  connected afterwards, to a phone that has hung up. A ring that times out or is
  declined leaves its PLANET transport open.

## 7. Not modelled

Audio, codecs and SRTP; Thrift, SPDY and SIP encodings; the layout of notes,
timeline posts, notices and stickers; login and packaging; the call route and the DNS
probe, which keep nothing. `PROJECT.json` gives the reason for
each component. In the modelled parts: the gateway does not restart, its phone is registered, datagrams leave without
giving way, and its diagnostic and PCM bridges are left out; the order in which
remembered additions are dropped and the limit of tickets are left open; byte
ranges of media, likes, comments and share lists of the timeline are single
requests translated.

## 8. Plan

Done, in this order: the poll and its proof, receipts, the send pipeline, the
inbound side, blocks, media, video and their composition, push and its proof,
group commands, calls, notes and timeline posts; hidden contacts, call history, the
status line, friend additions, both SPDY connections, the cache of videos, the
copies of files; the proofs of slots, receipts, the send pipeline, the inbound side with its
refinement, and repeated pushes; those of the account, the requests and the content.

Next, by importance:

1. *Composition*: `InboundSync` with `FetchOperations` (LINE to phone, once), and
   `SendPipeline` with `ReadReceipts` (a job's id to its server id).
2. *Timeline*: the share lists, the only other state of `legacy_timeline_rest.py`; *call
   gateway*: registration and a restart beside a running call.
3. *Proofs*: that `MediaSend` implements the two modules it joins, as far as its handover allows
   (`SendBody` may send less than the whole file), and the safety parts of the liveness
   arguments (what a fair step finds possible), which bound where a job can wait.
