# Formal models of qvod-player

TLA+ models of the P2SP streaming player in this repository: what its
concurrent parts do, written from the Rust sources, checked with TLC on small
instances and proved, where that is possible, with TLAPS for all of them.
`PROJECT.json` lists the runs, the source lines every definition stands for,
the hazards that shaped the properties, and for each property a mutated
definition (a plausible bug) that it catches.

## The system

| Part | State | Operations | What is hard about it |
|------|-------|------------|-----------------------|
| **qvs-stream** `engine.rs` | registry `active_streams`, one buffer, `MediaStream` and download task per stream | `play` (qvod, http, file), `pause`, `resume`, `seek`, `stop`, `status`, `read_buffer`; three download loops | commands await locks the loops hold; tasks are known only through the registry; clients disconnect in the middle |
| **qvs-stream** `buffer.rs` | window position, byte array, filled ranges | `write`, `read`, slides, range merge | arithmetic at the edges, two coordinate systems |
| **qvs-stream** `playback.rs` | shown state, paused flag, position, progress | `play`, `pause`, `resume`, `seek`, `end`, `update_*` | several writers, no guard between the states |
| **qvs-local-server** | engine behind one mutex, a channel and a task per response | `/play`, `/status`, `/segment`, `/control` | the mutex is held across awaits; slow and vanishing clients |
| **qvs-transport** reliable UDP | packets in flight, congestion window | `send_data`, acknowledgements, `retransmit_timeout` | loss, duplication, time-outs, sends that fail |
| **qvs-transport** TCP, handshake, peer wire | one stream behind a mutex, the protocol's state and choke flags | connect, handshakes, message builders, `read_message`, `handle_message` | a message is read by two calls with a time-out each, and a write may end inside of one |
| **qvs-transport** scheduler, P2SP | priorities, queue, requested and completed pieces, counters, sources | `update_download_queue`, `next_request`, `download_*` | priorities against a moving playhead; downloads that are dropped |
| **qvs-dht** | routing table behind a mutex, peers per hash, token secret, one UDP socket per node and one per bootstrap | receive loop, ping, find_node, find_peers, announce, refresh, bootstrap, lookup | three readers of one socket; the table's lock held across awaits; one layout written and another read |
| **qvs-stream** `get_peers_parallel` | the search of a play | lookup and announce at the same time | waits for the slower of the two |
| **qvs-format** cache | entries in memory, data files on disk | `write`, `read`, `cleanup`, `delete`, restart | file and entry change in separate steps, files are removed after the lock is given up, removals that fail are not noticed |
| **qvs-tracker** | tracker list | announce, scrape, retries | partial failure of several trackers |
| **qvs-media** | clock, decoder processes | A/V sync, probing | clock drift; mostly external processes |
| **qvs-gui** | player, decoder, task list, calls under way | a frame: input, commands, errors, answers; the task list's menu | answers of several calls in any order; indices held across edits |

What makes each of them correct:

- buffer: a byte is stored where its file offset says, and a read returns the
  bytes of the offset it names or nothing; the range set stays separated.
- playback and engine: what a client is shown agrees with what the tasks do
  (Ended means over, paused means no more data, progress means buffered bytes);
  the registry names the stream commands should reach; every task ends.
- local server: one holder of the engine at a time and no lost waiter; bodies
  without gap or repetition; every request is answered; the rate limit.
- reliable UDP: each packet is acknowledged, or given up after its retries,
  once; the bytes counted as in flight are those outstanding.
- peer session: what a peer handles is what the other said, in its order, as long
  as no read or write ended inside of a message.
- piece downloads: each piece is fetched once; the counters agree with the
  pieces, whatever fails.
- dht: buckets keep their size, and a node that answers keeps its place in
  them; an answer is never answered; an announcement is stored with its token
  only; everything that was begun ends.
- cache: no file is left where nothing will ever remove it, but after a failure;
  the clean-up takes no entry that was written to after the last use of one it
  keeps.
- tracker: one answer suffices; the failure of one tracker hides no other.
- media: the correction of the clock moves video towards audio.
- gui: the selected index names the entry the user selected; only what the user
  did is sent to the server.

The browser, or the desktop client, talks to the local server over HTTP. The
handlers lock the engine's mutex for each command. `play` creates a buffer, a
`MediaStream` and a background task, and puts them in the registry; the task
writes chunks to the buffer and reports progress under locks of its own. The
streaming task of a `/play` response polls the engine for status and data and
sends chunks into a bounded channel that is the HTTP body. A `play` of a qvod
link first asks the DHT and the trackers for peers and waits for both. What the
engine would do with the peers, sessions and piece downloads, is a library that
nothing in the repository drives yet, and so are the reliable UDP transport and
the cache: their callers are modelled as free as the library's interface lets
them be, and "the caller" below is always such a one. The desktop client is an
HTTP client of the local server.

## Modules

| Module | Models | Extends |
|--------|--------|---------|
| `RingBuffer` | the sliding window of `buffer.rs`, byte for byte, and its refinement mapping to `FileCopy` | |
| `FileCopy` | what the buffer promises its readers: a growing partial copy of the file | |
| `MCRingBuffer` | `merge_range` as the loop it is | `RingBuffer` |
| `RecursionProofs` | lemmas in place of induction: least elements, recursive functions, folds of sets | |
| `RingBufferProofs` | theorems about the window, its ranges, the merge and `read` | `MCRingBuffer`, `RecursionProofs` |
| `MediaStream` | the methods of `playback.rs` as operators on a record | |
| `Engine` | registry, commands and download tasks of `engine.rs` | `MediaStream` |
| `MCEngine` | one source of each kind | `Engine` |
| `EngineProofs` | theorems about the engine | `Engine` |
| `Gateway` | the handlers of `handler.rs` over one stream, `range.rs` | `MediaStream` |
| `MCGateway` | Range headers for TLC | `Gateway` |
| `GatewayProofs` | theorems about the handlers | `Gateway` |
| `Congestion` | the window of `congestion.rs` as operators on a record | |
| `UdpTransport` | the sender of `udp_stream.rs` over a faulty network | `Congestion` |
| `UdpTransportProofs` | theorems about the transport | `UdpTransport` |
| `RoutingTable` | buckets of `routing.rs`, distances of ids, as operators | |
| `RoutingTableProofs` | lemmas about buckets and tables | `RoutingTable`, `RecursionProofs` |
| `NodeTable` | one routing table over time | `RoutingTable` |
| `DhtWire` | the messages of `rpc.rs`, and what `decode` makes of them | |
| `Dht` | nodes: receive loop, refresh, lookup, bootstrap, announcements | `RoutingTable`, `DhtWire` |
| `Tracker` | announce and scrape over several trackers | |
| `Discovery` | a play's search for peers: DHT and trackers together | `Dht`, `Tracker` |
| `DiscoveryProofs` | theorems about the nodes and the tracker's client | `Discovery`, `RoutingTableProofs` |
| `MCDiscovery` | two nodes, one of which searches | `Discovery` |
| `PeerSession` | two peers on a connection: `tcp_stream.rs`, `handshake.rs`, `message.rs`, `peer_wire.rs` | |
| `PieceDownload` | `scheduler.rs` and `p2sp.rs` under their caller | |
| `MediaCache` | `cache.rs` | |
| `Desktop` | a frame of the desktop player, its calls and its task list | |
| `PartsProofs` | theorems about the routing table over time, the peer session, the piece scheduler, the cache and the desktop client | `NodeTable`, `PeerSession`, `PieceDownload`, `MediaCache`, `Desktop`, `RoutingTableProofs` |
| `MCParts` | the stand-alone parts, one per behaviour, and a buffer as large as its file | `RingBuffer`, `NodeTable`, `Tracker`, `PeerSession`, `PieceDownload`, `MediaCache`, `Desktop` |

### RingBuffer

One unit is a byte. A cell of `data` holds the file offset of the byte stored
in it, or `Zero`; so "read returned the right bytes" is a statement the model
can make. `base` is `file_offset`, `filled` the set of ranges. `Written` is
`write()` with both slides and the merge. The model assumes what the loops do:
a write at an offset carries the bytes of the file at that offset. (The qvod
loop of the present code writes zeros as a placeholder for its pieces; an http
server that ignores the Range header breaks the assumption.) `MaxWrite <= Cap`
holds because a chunk is at most 256 KiB and a buffer at least 1 MiB.

`merge_range` is one pass over the ranges in order; the model states its closed
form, and `MergeLoopAgrees` compares the two in every reachable state. The loop
is a fold that takes the ranges by their starts.

### MediaStream and Engine

Streams are numbered in the order of their creation, sizes are counted in
chunks. `task[g].pc` is the await at which the loop of stream `g` stands:
`open`, `fetch`, `write`, `report`, the two steps of the end-of-file branch,
and `end`. All three loops share these steps; `Kind` selects what differs (only
the qvod loop looks at the paused flag, only the other two fail, only the file
loop reports positions and meets a shortened file). `op` is the command that
holds the engine's mutex; the sweeps of `pause`, `resume` and `seek` lock one
stream at a time and interleave with the tasks. `Disconnect` drops a command at
any of its awaits. `stop()` sets the abort flag of the task, which then ends at
its next await, not before. A cache hit registers a stream without a task.

`late[g]` is a history variable: the chunks written since the stream was
created or paused. No guard reads it.

### Gateway

`queue` is the tokio mutex around the engine: its head holds it, the others
wait in order. A viewer sends one `/play`; after the answer its streaming task
goes through `sleep`, `poll` (waiting for the mutex), `more` or `last` (the
status is known), `send` or `final` (a chunk is in hand, the mutex still held).
`body` and `taken` are the channel: what was sent, and how much of it the
client has read. Callers send the other requests. Futures are dropped at any
await by `Leave` and `GiveUp`. The stream seen through the registry is reduced
to what the handlers can observe; its steps are those of `Engine` taken
together, and its buffer is assumed to hold the file (`ReadTheorem` says what
that gives).

### Congestion and UdpTransport

`cwnd` and `ssthresh` are the integer parts of the floats of the code, since
`can_send` truncates; `OnAck` yields each outcome the fractions could give. Each
method of the transport is one action, with the outcomes of its sends (done,
failed, dropped by the caller); `retransmit_timeout` is several, since its loop
may end between two packets. The network keeps a set of datagrams: one that is
delivered may be delivered again, and `Lose` takes one away. The peer is the
receiving half of another transport: its owner answers data with `send_ack`, and
asks with `Nack` for packets below one it has. `leaked` and `unsent` are history
variables: the packets whose first send failed, and how many of them since the
last time-out. Nothing in the repository uses the transport yet, so its callers
are any sequence of calls.

### RoutingTable and NodeTable

An id is the set of its one bits, bit 0 the most significant, so the distance of
two ids is their symmetric difference, and `Smaller` compares two distances as
the code compares bytes. A table is a sequence of buckets, each a sequence of at
most `K` entries; an entry is `stale` once it was not heard of for 15 minutes.
`InsertInBucket` is `KBucket::insert` with its early returns, `Insert` adds the
split. `BucketIndex` subtracts from eight times as many bits as an id has, as
the code does, so all ids but the local one share the last bucket. `NodeTable`
lets one table learn, age and forget.

### DhtWire and Dht

A datagram carries the message that was encoded; `Decode` yields what the
receiver takes it for, which depends on the type and on the length of its body
only. An answer to a ping reads as a ping. An answer to `FindPeers` is read 20
bytes behind the place where it was written: what stands there can spell any
nodes or peers (`GarbageNodes`, `GarbagePeers`) as far as the length admits.

`loop`, `boot`, `lookup` and `announcing` are the tasks of a node and the awaits
at which they stand. `TableFree` is the table's mutex, held by a bootstrap from
its start to its end; a lookup and an announcement need it for the nodes they
begin with only, an announcement not for its sends. An error of the socket ends
the receive loop at its wait (`LoopFails`). Loop (its refresh too) and lookup
read one socket, and whoever is at a receive takes the datagram. A wait may end
without an answer at any time. The network keeps a set of at most `MaxDgrams`
datagrams, delivers any of them and may lose any. The owner of a node puts other
nodes into its table, because a bootstrap never does (see below), and is what
lets the rest be reached. Different addresses may claim one id, so nodes may be
equally near: `Sorted` and `Nearest` are then any of the orders and choices,
since lists are sorted by distance only.

### Tracker and Discovery

A client asks its trackers in a random order, each `Attempts` times. An answer
is a record of what its parse can tell apart. `Discovery` is
`get_peers_parallel`: it starts a lookup and an announce and waits for both.

### PeerSession

Both ends run the same code. A stream is a queue of the pieces that `read_exact`
takes whole: a length, the rest of a message, a keep-alive, a handshake. A read
that ends inside a message makes the reader `torn`, and what it reads from then
on is any message. A write puts its message on the stream whole, in part or not
at all (`OnStream`: a time-out, an error, a dropped future); what comes behind a
part can no longer be told apart (`Bytes`), and tears the reader that reaches
it. `due` is a history variable: the messages said to a peer and not yet
handled; `mixed` says that one was handled that was not due.

### PieceDownload

The caller asks for the next piece, marks it requested, downloads it by the
source its priority selects, and marks it completed. `priority` is the cache
that `calculate_priority` keeps. A download can be dropped at its awaits;
`dropped` counts these.

### MediaCache

A write creates its file, writes it and then takes the lock to record the entry;
a clean-up drops entries under the lock and removes files after it. Several
clean-ups (`Cleaners`) may be removing at a time. A removal may fail and is not
looked at, and a clean-up may be dropped between two. `Restart` keeps the disk
and forgets the entries, which are stored nowhere. The clock shows any of
`Times`, also the same again or an earlier one. `read` changes nothing in the
code; what it changes here is history: `used` is the time of the last read or
write of an entry, `wrote` that of its last write. `linked` says whether the file
a write has open is still the one in the directory. `strays` lists the files
that a failure or a restart left behind, and `steady` says that the clock has
not gone back; they are history variables too.

### Desktop

`Frame` is `update()`: the pending play, the input, the commands that follow from
what the input changed, then errors and answers, then the decoder, in that
order. A frame takes one input of the user; egui may report several, which are
then those of several frames without an answer in between. Calls run on their
own and end in any order. Positions are multiples of the ten seconds a key
moves. The kind of server is chosen at the start and stays, although the
settings can change the address that later commands go to.

The task list can be edited by its owner at any time, also while a menu is open,
as its interface allows; the player itself only adds entries. The index of an
open menu then stays behind, so that `remove` takes another entry or, behind the
end of the list, panics (`RemovePanics`), which ends the player (`over`).

## Runs

| Run | Question | Bounds | Result |
|-----|----------|--------|--------|
| `slide` | Does the window keep its bytes and its ranges? | capacity 4, file 8, writes up to 3 | holds |
| `window` | Does `read` return the bytes at its offset after a slide? | capacity 3, file 6 | violated |
| `sources` | Safety of commands against tasks | a qvod, a file that may be cut while it is read, a cached source; 2 streams, 2 chunks, 2 errors | holds |
| `downloads` | Do unpaused and stopped downloads come to an end? | a qvod and an http source; 2 streams, 1 chunk, 2 errors | holds under fairness |
| `stop` | Does stop clean up after a replay? | 2 streams of one source | violated |
| `bodies` | Is the mutex used soundly, are bodies contiguous, is everybody served? | 2 viewers, 1 caller, qvod or file, file 5, pieces of 4, chunk 2, channel 1, 2 plays, bodies start at offset 1 | holds, the liveness under fairness |
| `tail` | Does a body hold what was available? | 1 viewer | violated |
| `transport` | Is every packet accounted for and settled, does the window reopen? | 2 packets, 3 retries, window 2 to 5 | holds, the liveness under fairness |
| `discovery` | Do tables and lists keep their limits, is silence kept, does a search end? | 2 nodes, ids of 2 bits, buckets of 2, 1 datagram under way, 1 tracker, 1 kind of event per behaviour | holds, the liveness under fairness |
| `lookups` | Does a lookup find the peers it is answered with? | as `discovery` | violated |
| `announcements` | Is the announcement of another node accepted? | as `discovery` | violated |
| `parts` | Each stand-alone part against every order of its callers' calls; is a buffer as large as its file a partial copy of it? | see below | holds; the buffer implements `FileCopy` |

Why the bounds are enough: with capacity 4 and a file of 8 the window makes
slides shorter and longer than itself in both directions, and three separate
ranges fit. Two streams are the least with a replaced registry entry, two
chunks have a first, a last and a state in between, two errors reach the limit
with and without a reset; the liveness run needs only one chunk, since what can
keep a task going for ever is a pause, an error or an abort, and all three are
there. Two viewers and a caller give a waiter behind a waiter. A file of 5 with
pieces of 4, read in chunks of 2 from offset 1, has two chunks per body, a
piece that ends inside a chunk and one that completes it; a channel of one
chunk is full after the first. Two packets let an acknowledgement
overtake another, leave a gap to ask for and fill the smallest window. The safety
properties of the passing runs are proved for any values of the constants (see
Proofs), so the bounds matter most for liveness and for the violations.

In `discovery`, the two nodes and one node read out of misplaced bytes fill more
than one bucket of two; with one datagram under way whoever reads first
decides the rest, and answers of both sockets still compete since they may come
in any order one after the other. Every behaviour draws one kind of event
(`announce`, `age`, `stop`, `fail`, `boot`, `acquaint`) beside the search itself,
so the six meet the search, the loop and the tracker but not each other.

`parts` runs one part per behaviour, since they share no state. The buffer and
its file have 7 bytes, and writes up to 3: room for ranges that lie apart,
touch, overlap and are joined by a third. The table has ids of 2 bits, buckets
of 2 and 2 addresses: a full bucket, with stale and fresh entries, and an id
that comes back with another address. The tracker's client has 2 trackers with 3
attempts. The two peers make 4 calls between them beside their handshakes and
replies, where a time-out counts and a torn read too: enough for an interest,
its reply, a request and what comes behind it, or for a write that ends inside
of a message and the reads that follow it. Four pieces with distances 1 and 2
have each priority at once; 2 moves change the playhead and then the target. Two
hashes and three writes, two at a time, give an entry that is rewritten, a write
across a clean-up, and sizes above and below the threshold; two clean-ups may
have the same file to remove, one of them without success, and three times let
the clock go on, stand and go back. The player has one medium of each kind but
qvod, 2 inputs and 2 entries; one answer between frames is enough because
answers are applied one by one. Hashes, the two peers and the two clean-ups are
interchangeable, so states are counted up to that symmetry.

`MaxStreams`, `MaxPlays`, `MaxSeq`, `MaxDgrams`, `MaxCalls`, `MaxSeeks`,
`MaxWrites`, `MaxWriters`, `Times`, `Cleaners`, `MaxInputs`, `MaxEntries` and
`MaxStatuses` cap what is unbounded in the code. Deadlock is not checked where
the system may stop: all downloads over and the bound on streams used up.

The violated properties quote a sentence of the repository's documentation and
show that the code does something else; see "findings" in `PROJECT.json`.

Other differences were seen while the models were written. They show in the
definitions themselves and have no run of their own.

Streams and the local server:

- Only the qvod loop reads the paused flag, so `pause` does not stop an http or
  a file download, while docs/api/README.md:169 says "Pause download (not
  playback)". This is why `PauseStopsQvod` speaks of qvod streams only.
- The end of a requested range appears in `Content-Range` and is otherwise
  ignored: the body runs to the end of the file (docs/api/README.md:55). No 416
  is ever sent (docs/api/README.md:62).
- A full response channel does not slow the download (agents/gateway.md:1470):
  the streaming task waits for room with the engine's mutex held
  (handler.rs:159), so it holds up every other request, and the download goes on.
- The rate limiter takes the time before its lock (middleware.rs:36), so waiters
  may enter times out of order, and more requests than 100 fall into a window.

Reliable UDP, peers and pieces:

- A packet whose first send fails keeps its place in the congestion window
  (udp_stream.rs:161, agents/download.md:794), so enough of them close the window
  with nothing under way. `InFlightCovered` and `WindowReopens` allow for it.
- `read_exact` waits with the stream's mutex held (tcp_stream.rs:118): a write of
  the same peer waits for the read. A write that times out, fails or is dropped
  inside of a message leaves its part on the stream (tcp_stream.rs:109), and what
  is written next is misframed for a reader that did nothing wrong. Two readers
  of one stream, or `read_keep_alive` while a message comes, take each other's
  bytes.
- An `Interested` is answered with `Unchoke` while `am_choking` stays set, and the
  requests that follow are refused (peer_wire.rs:59).
- A failed or dropped download leaves its piece requested, so it is never asked
  for again; a dropped one also leaves the counters raised (p2sp.rs:134). An http
  source added later has no client (p2sp.rs:319). Priorities that were computed
  once survive seeks (scheduler.rs:36).

DHT and trackers:

- An answer to a ping decodes as a ping (rpc.rs:205), so a bootstrap inserts none
  of its seeds and fails with an empty table (bootstrap.rs:48).
- Secrets are never rotated (token.rs:51 has no caller), and lists of peers may
  hold a peer twice. That no announcement of another node is accepted is the
  finding of `announcements`.
- Transaction ids are written and never compared. The refresh asks for its
  buckets one after the other inside the receive loop, and drops the requests
  that come meanwhile.
- The bucket of every foreign id is the last, so a table holds eight foreign
  nodes.
- Peers that a tracker lists as dictionaries get the address 0.0.0.0; an answer
  without peers ends the search although other trackers are left.

Cache and desktop client:

- The cache evicts by the time of the last write and counts the size of the first
  write of an entry. docs/cache/README.md:86 and :262 let a lookup and a read move
  an entry to the front, and :433 measures what is on disk (agents/cache.md:17 and
  :487 too): an entry read just now and written long ago goes first.
  `CleanupKeepsFresh` is what is true of either: nothing goes that was written to
  after the last use of something that stays.
- A failed write, a failed removal (cache.rs:230, cache.rs:240), a clean-up dropped
  between two removals and a restart leave files that no clean-up finds; a write
  that overlaps a clean-up leaves an entry without its file.
- Stop never reaches the server: `stop_pressed` is set and cleared by `reset()` at
  once (controls.rs:53, app.rs:271), so the branch at app.rs:627 is dead and the
  server is paused and moved to the start instead. Play, pause and stop of the
  menu do nothing.
- An answer that was asked for an earlier stream is applied to the present one
  (app.rs:684). A slow server is asked again in every frame (app.rs:755). With an
  unreachable embedded server the player shows Buffering for ever (app.rs:880).
- The click that opens the context menu may close it in the same frame
  (playlist.rs:83). An edit by the list's owner while the menu is open leaves the
  menu's index behind, and Remove takes another entry or panics (playlist.rs:73).

## Fairness

`downloads` and `stop` assume weak fairness of each download task
(`Download(g)`): the runtime polls a task that can proceed, and a source that
was asked answers or fails. The http client of the loop has no timeout, so for a
server that never answers this is an assumption. Nothing is assumed of commands:
clients may pause for ever, or never come back. `bodies` adds that the streaming
tasks, the handlers that hold the mutex and the play in progress go on, that the
mutex is fair (tokio's is), and that viewers go on reading or leave. That last
assumption is needed: a client that does neither holds everybody up, since the
task that waits for room in its channel has the mutex.

`transport` assumes that the owner of the transport calls `retransmit_timeout`
again and again, each call running to its end or to its first failure, and that
a packet that waits is due at some of these calls (strong fairness, because
other calls come in between). The method is of no use otherwise, but no caller
in the repository shows it.

`discovery` assumes weak fairness of what was begun at the node that searches:
its receive loop, bootstrap and lookup go on once they can, each wait for an
answer has a time-out of 5 s, and a request to a tracker ends. Nothing has to be
begun, no owner has to act, and the network and the other node owe nothing.
`parts` states no liveness.

## Proofs

`RecursionProofs` has what takes the place of induction, with sets and functions
for the operators an induction theorem would take: a set of numbers has a least
one; what holds of a subset as soon as it holds of the smaller ones holds of all
(`SmallerFirst`); a function that repeats a step (`Iterates`, from `Climb`) and a
fold over a finite set (`FoldExists`) exist, so that their equations may be used.

`RingBufferProofs`: the inductive invariant of the window is `TypeOK` and
`WindowHoldsFileBytes` themselves. Lemmas show that each slide, the store and
the merge keep a well-formed and aligned buffer; `WindowTheorem` combines them
for every capacity, file size and write length. `ReadAfterWriteTheorem` needs in
addition that the window of a write contains it (`WindowFor`), which is where
`ChunkFitsAssumption` is used. `ReadTheorem` assumes `Cap >= Total`: then the
window never moves, and the extra invariant (`Faithful`) is that every filled
offset holds its byte. `CopyTheorem` uses it too: since no write slides such a
window, `MergeCovers` says which offsets a write adds, and the buffer implements
`FileCopy`. `RangesTheorem` adds that no two ranges overlap or touch (`Apart`),
which merging and sliding keep. The sum of the lengths of such ranges is the
number of bytes in them, by `SmallerFirst`. `LoopTheorem` goes through the turns
of `merge_range`: what the new range has grown to so far meets no range that the
new range itself does not touch, because the ranges have gaps (`FusedGrows`); so
the pass takes out what the closed form does, and ends with the same bounds.
Without the gaps the two differ.

`EngineProofs`: `TypeTheorem` proves `TypeOK` together with the fact that a
loop which is still fetching has an offset below the size and an error count
below the limit; both are needed for the bounds of the next step.
`EndedTheorem` and `NewestTheorem` are inductive given the types.
`PauseTheorem` needs to know where a paused qvod task stands: once it has
written its late chunk it is past the check, and before that the count is zero
(`PausePhase`). `PauseHoldsTheorem` is inductive. `ProgressTheorem` ties
`filled` and `progress` to the offset of the task at each of its steps
(`Phase`).

`UdpTransportProofs`: typing needs that a packet still to be retransmitted has a
retry left. `AccountedTheorem` needs that every acknowledgement on its way is
true (`AcksTrue`). `InFlightTheorem` counts the pending packets before and after
each step.

`GatewayProofs`: `Placed` says that whoever waits for the mutex, or is inside,
stands at one place in the queue, and who is inside at its head; futures are
dropped from any place, so `Removed` shows that cutting one place out keeps the
others. `MutexTheorem` follows by counting. `Served` adds the types and, per
viewer, that the chunks sent follow each other and that `pos` is where the next
one goes on; the product of lengths and chunk size is the reason for its lemmas
on arithmetic. `AnswerTheorem` rests on `Placed`: while a streaming task is
inside, every step of others that could unregister the stream, or take its end
back, needs the mutex it holds.

`RoutingTableProofs`: a bucket (`Buckets`) holds at most `K` entries with
different ids, a table (`Tables`) at least `IdBits` buckets. Insertion keeps
both, through refreshed, appended, replaced and refused entries, and every node
that is not stale stays somewhere in the table (`Lasts`); when a bucket is split,
its entries go to the two halves by their ids. `Kept` and `InsertAll` are
recursive functions, which `Iterates` and `Climb` are for.

`DiscoveryProofs`: `TokensOwn` has the shape of the loops, and that every
announcement under way, and the one a receive loop is busy with, has a token of
its sender for its receiver, which is why the receiver refuses it. `StopTheorem`
needs of it only the shape: a loop that is busy comes back to its head, the only
place that looks at the flag.

`BoundsTheorem` and `AnswersTheorem` rest on `Bounded`. Its datagrams have the
shape `encode` gives them (`Shaped`) and go where they should (`Routed`): only a
bootstrap pings, and its socket is none of a node, so a node never gets the
answer to a ping, the one answer that `decode` takes for a request. Of the
others, an answer with n nodes or peers has 20 + 26n, 23 + 26n or 23 + 6n bytes
and never 40, the length of a request (`AnswerLengths`); one that announces
nothing has 21. So what a loop makes of an answer is an answer, or nothing it can
read (`Busy`). Tables take only nodes whose ids are ids, through every lookup,
bootstrap and garbage (`TablesStep`), and rounds are counted where they begin.

The tracker's client: in `RoundsKept` the failures counted are those of the
attempts made, none for the trackers left and all for those behind.

`PartsProofs`: `KnownNodesTheorem` is `Lasts`, step by step.

For `MessagesTheorem`, `PeersInStep` says, for each direction, that the bytes
on the wire are whole messages in their frames, but for a first one that is
partly read and for a tail that may spell nothing, where a write ended inside of
a message; and that the messages due are those the whole ones spell. What a read
takes off the front is then what the other side said next. A peer whose own read
ended inside of a message, or that came to such a tail, is torn: nothing is said
of it from then on.

In `CountersTheorem`, `Settled` adds to the property that requests are of
pieces marked requested, which a failed download does not take back; so the
next piece is none of them. In `StrayTheorem`, `NoStrayFiles` is inductive
given the shape of the state, in particular that a write under way names a hash
of the cache: a removal that fails, or that is never tried, puts its file among
the strays, and the file of a removal that is still to come is known to its
clean-up.

For `FreshTheorem`, `InTime` says that an entry's time of access is that of its
last write, and, while the clock has not gone back, not after its last use, nor
that after the present. Entries go by a clean-up or a restart only
(`EntriesGo`), and what a clean-up takes stands before the rest in the order of
the times of access (`CleanupOldest`), whichever of the orders the sort chose
among equal ones.

`EchoTheorem` and `IndicesTheorem` share the invariant that the selected entry is
one of the list, and that no stop is pressed between frames (one that is pressed
is taken back in the same call); a frame that began with one could send it
without input. Each part of a frame leaves the list and
what it points at alone, or is an edit, which moves the selection with its entry.
Nothing is said of the index of an open menu after an edit.

Assumptions: the named ASSUMEs of the modules, which TLC evaluates in the runs.
For the DHT they are that limits are numbers and ids are ids, and that the
socket of a bootstrap is not one of a node (`SocketsAssumption`: `bootstrap` binds
its own).

Only model-checked: the liveness properties, because TLAPS does no fairness.
Every other property of the passing runs is stated by a theorem. Nothing is
proved about the Rust sources themselves: that a definition says what the code
says is read off the lines in `map`.

## Not modelled

- Connection pool, NAT traversal, transport statistics: no awaits between reads
  and writes of their state, or single requests to servers outside; no caller.
- Rate limiter, CORS, port binding and start-up: see the differences above for
  the limiter's one subtlety.
- Seek index, adaptive buffering, HLS, metadata: calculations without state that
  no modelled guard reads.
- A/V synchronisation, decoders, renderer, skins, settings, other pages: `Desktop`
  takes the decoder as a source that has frames or ends.
- Formats, bencode, URIs, core types: only what a parse tells apart matters to
  the modules.
- Token rotation and DHT statistics: nothing calls the first, and nothing that is
  modelled reads the second.
- The lookup and the completion of the cache's `.qmv` files, which no code writes,
  and the bitfields of its entries, which nothing reads.
- The offset of a file that a failed `read_exact` leaves, and servers that ignore
  the Range header: the buffer model assumes that a loop writes the bytes of the
  offset it names.

Logging, header and JSON formatting and drawing are left out everywhere.
Positions, speeds and peer counts of the engine are data no guard reads.

## Plan

What is left, in the order of what it would add:

1. An abstract specification of a stream (not played, fetching, paused, over)
   that `Engine` implements, with its theorem from the invariants of
   `EngineProofs`, and `Gateway` over it.
2. What a lookup returns and stores: the peers it heard of are those that were
   announced or misread, as an invariant of the DHT as a whole.
3. Sessions and piece downloads composed under a caller, once the engine has
   one.
