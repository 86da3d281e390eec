# Verification of PulseChat

TLA+ modules that model PulseChat, the TLC runs that check them on small
instances, and proofs checked by TLAPS. Paths are those of the repository, which
the maps and findings of `PROJECT.json` name under `src/`.

## 1. The system

PulseChat is a chat service. A C++ server, in two versions, speaks a
length-prefixed binary protocol (PCAP) over TCP. A Node gateway bridges browsers'
WebSockets to one TCP connection each and stores accounts and history. A React
front end and a terminal client are its users.

| Component | State it keeps | Operations | What makes it correct |
|---|---|---|---|
| Room registry, `src/core/room_manager.cpp` | `users_by_id_`, `users_by_name_`, `rooms_`, one lock | register, unregister, join, leave, look-ups, listings | the name index is the exact inverse of the records; a user is a member of the room it is in; only `general` may be empty |
| Reactor server, `src/reactor/reactor_server.cpp` | `connections_`, the registry, the metrics | event loop; accept, read, write, close; 14 opcodes; heartbeat check; stop | the registry follows the connections; a close hits the connection meant; output drains; all clients hear one conversation |
| Reactor connection and epoll dispatcher | in and out buffers, time of last activity; interest sets | queue, flush, `mod_fd` | nothing queued is forgotten or overtaken |
| Frame buffer and codec, `src/core/buffer.cpp`, `protocol.cpp` | array, read and write cursor | append, compact, consume, extract; encode and decode a header | framing is a FIFO channel of messages however TCP cuts the bytes |
| Metrics, `src/core/metrics.cpp` | counters, last snapshot | record, snapshot | the count of active connections is exact |
| Classic server, `src/classic` | `clients_`, one thread per client, a reaper, a reporter | accept, per-client loop, send, reap, stop | no descriptor leaks; who is registered is served; no thread waits for what cannot come |
| CLI client, `src/client/client_main.cpp` | socket, `running_` | receive loop, heartbeat loop, commands | leaves in order |
| Gateway, `gateway/src/server.ts` | `activeSessions`, `userPresenceMap`, metrics socket | one handler per browser action, TCP data, closes | presence and sessions agree; the gateway's idea of a user's room is the server's |
| Gateway parser, `gateway/src/pcap.ts` | byte buffer | `push` | reads a stream as the C++ codec does |
| Gateway store, `gateway/src/db.ts` | users, rooms, messages; a JSON file | register, create or join a room, save, history | one account per handle and per e-mail; locks that stay; a history without gaps |
| Front-end hook, `frontend/src/hooks/usePulseChat.ts` | profile, messages, current room, conversation, socket; `localStorage` | connect and reconnect, log in and out, merge, deduplicate, persist | users of one browser are kept apart; what is shown is what the server hears; every message is shown |
| Components that act, `Sidebar.tsx`, `RegistrationModal.tsx`, `main.tsx` | remembered passwords, the login dialog | enter a room, log in, take a token over | they leave the hook consistent, whatever arrives late |

**Interactions.** The servers call the registry directly. The reactor is one
thread, so its hard behaviours come from its own call stack: a failed send in a
broadcast closes a connection, which broadcasts in turn, while the outer loop
still holds a list of members, a reference to a connection, or a batch of events
gathered earlier. The classic server has the same commands with real threads,
so descriptors change owners between a look-up and a use. The gateway reacts to
callbacks of two sockets per session and keeps its own copy of what the server
knows; the browser keeps a third copy, which has to survive reconnects, reloads
and changes of user. The hard behaviours, each at its line, are the `hazards` of
`PROJECT.json`, with the properties that would catch them going wrong.

## 2. Modules

| Module | Models | Used by |
|---|---|---|
| `RoomDirectory` | abstract: names claimed without regard to case, one room per user | `RoomManager!Directory` |
| `RoomManager` | the registry, one action per operation | `Reactor`, `Classic`, `Gateway` (`RM == INSTANCE`), `MCRoomManager` |
| `Reactor` | the epoll server with kernel sockets and clients | `MCReactor` |
| `Classic` | the thread-per-client server with the kernel's descriptor table | `MCClassic` |
| `FrameChannel` | abstract: a FIFO channel of messages | `FrameBuffer!Channel` |
| `FrameCodec` | the layout of a frame, written and read | `FrameBuffer`, `PcapParser` |
| `FrameBuffer` | `ByteBuffer` and the codec at the end of a TCP stream | `MCFrameBuffer` |
| `PcapParser` | the gateway's parser at the end of a TCP stream | `MCPcapParser` |
| `StoreData` | the store's data and what its methods compute | `MessageStore`, `Gateway` |
| `MessageStore` | the store as a process with its file | `MCMessageStore` |
| `Gateway` | sessions, presence and bridges between browsers, store and server | `MCGateway`, `ChatClient` |
| `ChatClient` | one browser of the web client on top of `Gateway` | `MCChatClient` |
| `RoomManagerProofs`, `FrameCodecProofs`, `FrameBufferProofs`, `PcapParserProofs`, `MessageStoreProofs`, `GatewayProofs`, `ClassicProofs`, `ReactorProofs` | theorems about the module they extend | |
| `MC...` | instances for TLC | the `.cfg` files |

Operators named `Bad...` are mistakes one could make in the definition that
follows them. No specification uses them; each property was tried against one
and does notice it.

### RoomManager

`usersById`, `usersByName`, `rooms` are the three maps, as partial functions.
Every method of the class takes the exclusive lock before its first read, so it
is one action. `Insert` and `Erase` are the map operations repeated in the code
(`rooms_[r].members.insert`, and erase with the removal of an emptied room). A
call that is refused changes nothing, so it is not a step. `NormalizeName` is a
constant function: two spellings of one handle are all that lower-casing can do
to the maps.

A connection that already has a name may register again. `register_user` then
gives back the old name and adds the connection to `general`, but does not
remove it from the room it was in (room_manager.cpp:43-60). The members of a
room are therefore not exactly its users, and the room's messages reach somebody
who has left. `StrayOnlyByRename` says that this is the only way such a
membership comes about. It also survives `unregister_user`, which looks only at
the room of the record, and so falls to the next client with that descriptor.

### Reactor

The event loop is explicit. `Wait` gathers a batch of ready events, `TakeEvent`
looks at one, `CheckHeartbeats` ends the batch. A handler is a sequence of calls
on `todo`, the call stack: a step carries out its head and puts the calls it
makes in front of the rest. `send_message_to_fd` is one step (queue, flush,
`EPOLLOUT`), and a failed one puts `handle_close` in front of the sends still to
come, exactly as the nested call in the code. `CloseConnection` is
`handle_close`: registry first, then the connection, then the broadcast to the
room. Only `Stop`, which runs inside a signal handler, and the clients act
between two steps.

- `sock[c]` is the kernel's side of a connection: frames not yet read (`rx`),
  messages in the send buffer (`tx`), end of stream and reset. A kernel buffer
  holds `SendBuffer` messages. A partial send leaves whole messages behind; how
  bytes are put back together is the subject of `FrameBuffer`.
- `conns` is `connections_`; `accept` takes the lowest free descriptor, as the
  kernel does, so a descriptor closed in a batch comes back in the same batch.
- `quiet` holds the descriptors silent for longer than the heartbeat timeout.
  `Silence` is the passing of that time; reading any bytes ends it.
- Destroying the connection that the frame loop works on leaves it reading freed
  memory (reactor_server.cpp:164, 198). The model lets it find nothing
  (`AbandonFrames`) or the frames that were there (`Processing`), both of which
  builds produce. A `USER_REGISTER` found there leaves a registered user without
  a connection; `GhostOnlyFromFreedBuffer` says that nothing else does.
- An event with `EPOLLRDHUP` closes before data is looked at, and `handle_read`
  drops what it read together with the end of the stream: frames sent just
  before an orderly end may never be processed. The model has both orders.
- Messages carry what the properties need: chat and private messages who sent
  them and which frame it was; notices, errors and answers only their kind.
  `HEARTBEAT_ACK` from a client is ignored by the server and not sent here. A client
  reads one message at a time and remembers the chat and private ones (`got`).

### Classic

A step is what a thread does between two locks or system calls, and `todo[t]` is
the call stack of thread t. Threads know connections by descriptor, the kernel by
open file: `file` is the descriptor table, and a call on `recv` or `send` that
has begun stays with its file while another thread closes the descriptor, or
closes it and the listener gets it again. The next call finds whoever has the
descriptor then. A command is a sequence of registry calls, each atomic by the
registry's lock, so `AskUsername` and the `Carry...` actions are apart.

What the model shows of the code, as it is:

- The reaper and a `DISCONNECT` end a connection by `close` alone. A worker that
  is in `recv` on it stays there (Linux does not wake it); its peer is not told,
  and `stop()`, which joins every worker, does not return. After a `DISCONNECT`,
  or when its descriptor was given away, a worker goes on with the connection that
  has the descriptor by then. These are the `Stranded` workers of `NoIdleWait`.
- Sockets block. A client that does not read holds up the worker that sends to it,
  with the `send_mutex` of its context, and whoever else sends to it, the reaper
  included (`Slow`, `HeldUpBy`); meanwhile a client served by one of these that hangs up keeps
  its descriptor. `stop()` wakes them by shutting the connection down, unless
  `handle_disconnect` has closed it before: then it is in `clients_` no more, and
  `stop()` waits until that client reads or leaves.
- A sender looks the context up, lets `clients_mutex_` go, and writes to the
  descriptor under the `send_mutex` of the context it found, which is another than
  that of the connection if the descriptor has changed hands.
- A failed `accept` ends the listener, and `wait_until_stopped`, which joins only
  the listener, lets `main` end: the server stops (`AcceptFails`, `MainEnds`).

`stop()` has two callers. `main`, once the listener has ended, reaches it through
`~ClassicServer` (`MainEnds`): it closes the clients and joins the threads, and when these
joins return is what `NoIdleWait` says. The signal handler (main_classic.cpp:8-13)
runs it on the thread the signal interrupts, which is in no state to do so (`Signal`):

- If that thread holds `clients_mutex_`, line 71 waits for it for ever, and nobody gets the
  mutex any more (`handler = "stuck"`, `ClientsMutexFree`). A locked part is one
  step, and counts as interrupted at its beginning. The listener's socket is shut
  down already, so the listener ends, unless it has a connection in hand and needs
  the mutex too: then the process hangs (`Hangs`).
- Otherwise the handler closes the clients, and its first join throws: `main` is in
  `listener_thread_.join()` (line 96), or the handler is on the listener's own
  thread (a second or a self-join fails in glibc with `EINVAL` or `EDEADLK`).
  Nobody catches the exception.
- Meanwhile the listener ends; if the signal is on another thread than `main`, `main` returns,
  finds `running_` false, and destroys threads that were never joined.

The last two end in `std::terminate` (`Terminate`): the process goes in the middle of
whatever its threads do. Which thread is interrupted matters only if it
holds the mutex. Interrupting another one than `main` merely keeps it from going on for a while, as
a slow scheduler would. Other locks a handler may need again, those of the log and of
the allocator, are left out, and so is a signal before `main` waits or after the listener has ended and
before `stop()`, whose effect is that of `MainEnds`.

A frame arrives whole, and of the messages to
clients only the room they take up in a send buffer is kept.

### FrameCodec and FrameBuffer

Bytes are numbers below `Base`; a header has the five bytes of the code, an opcode
and a length in network order. The sizes of the buffer are parameters; the instance has an array
of two cells, reads of up to four bytes and compaction past two, in the
proportions of the code (4096, 8192, 4096), and frames of five and eight bytes, so
that growth by doubling and beyond, compaction by either condition, and reset of
the cursors all occur.
`Receive(n)` is one `recv` of any number of bytes, then `append`; the loop of
`handle_read` may receive again before it extracts. `ExtractFrame`, `NeedMore`
and `Corrupted` are the three outcomes of `extract_message`. The cells outside
the cursors keep their old bytes, so reading past the end would be noticed.
`stream` and `consumed` are history variables of the properties.

The server puts the room and the author in front of a chat message and
serialises the result without a limit (reactor_server.cpp:269, protocol.cpp:11).
A chat message of nearly `MAX_PAYLOAD_SIZE` bytes thus becomes a frame that
`decode_header` refuses; the command-line client's receive loop ends at it. The
gateway's parser has no limit and reads it (`FramesInOrder`).

### PcapParser

`Push(n)` is one "data" event. `Scan` is the loop of `push`, a recursive function
of the position in the buffer: what it returns and what it keeps. It has no length
limit and steps over one byte when it does not know the opcode. `CodecFrames` is
what the C++ codec makes of the same bytes, for comparison.

### StoreData and MessageStore

`StoreData` has the schema and, as operators on it, what the methods of
`PulseDatabase` grant and compute. Strings are classes of spellings: `HandleOf`,
`CleanEmail`, `LowerRoom` and `StoredRoom` are what trimming, lower-casing and the
replacement of characters do to them. A room's history is looked up by
`LowerRoom`, its lock by `StoredRoom`, as in the code, so two rooms may share a lock.
`MessageStore` adds the file. `Save` is `writeFileSync`, which truncates before it
writes: it succeeds, throws before or after the truncation (which `save` logs and
ignores), or dies with the process. `Load` is what `init` makes of the file. `log`
and `stale` are history variables: the messages of this life of the process, and
whether the last access to the file failed.

A torn file is not an error to the code: the store starts from its defaults, and
the next save puts those in place of what was lost.

### Gateway

A handler of Node runs to its end and is one action. `session`, `presence` and
`store` are the gateway's own records; `tcp`, `toServer` and `conn` are the two ends
of the bridge's TCP connection and the frames under way on it; the server is its
registry, which takes a frame up in a later step and may refuse it. What the
server answers is passed on unread, so it plays no part here.

A connection stands for a WebSocket, its TCP socket and the server's descriptor,
reused together. `drifted` holds the connections on which the server has refused
what the gateway had already done, or on which the two have differed.
`DriftOnlyByRefusal` says how that comes about; a session outside `general`
that registers is the other way, since the gateway keeps the room and the server
sets `general`.

### ChatClient

One browser and a peer on top of `Gateway`, whose actions it takes over
(`Register`, `JoinRoom`, `WsClose` and so on) and pairs with what is sent to the
browser. `up` and `down` are the WebSocket's two directions. React renders and runs
effects after every handler, so the refs that mirror state are the state, and
`Persist` writes `localStorage` with every change, as the effects do. The browser
reconnects through new connections while old ones linger at the gateway and the server.

Three history variables mark the known exceptions, each for a behaviour of the code:

- `mixed`: a user logs in on a WebSocket on which somebody else has logged in
  (a login refused, or another name chosen before the answer came). Answers to the
  first are taken for the second's.
- `astray`: on this WebSocket something has happened after which the page and the server may
  differ about the room. A room was refused outside `general` (the page shows `general`, the
  server does not move the user). He logged in with another room shown, or for a second
  time (the page keeps its room, the server puts him in `general`). He joined a room whose name
  `/You joined room #([\w-]+)/` reads otherwise: of `lab.2` the page shows `lab`. A notice
  quoted words that the page takes for the answer to a join or a leave, and moved it. Or
  the WebSocket was opened with a room shown that the server does not admit.
- `missed`: the server took up a private message before the recipient's
  `USER_REGISTER`, after the gateway had listed what is stored.

The page knows its room and that it is registered from the words of
`SERVER_NOTIFICATION` and `ERROR_RESPONSE` alone (usePulseChat.ts:330-455), which it searches for fixed
phrases. Some quote what people have written: the echo `[DM to ...]: text` of a
private message, the notices of joining and leaving with their room's name, and
the errors that name a room. `Answer` therefore sends all of these, and constants say what
the page reads in a text or a name: `JoinRead` and `ShownRoom` a room, `Returning` a
return to `general`, `Welcoming` a welcome, `ErrorRead` a refusal. `Notified`
is what the page makes of a notice; a notice that says nothing to it is not sent
(`Notice`). `ShownAsHeard` compares the room shown with the room itself, not with
what the pattern makes of it.

`ClientAssumption` says that what the browser sends is already trimmed and in the
form the gateway keeps, `PatternAssumption` that the patterns read a room's name or
nothing, and nothing at all in `general`, and `PeerAssumption` that the peer asks for what
a browser may ask for (`MayAsk`).

Lists that are only shown, toasts, chimes, notices in the feed and the
heartbeat are left out. Notices count among the 15 last messages of the
deduplication and the 300 persisted; without them the model looks back further than the code.
What is under way when the page closes its WebSocket or is loaded again is lost in
the model; what would still reach the gateway counts as come before (`OnClose`).

## 3. Runs

| Run | Question | Instance | Result |
|---|---|---|---|
| `room_manager` | are the maps consistent, and do they implement the directory? | 3 connections, 4 spellings of 3 handles (one invalid), 4 room names (one invalid), no bound on calls | holds; the state space is finite and complete |
| `reactor` | one conversation, with every command? | 2 clients, 2 descriptors, 4 frames in all, send buffer of 1 | holds |
| `reactor_faults` | no connection lost, shared or closed without cause; no output stranded; users without connection only as described? | 2 clients, 3 frames, 1 hang-up or reset, 1 silence, shutdown at any time | holds |
| `reactor_live` | output drains, hang-ups are noticed, the silent are reaped? | 2 clients, 2 frames, 1 fault, 1 silence, invalid frames | holds under fairness |
| `reactor_stale_event` | does a hang-up close the connection that hung up? | 3 clients, 2 descriptors, 2 frames, 1 fault | violated |
| `classic` | do descriptors leak, is a user left behind, what does a thread wait for that can no longer go on? | 2 clients, 2 names, 2 descriptors, 3 events (frames, hang-ups, silences, a signal) and a failing accept, send buffer of 1 | holds, with the exceptions stated |
| `frame_buffer` | is framing a FIFO channel, and do all frames come out? | 3 messages, each empty or of the largest size, 2 kinds of junk, every cut of the stream | holds |
| `pcap_parser` | does the gateway read the stream as the C++ codec does, however it is cut? | 3 messages, one over the codec's limit and made of header bytes, 3 kinds of junk | holds |
| `message_store` | what do failed writes, crashes and restarts do to accounts, locks and history? | 2 handles, 1 address and guests, 2 rooms, 3 messages a life, caps of 1 and 2 | holds |
| `gateway` | do presence, names and rooms agree between sessions, store and server? | 2 connections, 1 address and guests, a name and a room the server refuses, 3 requests in all | holds, one property under fairness |
| `chat_client` | are users kept apart, are name and room shown as heard, is every private message shown, and only a repetition dropped? | 2 connections of the browser and a peer, 2 users, 3 rooms of which the page reads one in part, private messages that say somebody returned and welcome, 4 moves of the user or the network, 3 requests | holds, with the exceptions stated |
| `client_dms` | is a stored private message shown once the login is over? | the same, 1 user, 3 moves, 2 events under way | violated |

**Bounds.** `MaxFrames` bounds what all clients send together, `MaxFaults`
hang-ups and resets, `MaxPauses` long silences, `MaxSent` the messages on a
stream. Four frames are enough for two users to register, one to move and one
to speak, or for a user to register, disconnect and do so again on a reused
descriptor; a send buffer of one message makes the second message wait. The
interactions of interest are of two connections; three are needed when a
descriptor has to change hands within a batch, and that run has them.
In `Classic`, three events (`MaxEvents`) are enough for a worker to lose its
descriptor to another connection and serve that one, with a shutdown besides, and for
a worker to be held up by one client while its own hangs up; each exception of
`NoIdleWait` is reached: stranded workers, threads held up before and
after `stop()`, at a send and at a mutex, and the hang after a signal. A send buffer of
one message stands for any: a client that does not read fills it.
`MaxSaved` bounds the messages of one life of the store; lives are not bounded,
and three messages pass both caps. `MaxActions` bounds what browsers ask of the
gateway together, `MaxQueue` the frames under way: three let a session log in,
move and speak, or two sessions of one name log in and one of them move on.
`MaxMoves` bounds what the browser's user does and what goes wrong with his
connection, `MaxUp` and `MaxDown` the requests and events under way; four moves
are a login, a lost connection, a reload and another login in any order. In
`chat_client` the page is moved by the echo of the user's own message and by a room
read in part; notices about others that quote a room's name, errors that do, and
a room the server does not admit are left to the theorem. The
deduplication window, the persisted 300 messages and the limits of histories
are never reached by so few messages; what the caps of the store do is the
subject of `message_store`. `Person`, `Contact`, `Visited` and `PeerAction` restrict who does
what to what the property is about. `SYMMETRY`
over clients is used where only invariants and step properties are checked; no
property or action tells clients apart.

**Deadlock** is not checked in the runs of the reactor, the classic server, the buffer, the parser and the
browser: frames, moves and faults are bounded and the servers may be stopped, so those systems come
to rest; what they may rest on is the subject of `NoIdleWait`, `IdleHasNoFrame` and `DmsShown`.
The runs of the registry, the store and the gateway check it.

**Fairness.** `Reactor!Fairness` assumes that the server's thread is scheduled,
which a process with one runnable thread and non-blocking sockets is; that the
heartbeat check is due again and again (strong fairness of
`CheckHeartbeats(TRUE)`: the loop comes by at least every 100 ms, reactor_server.cpp:66,
and the clock it reads goes on, so 10 s pass at some of its visits); and that a client
whose data waits reads it at some time. Nothing is assumed of clients that
send, hang up or fall silent. `FrameBuffer!Fairness` assumes that `recv` is
called while bytes wait and that the frame loop runs to its end.
`Gateway!Fairness` assumes that the server takes up what it has been sent and
that Node delivers the close event of a socket. `Classic` states no fairness:
`NoIdleWait` looks at the states in which no thread can go on, and a client that
does not read is one of them: `ClientRead`, like all a client does, comes from outside.

**Findings.** The two violated runs are disagreements between the code and what
the repository says of it; `findings` in `PROJECT.json` quotes both. A hang-up
event gathered in a batch closes the connection that has taken the descriptor over since.
And "delivery upon login" fails for a private message that crosses the login:
`MissedOnlyDuringLogin` shows that nothing else, no reconnect, reload or
logout, hides one, in an instance in which nobody is called as a room is. Where
somebody is, a third disagreement shows, which the proof of `WhispersShown` led to:
`appendMessage` says that it ignores the exact same sender, scope and text
(usePulseChat.ts:154), but its scope is the room or else the recipient (line 156), so what
was said in a room passes for the same words written to a user of that name, and
the private message is dropped. With a user `general` in the instance TLC finds it in
a few steps: he logs in, his peer says something in the room, then writes it to him.

## 4. Proofs

What is proved holds for every value of the constants that satisfies the named
assumptions, and every length of execution.

`RoomManagerProofs`, assuming `RoomManagerAssumption` (valid names are names,
valid rooms are rooms, `general` is valid):

- `TypeCorrect`: the maps keep their shapes.
- `RegistryConsistent`: `MapsConsistent`, that is `NameIndexExact`, `UserInOwnRoom`
  and `NoEmptyRoom`.
- `StraysComeFromRenames`: `StrayOnlyByRename`.
- `RegistryImplementsDirectory`: the registry implements `RoomDirectory`.

The argument is one inductive invariant, `IInv == TypeOK /\ MapsConsistent`. Its
parts need each other: that unregistering c
removes the right name needs the index to be exact, that it removes no other
user's needs names to be unique, and that a room dropped when empty had no other
user needs `UserInOwnRoom`. Lemmas say what `Insert` and `Erase` do to a map's
type, members and empty rooms; joining and leaving are both shown to be a `Moves`
to a room; registration is split into a first one and one that replaces a name.
For the refinement, the one look-up of `CanRegister` is shown to decide what the
directory's `Free` asks of every user, by `NameIndexExact`. The theorem on stray
memberships follows what each operation does to `MembersIn`.

`FrameCodecProofs`, assuming `CodecAssumption` (a byte has at least one value,
opcodes are bytes):

- `FrameParts`: a frame is as long as its header says, and its opcode, length and
  payload are read back as they were written.

The length is four digits to the base `Base`; `FourDigits` is the arithmetic of
writing and reading them. The two modules about streams rest on this one.

`FrameBufferProofs`, assuming `FrameAssumption` too (sizes are numbers, the array
has a cell, what is sent is made of bytes):

- `BufferTypeCorrect`: the cursors stay in order and inside the array.
- `NoByteLost`: `StreamKept`.
- `NoFrameForgotten`: `IdleHasNoFrame`.
- `BufferImplementsChannel`: `ImplementsChannel`, the refinement of `FrameChannel`.

`TypeOK /\ StreamKept` is inductive. One lemma per operation of the
buffer says what it does to the readable bytes, cell by cell: `CompactOK` and
`GrowOK` nothing, `StoreOK` and `AppendOK` that the new bytes follow, `ConsumeOK`
that a prefix is gone. The steps of the reader then only move a string of bytes
between the parts of the equation. `ConsumeOK` needs that no more is consumed than is
there, which `FrameSize` gets from the guard of `extract_message`.

The refinement needs to know where frames begin. Its invariant is that the bytes
not yet consumed are the frames not yet received, one after the other, and then
junk, if any was sent: so the frame that `extract_message` takes is the next one
sent, by `FrameParts`, and a refused header is never one of a message that fits.
This uses `PeerAssumption`: lengths of messages fit the four bytes of a header
(the code cuts `payload.size()` to 32 bits), and junk is what `decode_header`
refuses.

`PcapParserProofs`, assuming `CodecAssumption`, `ParserAssumption` and
`ServerAssumption` (lengths fit, as above):

- `AnyCutting`: `ChunkingIrrelevant`.
- `NoneWithheld`: `FramesInOrder`.
- `NoFrameMissed`: `SeesCodecFrames`.

`Scan` is a recursive function of the position in the buffer, and what it computes
is proved by induction over the bytes that are left. Two lemmas provide the
induction: `Descent`, for a set of numbers, from the well-foundedness of `<`, and
`TableExists`, that an equation which computes each entry of a table from later ones
has a solution, without which nothing is known of the function at all. `StepLocal`
and `TableShift` say that the table depends only on the bytes from a position on. The
heart is `PushedInParts`: scanning a string and then what it kept with more bytes
behind it returns what scanning all of it at once does, resynchronisation over
unknown bytes included. `NoneWithheld` then needs one step of the scan for each frame
sent, and `NoFrameMissed` compares the parser's step with the codec's, position by
position, until the codec refuses a header.

`MessageStoreProofs`, assuming `StoreAssumption` (the blank values are none of the
others, default rooms are rooms, the caps are numbers, the chat cap the smaller)
and `MessageStoreAssumption`:

- `StoreTypeCorrect`, `OneAccountEach`, `NothingUnsaved`, `NoGapInHistory`: the
  four invariants of the run.
- `AccountsKept`, `LocksKept`, and `GrantsKept` of both: its step properties.

The inductive invariant is their conjunction with a bound on the length of the
list in the file, without which a start could bring in a list longer than the cap.
That a claim leaves one account needs that there was at most one to free, which
is `OneAccountPerEmail` itself; that a start keeps it needs it of the file.
`RecentAppend` is the arithmetic of a list that is appended to, and cut, next to
one that is only appended to.

`GatewayProofs`, of the gateway, assuming `StoreAssumption` and `GatewayAssumption` (what the server
accepts, the gateway can ask for; a blank room name stays blank; the commands that
are only passed on are none of the others):

- `TypeCorrect`: `TypeOK`.
- `NamesAreKept`: `NameLostOnlyByOwnClaim`.
- `PresenceIsTrue`: `PresenceFollowsSessions`.
- `DriftsAreRefusals`: `DriftOnlyByRefusal`.
- `HeardInItsRoom`: `HeardWhereStored`.

`NamesAreKept` and `PresenceIsTrue` are about steps from states in which `Types`
holds. `StepCases` shows that of all steps only a login, a new WebSocket and the end of
one change who a session is or who is listed; the theorems look at those.
`NamesAreKept` then rests on what `WithAccount` does to the owners of accounts.

The type invariant is inductive with `Linked`, which relates the two ends of a
connection: an open session whose server listens has a socket that can be written
to, so nothing it asks for is lost on the way; nothing is under way to a server that
has closed; who is registered is connected. The registry's part of it is
`RoomManagerProofs`'s invariant, instantiated: the server's steps are the registry's
(`Steps`).

The last two need to know what a queue of frames will do, whatever its length.
`Course` is the table of who the server will take a connection for after each
frame; `CourseExists`, `CourseAppend` and `CourseTail`, each by induction, say that it
is well defined, that writing a frame adds one entry at its end, and that taking one
up removes the first. `Speaks` pairs each request's effect on the session with
its frame, and so a request changes both sides alike but for a registration outside
`general`; a frame that is not refused does to the registry what the table says
(`Taking`). `Placed` adds, of each chat message under way, that its sender will be in the
room it was stored under when its turn comes; it is inductive for connections that
are not in `drifted`.

The same module, of the browser, assuming `ClientAssumption`, `PatternAssumption` and
`PeerAssumption` besides:

- `ClientFollowsGateway`: every step of `ChatClient` is a step of `Gateway` or leaves it alone.
- `GatewayBehindBrowser`: so the five theorems above hold of the gateway with a
  browser and its peer at it, although it starts with the peer logged in.
- `ClientTypes`: `ClientTypeOK`.
- `FeedsStayApart`: `FeedsApart`.
- `PageShowsTheTruth`: `ShownAsHeard`.
- `WhispersAreShown`: `WhispersShown`, where nobody is called as a room is.

All rest on one inductive invariant, `ClientInv`. `Whole` is the gateway's. `Sound` is
the types and, of each persisted feed and the one on the page, that it holds its
user's mail only (`Mail`). `Fresh` says that a WebSocket nobody has logged in on has
nothing under way but what is said in rooms: the server may still have its identifier
as a member. `Apart` says that everything under way to or from a user who does not
share his WebSocket bears his name and no other, the frames at the server included,
so that what is answered, stored and listed is his. These three give `FeedsApart`.

What the page shows needs to know where the queues lead. `After` is the room the page
shows once it has read an event, and `Parts` says which events take it elsewhere than
the server has the user: a room read otherwise than it is called, a notice that quotes
what the hook looks for, an error that speaks of a room; reading one of those sets
`astray`. `Arrives` says that the page, if it reads all the events under way and none
of them parts the two, shows a given room in the end. `Places` says that this
is the room the server has the user in, or that a request or a frame which asks for a
room is still under way, the server having him in `general`; before the server knows
him, that his registration comes before any room, or he will be in `general`. This
is inductive only if he is registered once for each WebSocket: a second registration would take him
back to `general` without a word to the page. That is `Once`. `Words` are what the
doings of others make the server tell the user, and what it tells him of his private
messages: whatever they quote, either they leave the page where it is or they part the
two (`WordsStay`, `ArrivesStill`). `NoStray`, that
nobody is filed under `general` who is elsewhere, is there for the notice that
somebody else has returned to `general`, which the page takes for its own
(`Overheard`): whoever hears it is in `general`. Each action is first
reduced to one of seven kinds (`Turned`), and each part of the invariant is shown
of the kinds.

`WhispersAreShown` adds that events only come to the queue but for `Deliver`
(`OnlyDelivered`), and that two lines of equal scope, one of them private, are both
private where no user is called as a room is (`WithMessageHas`).

`ClassicProofs`, without an assumption:

- `DescriptorsNeverLeak`: `DescriptorsOwned`.
- `NobodyLeftBehind`: `UsersServed`.

The first is inductive together with `OneInHand`, the listener's holding one descriptor
at a time. Only `Accept`, `StartWorker`, `CloseFd`, `StopClients` and `Terminate` touch the
tables (`OtherSteps`); that a stale worker closes a descriptor it no longer has a
right to does no harm to them, since `close` and the removal from `clients_` are
done under one lock.

`UsersServed` is about what threads have still to do. Its invariant says that a user
has a worker on its descriptor with a call on its stack that will unregister or go on
reading (`Served`, `Keeps`), that below the handling of a frame there is always the
worker's loop (`FramesThenLoop`), and that only workers that have started have
such calls (`StartedOnly`). A step replaces the head of one stack; `StacksKept` says
once what that replacement must respect, and every command is shown to do so.

`ReactorProofs`, assuming `ReactorAssumption` (the bounds are numbers, a send
buffer takes a message) and `NamesAssumption` (what the registry accepts, a client can
send):

- `TypeCorrect`: `TypeOK`.
- `NoOutputForgotten`: `PendingAwaitsEpollout`.
- `ConnectionsAreExact`: `ConnectionsExact`.
- `GhostsComeFromFreedBuffers`: `GhostOnlyFromFreedBuffer`.
- `RegistryStaysConsistent`: the registry's `MapsConsistent`.
- `ClosesHaveCauses`: `CloseHasCause`.
- `AllHearOneConversation`: `OneConversation`.

The table of connections comes first. The inductive invariant adds to
`PendingAwaitsEpollout` and `ConnectionsExact` the shapes of the records
(`Shape`), that the table of connections and the open sockets are one to one
(`Owned`), and that the backlog holds each pending socket once (`Queued`): only
then does an accept give a descriptor to a client that has none. It says nothing
of `todo`: no nesting of closes, sends and broadcasts can upset the table, since
each call looks its descriptor up anew. Steps that keep who is connected are
covered by one lemma (`KeepingOK`), and all that write output by another
(`OutputOK`).

The rest is about `todo`. `Stack` says which calls may stand above which: at most
one read or frame loop, nothing but pending writes below it, and above it the closes,
sends and broadcasts it has made. `Pushed` is what a step may put in the place of
the head of the stack; each handler is shown to push no more, and every later
invariant is carried over a step by that one description. With `Kinds`, which
says what records hold, and the registry's invariant as an instance (`RMP`), this is
`Whole`, which implies `TypeOK`.

`ClosesHaveCauses` follows from `Causes`: a close for a failed write or an end of
stream is at the top of the stack as long as it is there, so nothing happens
between its cause and itself, and what a heartbeat check has found silent stays silent
until the loop comes by again.

`AllHearOneConversation` follows from `Talk`. The server says one thing at a time
(`OneVoice`), and it says the frames of a client in order, each once (`Said`,
`FramesOK`). What a call on the stack carries is new to all clients it has still to reach
and, if it has reached some of them, nothing was said to anybody since (`Voices`). So
what a client hears (what it has read, what its socket holds, what its connection
has queued, in this order) only grows at its end, by what is said last, and a broadcast cut short by a
close leaves some without a message but none with two in another order.
`TalkThinned` covers steps that only drop things, `TalkTold` those that say something.

**Only model-checked.** `MissedOnlyDuringLogin`: it does not hold for every value of
the constants, since users may be called as rooms are, and a peer who registers
under other names makes the stored and the whispered sender differ; the instance
has neither. `NoIdleWait`, which is about ENABLED, and all liveness, which needs
fairness: ENABLED and fairness are beyond the prover used. Induction over data is not, for recursive functions: the library's
theorems on it take an operator as a parameter, which the provers cannot instantiate,
but the same facts stated of a set (`Descent`, `Ascent`) serve.

## 5. Not modelled

- Listings of the registry and the rates of `Metrics`: they only read; the rates
  are floating point.
- Start-up of the servers, the periodic metrics reports, the texts of
  notifications beyond what the browser reads from them.
- The threads and the terminal of the command-line client; its side of the
  connection is the clients of `Reactor` and `Classic`.
- The gateway's metrics poller, its list of rooms and the telemetry copies of
  frames: nothing but the display depends on them. The poller's parser keeps half
  a frame over a reconnect, and then reads the first answers as its rest.
- In the hook: the heartbeat, `updateStatus` and `updateWsUrl`. The clean-up that
  a change of the address runs ends the heartbeat (usePulseChat.ts:491) and nothing
  starts it again.
- The login in the same tab, when no popup can be opened.
- The components that only show state, the audio, the tools, the deployment.

What further work would add, in order of worth: `MissedOnlyDuringLogin` under the
condition of `WhispersAreShown` and a peer of one name, which needs the store's list
of private messages followed through the queues; bytes in the output of `Classic`,
to follow messages interleaved on a reused descriptor; two browsers in `ChatClient`.
