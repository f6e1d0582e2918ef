# A TLA+ model of ssl-socks

ssl-socks carries tcp connections and udp datagrams over one TLS link between a
*local server*, which clients reach as a socks5 proxy or through transparent
redirection, and a *remote server*, which reaches the real destinations. It is
one C++20/Boost.Asio program (`src/*.cpp`); `config.type` selects the role.
This directory holds a specification of it, the model-checking runs and the
proofs. Paths below are relative to the repository (`src/raw_tcp.cpp` is the
repository's file of that name); line numbers are of the same commit.

## 1. The system

### Components

| component | state | operations |
|---|---|---|
| `base_relay` (`src/base_relay.cpp`) | `state` (UNINIT, INIT, START, STOP), queue `_bufs`, idle counter `_timeout`, its strand | `send_data`, `start_send` (a coroutine per call), `reset_timeout`, `timeout_down` |
| `raw_tcp` (`src/raw_tcp.cpp`) | `_sock`, `_sock_remote`, destination | three ways to start (`impl_start_local`, `impl_start_remote`, `impl_start_transparent`), `impl_start_read`, `impl_local_relay`, `internal_send_data`, `stop_relay` |
| `raw_udp` (`src/raw_udp.cpp`) | `_sock`, `_peers`, `_local`, `_remote` | `add_peer`, `del_peer`, `impl_start_recv`, `get_send_data_addr`, `internal_send_data`, `stop_relay` |
| `ssl_relay` (`src/ssl_relay.cpp`) | the TLS stream | `start_relay`, `impl_start_read`, `internal_send_data`, `stop_relay` |
| `relay_manager` (`src/relay_manager.cpp`) | `_ssl`, `_relays` (session to relay), `_srcs`, `_udp_srcs`, `_udp_send`, `_session`, `_state` | `add_request`, `add_response`, `add_local_raw_tcp`, `send_udp_data`, `set_ssl`, `manager_start`, `stop_manager`, the timer |
| `relay_acceptor` (`src/relay_acceptor.cpp`) | the listening sockets, the manager for the next link | `local_accept`, `remote_accept`, `local_udp_accept` |
| `server_start` (`src/main.cpp`) | the `io_context` and its threads | run, restart after an exception |
| pure code (`src/utils.cpp`, `src/gfwlist.cpp`, `src/relay_data.hpp`) | | addresses, block list, lengths of messages |

### How they interact

Every relay and every manager owns a strand; their methods run on it through
`run_in_strand`, which dispatches: at once when already there, queued
otherwise. Each I/O is a C++ coroutine on the owner's strand, suspended in
`co_await`. A client's bytes go reader of `raw_tcp` -> `add_request` ->
`send_data` of the `ssl_relay` -> TLS -> `add_response` of the other manager ->
`send_data` of the `raw_tcp` with that session -> its socket. START_TCP and
STOP_TCP travel the same way. The manager's timer ticks every `RELAY_TICK`
seconds and calls `timeout_down()` of each relay; one that falls to zero is
stopped and erased.

### What is hard

* two coroutines per relay may run the send loop, since both the starter and
  `send_data` spawn one;
* a completed read or write is resumed by a later step of the strand, and
  `stop_relay()` may run in between; a resolver is not cancelled by it at all;
* `RELAY_STOP` is not absorbing: a sender that finishes its loop, a late
  connect and the handler posted by `impl_start_transparent` overwrite it;
* the manager erases a session's entry before the relay has stopped, and reads
  `state` and `_timeout` from another strand;
* both ends of a session can end it at the same time, for any of five reasons
  (end of file, a failed write, STOP_TCP, the idle timer, a failed start);
* sessions are numbered from one counter in two ways, links are restarted under
  sessions that live on, udp peers are kept in three tables.

### What makes each part correct

* *relay*: one write at a time; a buffer pushed is written once, in order, or
  the relay stops; no buffer waits in the queue of an idle relay; a closed
  socket stays closed, ends all coroutines and is announced; a silent relay is
  reclaimed;
* *start of a relay*: the client sees the socks5 reply first, the remote server
  sees START_TCP first; a relay stopped while it starts ends closed;
* *manager*: one session, one connection; data reaches the connection it was
  read for; an entry is erased only when its relay stops, and the reverse;
* *udp*: a reply goes to the source whose datagram opened the session;
* *link*: requests are sent in order over one link; a lost link ends its sessions
  at the remote server (the client's side of them is not told, section 4);
* *acceptor and threads*: the server goes on accepting.

## 2. The plan

In this order; all groups are done.

1. **One tcp relay** - `BaseRelay`, `RawTcp` and the three starts
   `RawTcpRemote`, `RawTcpLocal`, `RawTcpTproxy`; abstract: `OrderedPipe`;
   proofs: `BaseRelayProofs`, `RawTcpProofs`, `RawTcpRemoteProofs`,
   `RawTcpLocalProofs`.
2. **Udp** - `LocalUdp` (sources, sessions and the reply relay of a transparent
   server) and `RemoteUdp` (the relay of one session at the remote server);
   both compose `BaseRelay`, `RemoteUdp` implements `OrderedPipe`; proofs:
   `LocalUdpProofs`, `RemoteUdpProofs`.
3. **`Tunnel`** - two managers, the links between them and several sessions,
   each relay abstracted to what `OrderedPipe` and the liveness properties of
   groups 1 and 2 promise.
4. **`SslRelay`** - start, read, stop of one link with repeated
   `stop_relay()`; composes `BaseRelay`, implements `OrderedPipe`.
5. **`RemoteServer`** - the lifetime of a remote manager (shared and weak
   pointers, its timer), the accept loop, the threads and the restart.
6. **`Requests`** - block list, addresses and lengths of messages, compared with
   what a list, a request and a datagram mean.
7. **Proofs** - of every invariant the runs check but `ListInv`, and of every
   refinement (section 5). `RawTcpRemoteProofs` and `LinkProofs` extend several
   modules each; the names those would share are kept apart (`TproxyInit`,
   `ServerInit`, `MessageInit` and so on).

Related questions share a run, since most of the time goes into building the
same states.

## 3. What is modelled

### Modules

| module | models | of |
|---|---|---|
| `BaseRelay` | the operators of the send queue, the send coroutine and the idle counter | `base_relay.cpp` |
| `RawTcp` | a started `raw_tcp`: its posted handlers, sender, reader, stop, and the manager's side of its session | `raw_tcp.cpp:46-126`, `relay_manager.cpp:116-227` |
| `RawTcpRemote` | + `impl_start_remote` | `raw_tcp.cpp:297-327` |
| `RawTcpLocal` | + `impl_start_local`, `impl_local_relay` | `raw_tcp.cpp:133-173, 214-294` |
| `RawTcpTproxy` | + `impl_start_transparent` | `raw_tcp.cpp:182-211` |
| `LocalUdp` | a transparent server's clients, sessions and reply relay | `raw_udp.cpp:31-48, 134-189`, `relay_manager.cpp:86-94, 138-142, 190-213, 265-300` |
| `RemoteUdp` | the remote server's relay of one udp session | `raw_udp.cpp:51-79, 97-116, 177-189`, `relay_manager.cpp:95-104, 214-222, 257-264` |
| `Tunnel` | both managers, the links and the sessions they carry | `relay_manager.cpp:69-170, 190-222, 229-300` |
| `SslRelay` | + one link at either server; extends `BaseRelay` | `ssl_relay.cpp:42-176`, `relay_manager.cpp:69-85, 190-201` |
| `RemoteServer` | the remote server's accept loop, managers and threads | `relay_acceptor.cpp:64-85, 174-178`, `main.cpp:48-83`, `relay_manager.cpp:162-222` |
| `Requests` | block list, addresses, lengths of messages | `gfwlist.cpp:17-122`, `utils.cpp:18-77`, `relay_data.hpp:12-88`, `relay_acceptor.cpp:114-153`, `raw_udp.cpp:117-132` |
| `OrderedPipe` | abstract: what a relay promises | |
| `BaseRelayProofs` | lemmas about the operators of `BaseRelay`: types, the sender, the stream | |
| `RawTcpProofs` | lemmas about the steps all three starts share | |
| `RawTcpRemoteProofs` | theorems about `RawTcpRemote` and `RawTcpTproxy` | |
| `RawTcpLocalProofs` | theorems about `RawTcpLocal` | |
| `LinkProofs` | theorems about `SslRelay`, `RemoteServer` and `Requests` | |
| `LocalUdpProofs` | theorems about `LocalUdp` | |
| `RemoteUdpProofs` | theorems about `RemoteUdp` | |
| `TunnelProofs` | theorems about `Tunnel` | |
| `MC...` | the small instances | |

### How state and actions correspond to the code

*An action is one step of one strand*: a posted handler from start to end, or a
coroutine from one `co_await` to the next. The completion of an I/O is an
action of its own (`WriteSucceeds`, `ReadFails`, `ConnectSucceeds`, ...) and
its resumption another (`SenderResumes`, `ReaderCatches`, ...).

* `coros` holds a frame per `co_spawn` of the send coroutine; `"spawned"` frames
  take their first step at any later time, which covers both a posted and an
  immediate first step.
* `posted` is the strand's queue of handlers the manager has dispatched: a
  buffer (`send_data`), a stop (`stop_relay`), or the handler that sets
  RELAY_INIT. It is first in, first out. Calls made on the relay's own strand
  run in place, as dispatch does.
* `reader`, `starter`, `copier` are the program counters of the other
  coroutines.
* `entry` is the manager's entry for the session: `"listed"`, or why it was
  erased. The manager sends one STOP, and the data of a session stops with its
  entry.
* `down` splits `timeout_down()`: `_timeout` is a plain `int` that both strands
  write. Load, store and the final load are separate steps, so a reset between
  load and store is lost and the value returned may be another than the one
  stored. `state`, an enum written by the relay's strand, is read by the
  manager in one step.
* `requests`, `accepted`, `given`, `wire` and `moved` are history: commands
  passed to `add_request`, buffers pushed, buffers handed over, buffers written,
  and whether a direct relay copied anything since the last tick.

The udp modules differ in this:

* `srcs`, `udpSrcs` and `peers` are `_srcs`, `_udp_srcs` and `_peers`. They are
  total functions; an absent key has the value `operator[]` would insert. The
  code uses `operator[]` for lookups too, so a reply of a session that has been
  erased meanwhile makes an entry for the empty endpoint `NoSrc`, as in
  `relay_manager.cpp:142`.
* the manager's own tables change in one step of its strand; `add_peer`,
  `del_peer` and `send_data` reach the reply relay as handlers in `posted`. The
  `del_peer` calls of one tick follow each other and commute: one handler.
* a reply relay found stopped is replaced, and the variables are then those of
  the new one. The old one stopped in its own send coroutine, which returned,
  and handlers still posted to it find a stopped relay: nothing it does shows.
* `TickIdle` is the tick at which `timeout_down()` of the link returns zero; the
  link's own counter belongs to `SslRelay`, so this may happen at any tick once a
  request has created the link.
* binding the reply socket to the reply's source address and sending are one
  operation: a `bind` that throws ends as a send that fails.
* a datagram is not split, and a send to the empty endpoint (port 0) fails.
* an instance of `RemoteUdp` is one relay object. When the manager finds it
  stopped and replaces it, the replacement is another instance; what is asked
  of the old one is that it ends.
* `session` counts udp sources only; that tcp connections draw on the same
  counter is a matter of `Tunnel`.

`Tunnel` puts the parts together, at a coarser grain:

* a relay is its phase; that it takes what it is handed in order
  (`ImplementsPipe`) and announces its end once (`ClosedIsAnnounced`) are what
  the other runs show of it. Its call of `add_request` and the manager's handler
  are one step, so a request is not held up in the manager's strand; the order of
  requests of one relay is the same either way.
* `up[n]` and `down[n]` hold what the two ends of link `n` have been handed and
  not yet delivered: queue, TLS stream and reader in one. Closing either end
  loses what is under way. `_ssl` points to the last link made. The remote server
  makes a manager for each link, a local server has one for all.
* `"doomed"` is a local relay stopped during its handshake that still gets as far
  as START_TCP (nothing in `impl_start_local` looks at the state). `stray` holds
  the remote relays that were stopped while they resolved, and went on, and those
  made by a manager that had stopped; nobody lists them, and the properties speak
  of the others. `RawTcpRemote` contains the first: a STOP_TCP that arrives
  during `async_resolve` closes a socket that is not open yet.
* replies to udp sources are the matter of `LocalUdp`. `_session` does not wrap:
  that takes 2^32 connections.

`SslRelay`:

* `stops` counts the coroutines of `stop_relay()`: each call spawns one more.
  `StopEnters` sets RELAY_STOP and shuts the stream down, `StopCloses` closes the
  socket, and any step may come between.
* like the other relays, a link's RELAY_STOP may be overwritten, by its sender or
  by its start. `missed` marks a link whose start went on although it had been
  stopped, since a resolve is not aborted: such a link may serve after the manager
  has replaced it, and `LetGoEnds` and `NoRequestSkipped` exclude it.
* the peer writes header and data in one `async_write`, and each begins a TLS
  record, so a header is read whole: the test in `ssl_relay.cpp:53` is one of the
  reasons of `ReadFails`.

`RemoteServer`:

* `Alive(n)` says who holds a manager: the acceptor before the link comes, then
  the timer's coroutine, and any handler still queued. The relays hold a
  `weak_ptr`. A handler dispatched to a free strand runs in the caller, and its
  exception ends in the caller's `catch`; one that was queued runs alone, and its
  exception leaves `io.run()`: caught in the main thread, which starts the server
  anew, and the end of the process in another.
* the link and the relay are their phases; a link carries one session. When idle
  counters reach zero is nondeterministic.
* `stray` is as in `Tunnel`: a relay nobody lists can keep `io.run()` busy.

`Requests`:

* sizes are those of the code: 4 and 16 bytes of address, 19 bytes before the
  payload; only `READ_BUFFER_SIZE` is small (21: two bytes of payload) and a
  `std::size_t` wraps at `Width = 64`.
* characters are codes. An expression of the list is matched by `MatchesAt`, of
  the form the list makes: characters, `\.`, `.*` and a final `$`. An IPv6
  address is written `::` whatever its bytes; the rules of the instance do not
  depend on them.
* `recvmsg` returning -1 gives a message of length 18 (`relay_acceptor.cpp:132`);
  the other side computes 18 - 19 in `std::size_t`, and sending so many bytes
  fails. Nothing is sent, but the udp relay of that session stops.
* a rule is its text around a name (`prefix`, `name`, `path`). A path that holds
  `//` is taken for a scheme by the code (`gfwlist.cpp:55`), so `VerdictIsList`
  speaks of rules without one.

Environment: a peer may send, stop, close or reset at any time; a write may
fail at any time; name resolution and connecting succeed or fail; closing a
socket aborts what is pending on it, but an operation that has already
completed is still resumed with its success. `async_connect` over a list of
addresses opens a closed or unopened socket when it starts, and re-examines it
when an attempt completes: one that was closed meanwhile is
`operation_aborted`. Writes to one socket complete in the order they were
started. An exception that leaves a detached coroutine is dropped. These are
facts about Asio the code relies on; they appear as guards of the actions.

Left out of these modules: the bytes of a buffer (a model value), partial
writes (`async_write` completes or fails), the session number of a tcp relay,
logging, and, but for `RemoteServer` and the reader of `SslRelay`, a manager that
no longer exists (`manager.lock()` is null).

## 4. What is checked

| run | module | states | shows |
|---|---|---|---|
| `remote` | `MCRawTcpRemote` | 120 000 | `TypeOK`, `OneWriter`, `NoLostWakeup`, that `RawTcpRemote` implements `OrderedPipe`, `DeliveredOrStopped`, `ClosedIsAnnounced`, `Reclaimed` |
| `tproxy` | `MCRawTcpTproxy` | 104 000 | `QueueInv`, `ImplementsPipe`, `EndsClosed`, `Served` |
| `local` | `MCRawTcpLocal` | 466 000 | `QueueInv`, `HandshakeInOrder`, `ImplementsPipe`, `EndsClosed` |
| `local_udp` | `MCLocalUdp` | 115 000 | `QueueInv`, `TablesAgree`, `RepliesToOwner`, `SentOrStopped`, `Forgotten` |
| `remote_udp` | `MCRemoteUdp` | 83 000 | `QueueInv`, `ImplementsPipe`, `LetGoEnds`, `DeadIsRemoved` |
| `tunnel` | `MCTunnel` | 521 000 | `SessionInv`, `OwnDataInOrder`, `EndsTogether`, `EndsWithLink`, `Delivered` |
| `ssl_relay` | `MCSslRelay` | 679 000 | `QueueInv`, `ImplementsPipe`, `SentOrStopped`, `LetGoEnds`, `ManagerEndsWithLink` |
| `remote_server` | `MCRemoteServer` | 173 000 | `ManagerInv`, `EndsWithLink`, `AcceptsAgain` |
| `requests` | `MCRequests` | 34 000 | `ListInv`, `DestinationIsAsked`, `DatagramIntact`; no deadlock |
| `local_idle` | `MCRawTcpLocal` | violation | a busy direct relay is stopped by the timer |
| `tunnel_sessions` | `MCTunnel` | violation | a udp source and a tcp connection share a number |
| `remote_server_null` | `MCRemoteServer` | violation | a reader that has a chunk when its manager ends uses a null pointer |

Of a relay:

* `QueueInv` is the conjunction of the type invariant and the two that follow (for
  the link, of its type invariant, `OneWriter` and two properties named below).
* `OneWriter`: at most one send coroutine is inside `internal_send_data`, and
  the buffer it will pop is the one it writes.
* `NoLostWakeup`: an idle relay with a non-empty queue has a coroutine on its
  way to it, and a sending relay has a coroutine that sends.
* `ImplementsPipe`: `OrderedPipe` with `in` = buffers handed over, `out` =
  buffers written, `closed` = the socket is closed. `Emit` writes the next
  buffer, never after `Close`, and `Close` is final. Buffers not yet written
  when the socket closes are lost; so does the code when STOP_TCP finds a queue.
* `DeliveredOrStopped`: a buffer handed to the relay of a listed session is
  written, or the relay stops.
* `ClosedIsAnnounced`: once the socket is closed all coroutines that use it end
  and STOP_TCP has been requested.
* `EndsClosed` is `ClosedIsAnnounced` (`TproxyAnnounced` for a transparent server)
  and `ErasedIsClosed`: a session the manager has erased ends with its client's
  socket closed. The second does not hold of the remote server, whose start may not
  notice a stop.
* `Reclaimed`: the manager's entry is erased in the end, as reads are bounded.
  `Served` is `DeliveredOrStopped` and `Reclaimed`.
* `HandshakeInOrder`: the client sees the socks5 reply first (`ReplyFirst`), the
  remote server START_TCP (`StartFirst`).

Of udp:

* `TablesAgree`: a listed source and its session lead to each other in the two
  tables of the manager, also while replies of erased sessions insert empty
  entries; and a peer the reply relay knows is one the manager knows, or the
  handler that removes it is on its way.
* `RepliesToOwner`: a reply is sent to no client but the one whose datagram
  opened its session, and from the address it came from, however late it comes
  and across restarts of the reply relay.
* `SentOrStopped`, `Forgotten`: a reply handed over is sent or the relay stops;
  when the clients fall silent all three tables end up empty.
* `LetGoEnds`: a `RemoteUdp` relay that was stopped, replaced or expired ends
  with its socket closed and all its coroutines returned. `DeadIsRemoved`: one
  whose socket closed does not stay in the manager's table.

Of the tunnel and its servers:

* `OwnDataInOrder`: what a connection's relays are handed is a beginning of what
  was read at the other end of that connection, whatever was lost and replaced in
  between, as long as no other source or connection has its number.
* `SessionInv` is `TypeOK` and `ServingIsListed`: a local relay that serves a
  client is the one its manager lists under its number.
* `EndsTogether`: when the client leaves the host's side ends (`EndsWithClient`),
  also if the link is lost under the STOP_TCP; and the reverse (`EndsWithHost`),
  unless a link that carried the session is lost. `EndsWithLink`: when the link is
  lost the remote sides end. The client's side of such a session is asked nothing:
  see below. `Delivered`: while nobody leaves and the link stays, all that was read
  of either side arrives at the other.
* `QueueInv` of the link also has `NoRequestSkipped`: what a link has written is a
  beginning of what it was handed; and `NoLostWakeupBeforeStop`, which is
  `NoLostWakeup` until the first stop: after it a queue is rightly left behind.
  `SentOrStopped` (link): a request is written, or the link says it has stopped,
  so that the next request replaces it.
* `LetGoEnds` (link): once it is closed, or its manager has let go of it, all
  coroutines, those of `stop_relay()` included, return. `ManagerEndsWithLink`: the
  timer ends a remote manager whose link has closed.
* `ManagerInv` is `ServerTypeOK` and `HeldWhileServing`: a link that serves has a
  manager. `EndsWithLink` (remote server): when a link has ended its manager is
  freed and its relay ends. `AcceptsAgain`: a server whose accept loop has ended
  accepts again, after the last link is gone.
* `ListInv` is `MessageTypeOK` and `VerdictIsList`: a host goes through the tunnel just
  when a name of the list covers an end of it. `DestinationIsAsked`: a connection
  is made to what was asked, or refused, and refused by the remote server never.
  `DatagramIntact`: a datagram is sent to its address with its bytes.

**What the violations show.** Each is the shortest behaviour TLC finds.

* `local_idle`: `impl_local_relay` does not reset the idle counter.
* `tunnel_sessions`: `send_udp_data` numbers a source `++_session`,
  `add_local_raw_tcp` a connection `_session++`. A source that comes first gets 2
  and so does the connection after it. START_TCP replaces the source's relay at the
  remote server, and the next datagram is written to the connection's host.
* `remote_server_null`: the timer ends the manager of a lost link while a chunk from
  the host waits to be passed on; the reader then calls `add_request` through the
  null pointer that `raw_tcp.cpp:61` says should not happen.

Other behaviours the models contain and that are worth knowing, though the
repository promises nothing against them: `stop_relay()` leaves `_sock_remote` of a
direct relay open, so its copier waits until the host ends the connection
(`RawTcpLocal`); a reply relay that failed is replaced by one that knows no
client, and known sources do not call `add_peer` again (`LocalUdp`); a reply that
comes after its session expired makes an entry with session 0, at whose expiry
`del_peer(0)` forgets all clients (`LocalUdp`).

One thing the repository does promise and the code does not do is plain in the model
and needs no run: of data for an unknown session `src/src/README.md:28-29` says "no
session, send stop to remote", for the local server. The lines that would are
commented out (`relay_manager.cpp:134-136`), and the first disjuncts of `LocalData`
and `RemoteData` drop the data and tell nobody. It matters most at the remote server:
a connection that outlives its link sends the rest of its data on the next one, whose
manager has no relay for it, and the client is not told that its host is gone. That
is why `EndsWithHost` leaves lost links out.

Each property also has a *fault*: a variant of one operator of the model that a
plausible mistake in the code would give (`EnterSendUnguarded`,
`TimerStoresOnly`, ...), with which the run finds the property violated. The
faults are used by no specification.

**Bounds.** `Data` has two buffers, each handed over once: one is being written
while the other arrives before, during or after it, which reaches every program
counter of the sender; `local_idle` has one, which is enough for its violation.
That more buffers change nothing for the queue and the order of what is written is
what the theorems of section 5 show. `MaxReads = 1` chunk from the peer, and `MaxReceived = 1` datagram:
the reader's loop has no memory but the counter it resets. `TIMEOUT = 2` (the
code's is larger): one tick that does not stop the relay and one that does, with
resets in between. `LocalUdp` has two clients and `MaxRequests = 3` datagrams, so
that one client can open a second session after its first expired; `MaxSession =
3` gives the sessions 2 and 3, since the counter is incremented before it is used.
`Data` has one reply of each session, from different addresses, which makes the
socket be bound twice. `MaxPosted = 2` stops the timer while two handlers are
waiting: the strand keeps up with a timer of seconds. `Tunnel` has a connection
and a source, which give the two ways of counting, two chunks of the connection
(both from the client, or one from each side), one datagram, and two links, of
which the last is not lost: the session meets the loss and the replacement at each
of its phases. Two connections take over three million states and do not meet in
any table, having different numbers. `SslRelay` has two requests and one message
from the peer. `RemoteServer` has two links, so that one manager ends while the
other waits for its link, one thread next to the main one and one queued handler.
`Requests` has lists of up to three lines (the first is never looked at, so two
rules, which may be equal), ten rules of every form, and all hosts of up to five
of three characters; requests are cut at every length. Deadlock is checked in
`requests` only: elsewhere a system that has ended does nothing.

**Fairness.** Weak fairness of each strand's handlers and coroutines (`io_context`
runs every ready handler), of the end of resolving and connecting (both time out
in the operating system), of the abort of operations on a closed socket, and of
the timer. None of tcp writes, of reads and of peers: a peer may keep silent for
ever, so `DeliveredOrStopped` and `Reclaimed` rest on the timer. Sending a
datagram is fair: the kernel takes or refuses it without the peer. The timer is
fair as the manager's timer coroutine loops for ever; it ends only with its
manager, after `stop_manager()` has stopped the relays. A TLS shutdown is answered
or tcp gives it up; a handshake need never end, and the timer stops the link. In
`Tunnel` the two servers, and in `SslRelay` the link and the manager's timer, are
fair each as a whole, which is the same as fairness of every step since no step
can be repeated for ever; connected links deliver and are noticed to be lost. In
`RemoteServer` the timer of a link that has stopped goes off; nobody need connect,
send or leave. The idle timer of a single relay is never assumed to go off in
`Tunnel` or `RemoteServer`.

## 5. What is proved

With TLAPS, for every value of the constants the named assumptions allow:

* any set of buffers (`Data`), any `TIMEOUT > 0` and any number of reads
  (`BaseAssumption`, `RawTcpAssumption`, `SslAssumption`, `RemoteUdpAssumption`);
* any set of udp sources and any number of sessions (`LocalUdpAssumption`);
* any finite sets of connections and udp sources and any number of links
  (`TunnelAssumption`; finite since the first numbers are given out by counting);
* any number of links, threads and queued handlers (`RemoteServerAssumption`);
* any destinations and payloads (`AskedAssumption`, `PayloadsAssumption`): bytes are
  below 256 and ports below 65536, an address of the operating system has its 4 or
  16 bytes, and a name is as long as the byte in front of it can say
  (`raw_tcp.cpp:240-258`, `utils.cpp:40-77`); any `READ_BUFFER_SIZE` that holds the
  19 bytes before a payload and any wider `std::size_t` (`RequestsAssumption`; the
  code has 4096, `relay_data.hpp:7`).

The safety parts of these properties are the ones the runs check, on the same
modules.

| module | theorems | property |
|---|---|---|
| `RawTcpRemoteProofs` | `TypeCorrect`, `RemoteOneWriter`, `RemoteNoLostWakeup`, `RemotePrefix`, `RemoteImplementsPipe` | `TypeOK`, `OneWriter`, `NoLostWakeup`, `ImplementsPipe` |
| `RawTcpRemoteProofs` | `TproxyQueueInv`, `TproxyImplementsPipe` | `QueueInv`, `ImplementsPipe` |
| `RawTcpLocalProofs` | `LocalQueueInv`, `LocalHandshakeInOrder`, `LocalImplementsPipe` | `QueueInv`, `HandshakeInOrder`, `ImplementsPipe` |
| `LinkProofs` | `SslQueueInv`, `SslImplementsPipe` | `QueueInv`, `ImplementsPipe` |
| `LinkProofs` | `ManagerHeld` | `ManagerInv` |
| `LinkProofs` | `DestinationAsked`, `DatagramKept` | `DestinationIsAsked`, `DatagramIntact` |
| `LocalUdpProofs` | `LocalUdpQueueInv`, `LocalUdpTablesAgree`, `LocalUdpRepliesToOwner` | `QueueInv`, `TablesAgree`, `RepliesToOwner` |
| `RemoteUdpProofs` | `RemoteUdpQueueInv`, `RemoteUdpImplementsPipe` | `QueueInv`, `ImplementsPipe` |
| `TunnelProofs` | `TunnelSessions`, `TunnelOwnData` | `SessionInv`, `OwnDataInOrder` |

None of the properties is inductive. What each proof adds, and why:

*The sender* (`BaseRelayProofs`, used by all relays). `SenderInv` adds to
`OneWriter` and `NoLostWakeup` that while a coroutine is inside
`internal_send_data` the state is START or STOP, so a new one that enters in INIT
finds none; and that nothing sets INIT before the first coroutine is spawned, for
which each start has its own reason (`NoFrameBeforeStart`, `NotServed`). The
lemmas speak of the operators of `BaseRelay` alone, so one proof serves the tcp,
udp and TLS relays.

*The wire.* `WireInv`: the queue is the end of `accepted`, and what has been
written is what has been popped, plus the front while its writer has not been
resumed. Hence the wire is a beginning of `accepted`.

*From handed over to accepted* (`RawTcpRemote`). A handler may find the relay
stopped and drop its buffer; that is harmless only if nothing is written
afterwards, and a relay stopped during resolution does write afterwards.
`DeliveryInv` says that either no write will ever succeed (`Over`), or the account
is complete (`Live`): the handlers up to the first stop carry, in order, the
buffers handed over and not yet accepted (`NothingLost`); a stop posted before the
socket is open is the last handler (`StopIsLast`), because the manager lets go of
the relay when it posts one; and a relay stopped early is handed nothing more as
long as it is stopped (`StoppedEarly`). The refinement maps `ManagerData` to
`Accept`, `WriteSucceeds` to `Emit`, the closing of the socket to `Close` and all
other steps to stuttering.

*From handed over to accepted* (`RawTcpLocal`). A client's socket is open from the
beginning, so a stop closes it at once and the account is simpler (`FlowInv`): what
was handed over is accepted or still posted, or the socket is closed. The
handshake writes on the same socket: `ReaderAsked` and `NotServed` say that the
reader and the sender start behind it, which is why the reply comes first though
`start_send` and START_TCP are under way before.

*From handed over to accepted* (`RawTcpTproxy`). RELAY_INIT is a handler behind the
start, and the reader spawned with it may have stopped the relay when it is run.
`InitFirst`: it is the first handler run, and no coroutine has been spawned before,
which keeps the sender single though RELAY_STOP is overwritten; that rests on
`NothingYet`, since the manager and its timer have nothing to do with a relay before
it is started. `TproxyFlow`: the stop has closed the socket for good; as long as it
is open, every buffer handed over is accepted or posted behind RELAY_INIT
(`Pending`).

*The link* (`SslRelay`). What makes `NoRequestSkipped` hold, though RELAY_STOP may
be overwritten by the sender and by the start, is `SecureIsLive` and `Clean`: a
link that serves on a secure stream has not been stopped, since a stop shuts the
stream down and there is no second handshake; so a request dropped at a stopped
link means that nothing is written on it any more, unless its start missed the
stop. A socket that was closed is not opened again as a local link connects once
and before its first stop has no socket (`OpensOnce`).

*The manager of a link* (`RemoteServer`). `HeldWhileServing` allows three holders and
follows from the one that stays: a link that serves has its timer waiting and a
manager that has not stopped (`TimerWhileServing`), because the timer stops the
link with the manager, and a request stops the manager only when the link has
stopped before. That needs the manager that waits for the next link to be untouched
(`FreshManager`), or its link would begin to serve with a manager that had stopped.
Both are `ServerInv`.

*What crosses the link* (`Requests`). `MessageInv` says what the frame on the link
holds: all the bytes of a destination of which all were read (`StartCarried`), an
address and the beginning of a payload that was received (`DatagramCarried`), or the
length a failed receive leaves (`FailureCarried`). The lemmas before it are about
`parse_addr` and `parse_address`: an array that begins with the bytes of a
destination is read back as that destination, and one of which fewer are known is
refused, so the two servers cannot disagree; and 18 - 19 is a length no buffer has,
since a `std::size_t` is wider.

*The reply relay* (`LocalUdp`). `RepliesToOwner` follows from "a session belongs
to one source for ever", held by every table, every posted handler and every
frame: `OwnerInv` says it of each, with a source that opened the session in its
history. `TablesAgree` needs the handlers in their order: a `del_peer` that is on
its way removes only sessions the manager has forgotten, and an `add_peer` behind
it adds a newer one.

*The relay of a udp session* (`RemoteUdp`). RELAY_INIT is posted and may overwrite
a RELAY_STOP, so two things have to be shown: that it is set once and before the
first coroutine is spawned (`StartFirst`), which keeps the sender single; and that
what is lost to the stop is lost for good, as the socket is open from the beginning
and closes with it: while it is open every datagram handed over is accepted or
pending behind the start (`FlowInv`).

*Sessions* (`Tunnel`). `SessionIInv`: the counter is one more than the numbers given
out (`Numbered`), so that two connections never share one; a message carries the
number of its owner, and data that was read (`Carried`); a table entry leads to an
owner with that number (`LocalAgrees`, `FarAgrees`).

*Own data* (`Tunnel`). `FlowIInv` adds what a link holds of one connection. Links
are made in order and only the last is up (`LinksInOrder`). A connection sends
START once; until it has arrived no manager has a relay of it, and then one of one
link has (`StartsOnce`, `OneHome`): this is what makes data that a later link
carries fall on the floor instead of arriving out of order. The link that feeds
the connection - whose manager lists it, or will when START arrives - holds what
follows the chunks already handed over, in order and without gaps, and everything
up to the last chunk read as long as messages can be added to it (`UpOrder`,
`DownOrder`). A manager that erases the connection no longer feeds it and, START
being sent once, never will again. The invariant was model-checked on the instance
of the run `tunnel` before it was proved; the case of `Own` for a connection that
has no number yet was missing at first, as was that a link which was not made
carries nothing (`Unmade`).

**Only model-checked:** liveness (`DeliveredOrStopped`, `ClosedIsAnnounced`,
`Reclaimed`, `EndsClosed`, `Served`, `SentOrStopped`, `Forgotten`, `LetGoEnds`,
`DeadIsRemoved`, `EndsTogether`, `EndsWithLink`, `Delivered`,
`ManagerEndsWithLink`, `AcceptsAgain`), since fairness and ENABLED are out of the
prover's reach; and `ListInv`, which says what the matching of regular expressions
and the rewriting of a rule, both recursive, compute for every text: that is
induction over data.

## 6. What is not modelled

* `json.hpp` is third-party and makes up nine tenths of the lines under `src/`;
  `get_config`, which reads the configuration with it, and logging are I/O.
* The certificates and options of `init_ssl`: TLS is external.
* A local server whose accept or bind fails stays deaf: the exception of the
  detached coroutine is dropped, as in `remote_accept`, and since its manager's
  timer never ends, `io.run()` does not return. Its accept loops are only
  arrivals in `Tunnel` and `LocalUdp`.
* `util.c` is not called by the current code; the command STOP_UDP and
  `gfw_list::add_host` are used nowhere.
* A direct connection's `_sock_remote` and everything the kernel does with
  transparent sockets beyond success and failure.
