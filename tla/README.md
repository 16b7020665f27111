# A TLA+ model of the Outline SDK

This directory holds TLA+ modules that model the Outline SDK
(`golang.getoutline.org/sdk` and its `x` module), the TLC configurations that check
them on small instances, and TLAPS proofs of the properties that matter most.  Paths
below are relative to the root of the repository's source.

## 1. The system

The SDK is a library of composable networking parts.  It has no process or storage of
its own: its state lives in connection objects, and what makes it hard is that one
object is used by several goroutines at once (a sender, a blocking receiver, a timer
callback, a closer), that most of them block outside the lock, and that a close must
reach all of them.

| Part | State | Operations | What is hard |
|---|---|---|---|
| `network/packetrelay` contract | one association: open or closed | `SendPacket`, `Close`, `ReceivePackets` | `Close` must end an active `ReceivePackets`; nothing is sent after it |
| `packetrelay.TimeoutPacketRelay` | `closed`, `lastActivity`, `timer`, `inner` under `mu` | `SendPacket`, `Close`, `checkTimeout` | the timer callback is already scheduled when a send refreshes the association; two ways to close |
| `packetrelay.PacketListenerPacketRelay`, `network.PacketListenerProxy` | a `net.PacketConn`, its read deadline | the same, over a socket | the deadline expires in the reader while a sender refreshes it; four places close one connection |
| `network/dnsintercept` | an association that multiplexes DNS sub-associations and one lazily created default association | `SendPacket`, `Close`, `ReceivePackets`, one goroutine per DNS query | a reference count that closes the parent, re-checks after blocking calls, a condition variable |
| `network/dnstruncate` | bounded answer queue per association | the same | a full queue, close against a blocked reader |
| `network/lwip2transport` device | `done`, `rdBuf`/`rdN`, the lwIP stack, a process-wide singleton | `ConfigureDevice`, `Read`, `WriteTo`, `Write`, `Close` | a rendezvous over two channels that `Close` interrupts; a reconfiguration racing a close |
| `network/lwip2transport` UDP and TCP handlers | session tables by local address; two copies per stream | `ReceiveTo`, `runReceive`, `closeSession`, `Handle` | a session that ends before it is registered; half-closes |
| `transport` dialers, Happy Eyeballs | pending attempts, candidate addresses | `DialStream` | lookups and attempts racing, losers closed, nothing leaked |
| `transport/shadowsocks` | nonce counter, lazily written header, one shared buffer | `Write`, `LazyWrite`, `Flush`, `ReadFrom`, packet pack/unpack | the delayed flush runs in a timer goroutine, on the buffer `ReadFrom` is filling |
| `transport/split`, `transport/tlsfrag`, `x/disorder` | position in the first bytes of a stream | `Write`, `ReadFrom` | boundaries that fall on the edge of a call, partial writes |
| `transport/socks5`, `transport/tls`, `x/turn` | handshake position; resources taken in a row | `DialStream`, `ListenPacket` | what is open when a later step fails |
| `dns` | a query and the messages received for it | `Query` | late, foreign and malformed answers |
| `x/smart` | a race of tests, a strategy cache, a cache of answers | `NewDialer`, `Query` | concurrent tests, cancellation, stale caches |
| `x/psiphon` | `tunnel`, `stop` under a lock released three times in a start | `Start`, `Stop`, `DialStream` | overlapping starts and stops |
| `x/dnstt` | the shared session, its close functions; the poll loop | `DialStream`, `Close`, `sendLoop` | two sessions dialled at once, a cancelled dial, a stale timer |
| `x/httpconnect`, `x/httpproxy`, `x/websocket` | pipes between copying goroutines | `DialStream`, `ServeHTTP` | half-closes and ends of stream through the pipes; bytes held in buffers |
| `x/configurl` | a chain of parts | `NewStreamDialer`, `NewPacketDialer`, `NewPacketListener` | each part asks the ones below for one or two kinds of objects |
| `x/sysproxy`, `x/examples/outline-cli` | the settings of the machine | set, disable, `Run` | one command of several failing, a killed process |
| `x/connectivity`, `x/report` | one test, one report | `TestConnectivity`, `Collect` | lost requests and answers, retries |

How the parts interact: `lwip2transport` turns IP packets into calls of a `StreamDialer`
and of a packet proxy or relay; a packet proxy is a relay behind an adapter
(`network/packet_proxy.go`) that runs `ReceivePackets` in a goroutine; relays decorate
relays (timeout, DNS interception, DNS truncation, delegate); stream dialers decorate
stream dialers (TLS, fragmentation, Shadowsocks, SOCKS5, CONNECT, ...), which
`x/configurl` stacks from a text; Happy Eyeballs, `dns` and `x/smart` choose among
addresses, resolvers and strategies.  All coordination is by mutexes, channels, contexts
and timers inside one process.

## 2. Modules

### Relays and lwIP

| Module | Models | Composition |
|---|---|---|
| `RelayAssoc` | abstract specification: the contract of one association, as `PacketSender` and `PacketReceiver` state it | implemented by the three relays |
| `TimeoutRelay` | `packetrelay/timeout_packet_relay.go` | implements `RelayAssoc` |
| `ListenerRelay` | `packetrelay/packet_listener_relay.go`, and at its end `network/packet_listener_proxy.go` over the adapter of `packet_proxy.go` | implements `RelayAssoc` |
| `DnsIntercept` | `dnsintercept/packet_relay.go` | implements `RelayAssoc` |
| `LwipDevice`, `LwipSingleton` | the data path, and `ConfigureDevice` with `Close`, of `lwip2transport/device.go` | |
| `TruncateRelay` | `dnstruncate/packet_relay.go`, as operators on one association | used by `LwipUdp` |
| `LwipUdp` | `udp.go`, `udp_relay.go`, the delegates, over truncating associations | extends `TruncateRelay` |

### Streams and packets

| Module | Models | Composition |
|---|---|---|
| `StreamPipe` | abstract specification: bytes come out as they went in, each once | implemented by `ShadowsocksStream` |
| `ShadowsocksStream` | Writer with its flush timer, Reader (`stream.go`, `stream_dialer.go`) | implements `StreamPipe` |
| `ShadowsocksPacket` | `packet.go`, `packet_listener.go` under a bound connection | |
| `TlsFragWriter` | both writers of `transport/tlsfrag` | |
| `SplitWriter` | `transport/split` under `x/disorder` | |
| `StreamRelay` | `lwip2transport/tcp.go`, the CONNECT handler, and what a relay sees of TCP, WebSocket and CONNECT connections | |

### Dialing

| Module | Models | Composition |
|---|---|---|
| `ConfigUrl` | `x/configurl`: which objects a text builds, and when it is refused | |
| `HappyEyeballs` | `transport/happyeyeballs.go` | |
| `Teardown` | thirteen functions that open resources in a row: SOCKS5, TURN, TLS, CONNECT, Shadowsocks, fragmentation, DNS, `RunProxy` | |
| `Socks5` | the SOCKS5 handshake byte for byte, and its datagrams | |
| `PsiphonDialer` | `x/psiphon/psiphon.go` | |
| `DnsttSession`, `DnsttPacket` | `x/dnstt`: the shared session; the poll loop over its four DNS transports | |
| `RaceContract` | abstract specification of a race of tests | implemented by `SmartRace` |
| `SmartRace`, `SmartDns` | `racer.go` with the tests of dialers; the tests of resolvers | `SmartDns` extends `SmartRace` |
| `SmartFinder` | `StrategyFinder.NewDialer` and the strategy cache | takes a race as one step |
| `DnsQuery` | `dns/resolver.go` behind the answer cache of `x/smart` | |

### Host

| Module | Models |
|---|---|
| `SysProxy` | `x/sysproxy` on macOS, GNOME and Windows |
| `HostSession` | `App.Run` of `x/examples/outline-cli` on Linux, with its two copies and with crashes; `Refresh` of its device, with the outcomes of `x/connectivity`, which no property uses |
| `Collectors` | the collectors of `x/report` |

`*Proofs` hold theorems about one module or a group of them, which they extend: see
section 5.  `MC*` give constants to TLC.  Most of them put several parts side by side as
*layers*: a variable `layer` is chosen in the first state, the steps of the chosen part
are taken, and the other parts keep one fixed first state.  A run therefore explores the sum of its parts,
not their product; parts that do interact are composed inside one module
(the proxy of `ListenerRelay`, `LwipUdp`, `StreamRelay`, `ShadowsocksStream`, `SmartDns`,
the cache in `DnsQuery`).

Conventions.  What a goroutine does between taking and releasing a lock is one action;
every call made without the lock (into an inner relay, a socket, a dialer, a handler)
is an action of its own, so that everything else can happen in between.  An unbuffered
channel is a joint step of sender and receiver; a `select` with several ready cases may
take any of them.  Closing a closed channel and other panics are states, not
assumptions.  Packets, addresses and errors are reduced to what a property tells apart:
a byte of a stream is its number, an address of Happy Eyeballs is its family, an error
is the fact that there was one.  Code outside the repository (sockets, lwIP, KCP and
smux, the Psiphon client, ciphers, servers, user callbacks) is modelled by what the code
relies on, and its actions may fail whenever the code provides for it.  Definitions
introduced as "Variant" are deliberately wrong forms of an operation; a property is only
kept if such a variant breaks it.

State and actions, where the correspondence is not plain from the names:

* **TimeoutRelay.**  `SendPacket`/`InnerSend`, `Close`/`CloserClosesInner` and
  `CheckTimeout`/`CallbackClosesInner` are the two halves of an operation around the
  unlock; `lastActivity` is kept as the time elapsed since.
* **ListenerRelay.**  `left` is the time to the deadline of the connection; it takes
  effect in the reader only.  `SetWriteIdleTimeout` may come at any moment.
* **DnsIntercept.**  One program counter per DNS query, per `getOrCreateDefaultSender`,
  per `ReceivePackets` and per `Close`; a broadcast turns parked senders into woken ones,
  which compete for the lock.
* **LwipUdp.**  A thread is the goroutine that writes to the device or the one lwIP
  connects with; `mode` says which of the two handlers the device was given.
* **PsiphonDialer.**  The closure `d.stop` is named after the Start that made it.
* **DnsttSession.**  A session is named after the call that dials it; it holds up to
  four parts, and `reaper` holds the sessions whose dialer has given up on them.
* **ShadowsocksStream.**  The payload part of `sw.buf` is memory: the writing thread
  fills a part of it without the lock while the timer thread encrypts another in place.
* **StreamRelay.**  `front` and `back` choose how client and target are connected; bytes
  are counted, in the ends' programs, in the buffers of the relay and in the pipes.
* **Teardown.**  A procedure is a row of steps with what each takes and what its failure
  releases; the rows are data, the actions are the same for all.
* **SmartDns.**  A server is a behaviour: honest, forging, rewriting, withholding.
* **HostSession.**  The machine's files, routes and switches, next to the list of
  deferred calls of the run; a crash drops the latter and keeps the former.  The copy from
  the device to the interface goes step by step, since the device may be closed between
  any two: `read` and `count` are the two channels of `lwIPDevice.Read`, `stuck` is its
  send on `rdN` after the forwarder has left.  A run is over when `pc` is `returned`; `off`
  is before the first run and after a kill.  `found` is a history variable: the machine as
  the run found it.  `half` says that the setting of the resolver's files has failed
  between them.
* **SysProxy.**  A call is a row of commands; a host and a port are named after the call
  that wrote them.  `settled` is a history variable: the set calls that have reported
  success, each until the next set call for the same settings begins.
* **ConfigUrl.**  A result is the set of objects it dials through, each with the place
  of its part in the text, and the number of sockets opened on the way.

## 3. Runs

Every run explores all interleavings of its instance and ends within about a minute or
two.  Each property of a passing run is broken by at least one variant of the code it is
about, under the bounds of the run itself.

| Run | Layers and bounds | Shows |
|---|---|---|
| `relays` | timeout relay: 3 sends, 2 closes, timeout 3; listener relay behind its proxy: 2 sends, 2 closes, timeouts 1 and 2 | the idle timer is never lost and an idle close overtakes no send (`TimeoutSafety`); the connection is closed once, by whoever owes it, and never used before it exists (`ConnInOneHand`); idle sessions end; both keep the association contract |
| `dnsintercept` | 1 query with up to 2 answers, 2 default sends, 2 receives, 1 close | exact reference count, one close of the channel, no leak, one answer, one default association; self-termination exactly when idle; no stuck waiter or query; the contract |
| `lwip` | device: 3 packets, 3 reader calls, 2 writes, 1 close; singleton: 3 configurations, 2 user closes; UDP handlers: 1 client address, 2 connections one after the other, 2 associations, 3 packets, a queue of 1, 1 `closeSession` from outside | a forwarder gets the count of its own packet; one device at a time; relay sessions have an owner; forwarders, `WriteTo`, handlers and closers return |
| `tunnels` | Psiphon: 3 starts, 1 stop, 1 dialling goroutine; relay: 4 fronts by 3 backs, 2 bytes each way | what `d.tunnel` and `d.stop` refer to is alive and ends only on request; calls return; end of stream comes after all the bytes and is passed on; bytes pass through |
| `dialing` | configs: texts of up to 3 parts out of 16; Happy Eyeballs: 2 lookups, up to 3 addresses; teardown: 13 procedures; SOCKS5: a datagram buffer of 23 bytes, payloads of 0 to 4 bytes, read sizes 1 and 3 | a built dialer goes through every part of its text and a refusal has a cause; `opsPending` is exact and errors come only when everything was tried; nothing stays open but the known leaks; the stream starts at the target's first byte; calls and attempts end |
| `dnstt` | 3 dials, 1 close; 4 transports, 1 outgoing packet, poll limit 2, 2 doublings, queue 2 | nothing a session holds is forgotten; one live session; no stale expiry, names and queries fit; polling never stops and a broken DoT connection is replaced |
| `streams` | Shadowsocks: 6 bytes, chunks of 3; fragmentation: records up to 3, streams of 7; split 1 then 3 of 5 bytes, 2 connections; packets: buffer 8, payloads to 4 | every chunk decrypts with its nonce and the stream is a pipe; everything written arrives; the two records and the segments are the ones asked for; packets are whole |
| `smart` | 3 entries, 2 test domains; 2 searches, 4 configurations, 5 leftovers in the cache; 2 queries, 1 cache entry, 1 junk packet | an unauthenticated resolver that lies is not chosen; a search returns what it tested and leaves the cache current; an answer belongs to its question; the race is honest and its waits are bounded |
| `host` | 3 platforms, 2 services, 3 calls; 3 runs, 2 crashes; 2 remotes, 2 retries | a proxy setting that is reported as made has taken effect, host and port, and is not spoiled by a later call that fails; what a run finds on the machine is put back, leftovers included; retries are bounded and an error means that all attempts were made or a lone collector refused; a run ends but for a copy stuck in the device's `Read` |
| `lwip_device_read`, `psiphon_stop`, `connect_tls` | as small as the case needs | disagreements, section 4 |

Why the bounds are enough.  Each is the least at which the racing roles are all present
at once: two of every role that excludes itself (closers, receivers, default senders,
lookups, callers of a cache), three where a pair must be overtaken by a third (starts,
configurations, dials, packets sharing `rdN`, sends around a late timer), and a timeout
of three ticks so that the callback can run early, late and after a refresh.
`MaxArrivals` is 2 because the second answer is the first one to be ignored.
`MaxAttempts` equals the addresses the lookups can return: were it to bind, `DialEnds`
would fail.  Queues have the capacity at which full and empty are one step apart.
Streams are long enough for a chunk or record to end inside a call, at its end and behind
it, with bytes left over; SOCKS5 messages and split points are in their true proportions
to the buffers.  Config texts of three parts have a bottom, a middle and a top, and the
sixteen parts are one of each shape the builders have.  The smart dialer's three entries
are a winner, a loser and one that cannot be built, in every order of events; three runs
of the client allow a crash, a run over its leftovers and a run after that.  The proofs
of section 5 do not depend on any of these numbers.

Symmetry is taken by naming instead of by symmetry sets, which would be unsound with
liveness: starts of Psiphon are named in the order in which they get the lock, and the
associations and connections of `LwipUdp` in the order of their creation.

Deadlock checking is off in every configuration: calls are finite in number and the
library rightly stops when they have returned.  What must not stop is said by liveness
properties.

Fairness.  Weak fairness of goroutines that can take a step (the Go scheduler), of timers
(the runtime), and of `ReceivePackets` of an inner association once it is closed (its
contract).  Further: `DnsIntercept` assumes that DNS sub-associations time out, which
`doc.go` of the package requires of its user, and that somebody runs `ReceivePackets`, as
every adapter in the repository does at once.  `PsiphonDialer` assumes that `startTunnel`
returns when its context is cancelled, and nothing else about it.  `HappyEyeballs` and
`SmartRace` assume nothing about lookups, dials and servers, so their liveness speaks of
what happens while those hang.  `DnsttPacket` assumes strong fairness of one thing: a
write to a broken TCP connection that is tried again and again fails some time; and
`ShadowsocksStream` of one: a timer goroutine that wants the writer's mutex gets it (Go's
mutexes hand over to a starving waiter).  Nobody is ever obliged to send, answer, close,
stop or cancel.  In a layered run a layer is fair only in its own behaviours, either by
an explicit condition on `layer` or because no fair action of another layer can be taken
in the state that layer keeps.

## 4. Where code and text disagree

| Run | Property | What happens |
|---|---|---|
| `lwip_device_read` | `ReadReturns` | a `Read` that has taken a packet sends its length with a plain channel send; if the device is closed just before, it blocks for ever, against its comment |
| `psiphon_stop` | `StopIsComplete` | of three overlapping `Start`s two bring a tunnel up, and `Stop` reaches one |
| `connect_tls` | `H1BytesPassThrough` | over HTTP/1.1 in TLS `ReadFrom` of the hijacked connection fills a 4 KB buffer, so that a dialogue stands still, against the comment above it |

Some modules also define statements that no run checks, because the code does not satisfy
them; each says in its comment what it is about.

* `LwipUdp!ClosedWriterCleansUp` (`udp.go:125`): a sender registered after its session
  has ended, or replaced by another session of its address, stays in the table or open.
* `LwipSingleton!NoPanic` (`device.go:138` against the comment at `:133`): a user `Close`
  and a reconfiguration close `done` twice.
* `ListenerRelay!IdleSessionEnds` (`packet_listener_relay.go:219`,
  `packet_listener_proxy.go:65`): a session whose `WriteFrom` failed has no reader left,
  so nothing watches its deadline.
* `DnsttPacket!CloseTearsDownDot`: closing the dialer leaves the TCP connection of a DoT
  transport open.
* `TlsFragWriter!FirstRecordHasItsLength` (`record_len_writer.go:110` against
  `tlsfrag/stream_dialer.go:111`): a caller that goes on after a Write its deadline cut
  short gets records of other lengths.
* `SplitWriter!EveryStreamSplit` (`split/stream_dialer.go:50` against
  `configurl/doc.go:156`): the connections of one dialer share an iterator, so only the
  first of them is split.
* `HostSession!BackupIsOriginal` (`dns_linux.go:58` against the text of the file at
  `:39`): a run over the leftovers of a killed one renames the client's own resolver file
  over the backup, which that file calls the original.  It is the one step that loses the
  user's settings (`SettingsSurvive`, section 5).
* `HostSession!EveryRunReturns` (`app_linux.go:30`, `:62`): `io.Copy(tun, ss)` is in
  `lwIPDevice.Read`, which blocks for ever at `device.go:184` when the device is closed
  under it, so that the deferred `trafficCopyWg.Wait()` never returns.  The checked
  `EachRunReturns` therefore asks that a run returns *or* has done everything else and
  waits for this copy.
* `HostSession!FailedSettingReverts` (`app_linux.go:66`): when the resolver's files are
  set only in part, the error is returned before their restoration is deferred.  In this
  case (`half`) the checked `MachineRestored` asks only that each file is untouched or
  saved in the backup.
* `SysProxy!OnlyWholeProxiesInUse` (`sysproxy_linux.go:77`): GNOME's host and port are two
  commands.  A half-written endpoint is in use between them when the proxy was on
  already; when the second one fails it stays, and a call for the other kind switches it
  on.  The checked `ProxyIsAsAsked` speaks only of endpoints that a call has reported.
* `SysProxy!FailedSetReverts` (`sysproxy_darwin.go:53`, a comment "revert previous
  changes" with no code under it): the HTTP proxy stays when HTTPS cannot be set.
* `Collectors!RefusalIsFinal` (`report.go:126`): `FallbackCollector` does not pass a
  `BadRequestError` on, so a report that was refused is sent again by a retrying collector
  around it.  The checked `RetriesAreSound` says that a refusal is final of a lone remote
  collector only.
* `ConfigUrl!SocketIsShared`, `ConfigUrl!RefusalLeavesNothing` (`httpconnect.go:174`): a
  part that two parts above it need is built twice, with two sockets for one `h3connect`;
  and its socket stays open when a part above is refused.

Observations that contradict no text, kept here because the models show them.  The last
DNS query can close an intercepting association while its default sub-association is
still being dialled (it is then closed on installation), and an answer already in the
hands of `HandlePacket` is written after the response receiver was closed.  A send that
refreshes the deadline just after it expired in the reader succeeds on a connection about
to be closed.  Two lwIP stacks exist for a moment when a second `Close` returns before the
first.  `Teardown!KnownLeaks` lists what stays open when a step fails: the control
connection of SOCKS5 `ListenPacket` (`packet_listener.go:168`), the inner connection of
`disorder` and of the DNS-over-TLS query, the listener of `RunProxy`.  The dialers of
losing tests of the smart dialer are never closed, and its responses are read without a
deadline.  A CONNECT client's copying goroutine never closes the pipe it fills.  An empty
WebSocket message reads as an end of file.  A retried report can be recorded twice.
In `x/configurl` the advice `ss://...|turn://...` of `turn.go` is always refused, since a TURN part refuses to stand
on another, and `h2connect` with `plain=true` and a TLS name silently uses TLS.

## 5. Proofs

All theorems hold for every value of the constants under the assumptions named in the
modules: finite sets of calls where they are counted (`FinitelyManyQueries`,
`LookupsAssumption`, `SearchAssumption`, which also supposes that the caller gives at
least one test domain; `NewDialer` does not check this), positive timeouts, natural
bounds and sizes (`StreamSizes`, `SplitSizes`, `PacketSizes`, `FragSizes`, `SocksAssumption`, `QueryAssumption`,
`NamesAssumption`, `CollectAssumption`), known platforms, procedures and kinds of
writers (`PlatformsAssumption`, `ProcsAssumption`, `FragSizes`), typed inputs
(`FinderAssumption`), finitely many options in a part of a configuration
(`ConfigAssumption`), and a `None` or `Nil` that is not a call. One theorem has a
hypothesis besides, `StreamIsFragmented`. Each component has an inductive invariant,
types included, shown by TLC on the bounds of its run first, and from it the properties
the runs check.

`RelaysProofs`, about `TimeoutRelay` and `ListenerRelay`:

* `TimeoutIsSafe`, `ImplementsAssoc`.  `TimerCoversIdle` is inductive with the types.
  `InnerClosedOnce` counts closes made and owed, so the proof carries the finiteness of
  the set of closers that owe one.
* `InOneHand`, `ListenerImplementsAssoc`.  `StageInv` says what each stage of
  `NewAssociation` has set up and that nobody uses the association before it is returned;
  `UseInv` what senders and the reader rely on.  With them, `OwedInv` counts: closes made
  plus calls that took the connection out of the association and have yet to close it are
  one exactly when the association is closed.

`DnsInterceptProofs` (`InterceptIsSafe`, `ClosesOnlyWhenIdle`, `ImplementsAssoc`).  Four
parts are added to the checked invariants.  `DialInv`: one call at a time is between the
two sections of `getOrCreateDefaultSender`, and the channel is empty until it is done.
`ReceiverInv`: only the call whose handler is installed gets past the lock; without it a
release by a second receiver would break the count.  `QueryInv`: where a registered sender
can be.  `AnswerInv`: the flag `handled` covers everything from the first packet to the
delivery.  The exact count follows action by action, with lemmas on how the set of holders
changes.

`LwipProofs`, about `LwipDevice`, `LwipSingleton` and `LwipUdp`:

* `CountsArePaired`.  A reader state has one of five shapes, by which the proof goes.
  `PairInv`: a packet that was handed over is the reader's, and a reader drops one without
  an answer only after the close, when no forwarder takes counts any more.
* `DevicesFollow`.  `CloseInv` (where a closing call is), `MutexInv` (who holds `instMu`
  and what it has registered), `OpenInv` (an open device is the registered one or about to
  be closed by the holder), and one closer per stack.
* `SessionsOwned`.  An association of the relay handler passes through three hands, and
  the invariant says what each has of it: `OwnerInv`, the goroutine that made it and has
  yet to register it; `TableInv`, the table of sessions, in which an entry, its connection
  and its association name each other; `EndInv`, the receive loop and the `closeSession`
  calls that have taken it out.  `RelaySessionsOwned` alone is not inductive: it does not
  say that two hands never hold the same association.

`TransportProofs`, about `HappyEyeballs`, `SplitWriter`, `Socks5`, `TlsFragWriter`,
`Teardown` and `ConfigUrl`:

* `DialIsSound`.  `ResolverInv` ties the counter of the resolver to its goroutines;
  `AttemptInv` and `LeftInv` follow the connections; `OpsInv` relates `opsPending` to the
  lookup phase, the addresses and the attempts.  The count is exact only until a
  cancellation: an attempt that gives up is never heard of, so the invariant is an
  inequality over the attempts that still have a claim, plus the equation "no dial error
  yet means that every attempt is still counted".
* `SegmentsAreAsAsked`, for any iterator of splits and any number of connections that
  draw from it.  `CutInv`: segments follow one another, and of the split points of a
  connection at most the next one is ahead of them, as far as `nextSplitBytes` says.
  `HopInv`: as long as no write has failed the countdown of `x/disorder` is the number of
  segments to come before the disordered one; after a failure it may be anything, but
  then nothing is written any more.
* `SocksReadsExactly`, for every script of the proxy, address type and payload.
  `FieldInv`: the field that is read next tells how far the client has read and what it
  has seen, so that the last read ends where the reply does, whatever TCP cuts it into.
  For datagrams the proof takes the packet apart in the order `ReadFrom` does.
* `StreamIsFragmented`.  Both writers say how `taken`, the bytes in hand and the length of
  the output go together, and that the output is a prefix of the fragmented stream and
  what is in hand continues it.  `LenInv`: three stages of the writer that rewrites
  headers (`LenFilling`, `LenFirstRecord`, `LenBehind`), each with the calls that can be
  under way in it.  `HelloInv`: what is collected and not yet flushed.  The hypothesis
  `"len" \notin Resumers` excludes a caller that goes on after a Write its deadline cut
  short; for such a caller the first of the two writers is wrong, as section 4 says of
  `FirstRecordHasItsLength`, and the run `streams` excludes it too.  The other writer is
  proved with and without such callers.
* `DialersAreBuiltWhole`, from `CallsAreTornDown` and `BuildsAreSound`.  For `Teardown`,
  `TearInv`: during a call exactly what the steps behind have taken is held, and while it
  is taken down the releases still to be made leave, one after another, sets in which
  everything has what it needs, and at the end what the call is known to leave
  (`WellDown`).  That each of the thirteen rows is well made at each of its places is
  a lemma for the calls that open one thing, and one for each of the others.
* `BuildsAreSound`, for texts of any length and any parts.  The code builds an object from
  the objects of the part below (`NewInstance`, from the bottom), the property says which
  objects there ought to be (`Carried`, from the top).  `Layered` joins them at a part n:
  everything that is asked of n is built exactly if every part from `FirstUsed` to n is
  able to, and then what is built up to n is what is carried up to n.  It is proved by
  induction from `FirstUsed` to the last part; `SocketsOwn` goes the same way for the
  sockets.  `ProxyIs`: what a CONNECT part talks to, whatever the order of the map.

`TunnelsProofs`, about `PsiphonDialer`, `StreamRelay`, `ShadowsocksStream` and
`ShadowsocksPacket`:

* `TunnelsStayInHand`.  `TargetInv`: a call that waits for a Start has one, chosen once;
  `LinkInv`: the two contexts are tied during startup only; `CancelInv`: a dialer context
  is cancelled only by somebody who has asked for it.
* `EofIsLast`.  `CopyExact`: a copy has put what it has taken, less what is in its hand;
  `RelayInv` adds that nothing is closed under a copy that is still going while both ends
  are there and the server serves.  The two copies need each other: what one closes, the
  other reads.
* `ChunksAreDecrypted`, and `StreamIsPipe`: a connection implements `StreamPipe`.  The
  writing thread fills a part of one buffer without the lock while the timer encrypts
  another in place.  `LockInv`: who holds the mutex, and that while `needFlush` is unset
  nobody but the main loop flushes.  `RoomInv`: the read beside a flush begins behind the
  pending bytes *and* the tag, so that it touches no ciphertext, and whatever it reads
  still fits.  `WireInv`, `SealedInv`, `BufInv`: the chunks on the wire, a chunk that is
  encrypted but not yet written, and the buffer hold consecutive bytes, with consecutive
  nonces that start at the reader's.  `ReaderInv`: the same for what the reader holds.
* `PacketsGoWhole`, directly from the arithmetic of the packet layout.

`DnsttProofs`, about `DnsttSession` and `DnsttPacket`:

* `NothingForgotten`, `SessionIsShared`.  `CallOK` and `DialInv`: each dial runs for a
  call that waits for it or has left it to the reaper, and only finished dials are
  installed.  From these, every open part has an owner that will close it, whichever of
  cancellation, death, a second session and `Close` comes first.
* `PacketsAreSound`, `NamesOfAcceptedDomains`.  `TimerInv` says what an expiry in the
  channel is worth in each state of the send loop; that every payload up to the MTU fits
  in a name is a lemma on the arithmetic of `DnsNameCapacity`, for every length of domain.

`HostProofs`, about `Collectors`, `HostSession` and `SysProxy`:

* `CollectRetriesSound`.  `AskedInv`: how often each collector was asked, by the attempt
  and its place in the order, from which an error means that all attempts were made;
  `RefusalEndsLoop`: a lone collector that has refused is not called again.  Behind a
  fallback the refusal is hidden and the theorem claims nothing of it (section 4).
* `MachineIsRestored`.  `UndoInv`: what differs from what the run has found has its
  deferred call; `BackupInv`: the list of saved files is a prefix of the files in their
  order; `FileInv`: each file is as it was found, or in the backup and on the list, or
  restored, or, after a setting that failed halfway, saved.  Everything is relative to
  `found`, so runs over the leftovers of a killed one are covered.
* `SettingsAreKept`.  No step loses the user's settings but the renaming of the client's
  own file over their backup, which does (section 4).  No run checks this action property:
  the theorem covers it.
* `ProxiesAreAsAsked`.  `RowInv`: the commands left are the rest of the row of the call;
  `DidInv`: what was done stays done until the call returns; `SettledInv`: a settled
  report is not about anything the running call writes, and its host and port are those
  it wrote.

`SmartProofs`, about `SmartDns`, `SmartRace`, `SmartFinder` and `DnsQuery`:

* `ResolverIsVetted`.  `StartInv`, `QueueInv`: results in the channel and results to come;
  `VisitInv`, `AnswerInv`: what a visit of a test domain that was answered says of the
  resolver.
* `HonestRace`: `raceTests` implements the safety part of `RaceContract`.
* `SearchIsSound`.  `RankInv`: what a call has ranked is its input reordered; `StageInv`,
  `FoundInv`: what it has found, by how far it is; `CacheInv`: the cache is what somebody
  has read or what a call that is past its search has found.
* `QueryAnswersSound`.  `EntriesInv`: an answer is stored under the key of what it is
  about, in a cache that keeps to its array through expiry, moves to the front and
  evictions; `AnswersInv`: a call returns only what has the key of its question.

Refinement: each relay's `ImplementsAssoc` shows that its initial states are initial
states of `RelayAssoc` and each of its steps one of that module's steps or a stutter;
`StreamIsPipe` does the same for `StreamPipe` and `HonestRace` for `RaceContract`.  The
liveness half of the contracts is model-checked.

Induction over numbers is used where the models compute with recursive functions: the
numbers up to which a fact holds are a set, and `SetInduction` says that it is `Nat`,
which follows from `NatLessThanWellFounded`.

Some definitions of the models are written in the form the provers follow: two fields of
one record are set by one `EXCEPT` with a record (`SplitWriter!SocketWrite`), a table is an
`IF` instead of a `CASE` with arms that overlap (`SysProxy!Types`), and sequences are
filtered and summed by a recursive function or a plain sum instead of `SelectSeq` and
`FoldLeft` (`DnsQuery!RemoveExpired`, `ConfigUrl!Met`, `ConfigUrl!BuildPart`).

Every invariant of a run is proved.  Left to TLC:

* everything under fairness, which the proof system does not handle: that sessions,
  calls, dials and runs end, polls go on, bytes arrive and waits are bounded;
* the proxy at the end of `ListenerRelay`, of which a run checks that sessions end; the
  safety is proved of the relay below it alone.

## 6. Not modelled

`PROJECT.json` lists every component.  Left out:

* interface and error declarations; basic dialers that call `net` directly; socket options
  (`x/sockopt`) and the SOAX web service (`x/soax`), which have no state of their own;
* ciphers, key derivation, certificates, TLS and noise handshakes, the TURN and WebSocket
  protocols, net/http: external, modelled by what the code relies on;
* the forward and path handlers of `x/httpproxy`, which hand single requests to net/http;
  the round trip, deadlines and options of `x/httpconnect`; address conversions of the
  packet proxy adapter; the leftovers of losing tests in `x/smart`;
* of `x/configurl`, the text of URLs (encodings, ports, numbers) and `SanitizeConfig`;
* of `x/mobileproxy`, all but `RunProxy` and its `Stop`; command line tools and examples
  other than `outline-cli`, whose clean-up is taken to succeed (failures are logged only).

What could follow: the composition of `SmartFinder` with `ConfigUrl`, so that a search
builds its strategies instead of being told which can be built, and proofs about
the proxy over `ListenerRelay`.
