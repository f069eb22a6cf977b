# Models of zephyr_samples

TLA+ models, TLC runs and TLAPS proofs for the programs in `src/samples` whose
behaviour depends on the order of events: threads, interrupts, callbacks of the
Bluetooth stack, packets, power failures.

The repository is a copy of the samples of the Zephyr RTOS, modified by its
author. The kernel and the Bluetooth, mesh and network stacks are not part of
it; where a model needs one of their functions, the function is modelled by
what the samples rely on and marked `external` in `PROJECT.json`. Each sample is
a program of its own. Where two boards, or a client and a server, are both in
the repository, they are composed; programs that have nothing to do with each
other only share a run, in which a behaviour is one of one program.

Paths below are relative to `src/samples`. "mesh app" stands for
`boards/nrf/mesh/onoff_level_lighting_vnd_app/src`.

## Inventory

| component | state it keeps | contexts that interact | what makes it correct | modules |
|---|---|---|---|---|
| `philosophers` | mutexes `forks[]`, a program counter per thread | `main`, six threads | neighbours never eat together, no deadlock, nobody starves, no thread takes a fork it was not granted | `Philosophers`, `Dining` |
| `portability` (CMSIS) | semaphores as forks; a message queue of one, a counter, a timer | `main`, threads, timer callback | as above; what is written is read once, in order, to the end | `Cmsis` |
| `userspace/prod_consumer` | message queue, memory pool, two `k_queue`s, counters | timer interrupt, three user threads | each block in one place, data in order, the program ends and silences the device | `ProdConsumer`, `Pipeline` |
| `userspace/shared_mem` | two shared buffers with a flag each, one semaphore, three wheels | three cooperative threads | messages go through once and in turn, nobody waits for ever with the semaphore, the cipher deciphers itself | `SharedMem`, `Pipeline` |
| `scheduler/metairq_dispatch` | queues, latency slots, statistics | interrupt, meta-IRQ thread, four workers | no two events share a slot; one report, and what it may lack | `MetaIrq` |
| `bluetooth/protect` | `state`, `bt_state`, `default_conn`, `done`, `flag`, shared GATT parameters | `main()` polling, callbacks on the receive thread | one request at a time, references balanced, no NULL connection used, passes end | `Protect` |
| `bluetooth/protect_backup2`, `protect_backup4` | as `protect`, with `wait` and the read's name | as `protect` | answers are printed under their name, references balanced | `Backups` |
| `bluetooth/eddystone` | slot, lock, idle work, connection | work queue, receive thread | the slot written is the one on air, a lock is for ever, the beacon ends up broadcasting | `Eddystone` |
| `bluetooth/peripheral`, `_csc`, `_hr`, `hci_pwr_ctrl` | told time, indication under way, wheel and crank, subscription, power | the sample's own thread, receive thread | one indication at a time, event times do not wrap, the power set fits the link | `Peripherals` |
| `bluetooth/mesh_provisioner` | CDB in flash, node being added, semaphores | `main`, stack's thread, power | nodes are added once and get configured | `Provisioner` |
| `bluetooth/hci_uart`, `hci_rpmsg`, `hci_spi` | reception state, buffer pools, two semaphores for the bus | interrupt, threads, host | packets whole and in order, one thread on the bus, no lost command | `HciBridge`, `HciSpi` |
| `net/wpan_serial`, `net/wpanusb` | SLIP state, packet pool, requests, sequence numbers | interrupt, threads, host | a damaged frame damages no other, each request is reported on truthfully | `Wpan` |
| `subsys/usb/hid-cdc` | event pool and queue, `usb_sem`, text to type | `main`, button interrupts, port handlers, host | keys typed as entered and released, each event served | `HidCdc` |
| `boards/intel_s1000_crb/audio` | three slabs, stream states, command buffer | driver, tuning, background and USB threads, DMA | blocks find their way back, nothing runs when stopped, the host is answered | `Audio` |
| mesh app: light | current, target and step of three values, ranges, one transition, work items | receive thread, timer interrupt, workqueue | values reach their targets, never pass them, and the timer stops | `MeshLight` |
| mesh app: publisher, statuses | tids, last message, button, publications | two boards, a phone, the network | the last press wins, answers come true, listeners end up with the light's state | `MeshControl` |
| mesh app: storage | `storage_id`, settings in RAM and flash, `reset_counter` | the same, and power failures | what was set survives, only quick boots reset the mesh | `MeshStorage` |
| mesh app: transition times | `tt`, `counter`, `quo_tt`, `rt` | message handler, work items | the periods add up, the remaining time told is right | `TransitionTime` |
| `boards/reel_board/mesh_badge` | name, screen, statistics, works | work queue, stack's thread, interrupts | what is shown is so, the badge is reachable one way or the other | `MeshBadge` |
| `boards/nrf/mesh/onoff-app` | press counts, window, last command, lamp models | button and timer interrupts, workqueue, stack's thread | each window's presses become one command, and it is obeyed | `MeshSwitch` |
| `boards/bbc_microbit/pong` | game and connection state | two boards: buttons, workqueue, Bluetooth thread | one ball; no endless "Connecting..."; no game behind the menu | `Pong` |
| `net/sockets/coap_server`, `coap_client` | observers, pending confirmable messages, block contexts | `main` and workqueue without a lock; the client; the network | every block fetched, the observers served, a RESET unregisters | `CoapServer`, `Coap` |
| `net/zperf` | session rows, counters, network contexts | stack's thread, shell's thread, two hosts | loss reported is loss, reports are of the upload, rows and contexts come back | `ZperfUdp`, `ZperfTcp`, `Zperf` |
| `net/sockets/echo_server`, `echo_client` | accepted slots, sessions, delayed works | accept and handler threads, `main`, workqueue, network events | bytes come back once and in order, a session leaves nothing to the next | `EchoServer` |
| `net/sockets/echo_async`, `echo_async_select` | `pollfds[]` or the set, descriptors | one thread over many connections | no healthy connection is closed, no wrong descriptor polled | `AsyncEcho` |
| `net/cloud/mqtt_azure`, `net/mqtt_publisher`, `net/cloud/google_iot_mqtt` | connected flag, message ids, the library's state | `main`, works, network events, the broker | no wake-up lost, connection known rightly, nothing published twice | `Mqtt` |

`PROJECT.json` lists these and everything that is not modelled under
`components`, with the reason: samples that drive one device and print, that
hold a table of attributes, that do not compile at this commit
(`bluetooth/central_hr`, `mesh_demo` on the micro:bit), or whose logic is a
protocol of the kernel tree. It also lists under `hazards` what a test would
hardly reach, each at its line and with the properties that are about it.

## Modules

Variables keep the source's names; where two modules of one run need the same
name, or a static is a flag of the stack, a prefix says whose it is (`b_`, `e_`,
`p_`, `a_`). A handler, callback or stretch of a thread up to its next blocking
call is one action; where a higher-priority context may come in between, it is
cut there and the place is a program counter. Definitions named after a defect
(`main_takes_bus_at_once` next to `main_takes_bus`) are wrong variants, which
show that each property can fail: `PROJECT.json` pairs them.

| module | state and actions |
|---|---|
| `Philosophers` | `pc[p]`, `owner[f]`, `granted`, `mainPc`, `started`; one action for each `take`, each `drop`, the end of the second sleep, `init_objects`, each turn of `start_threads` |
| `Dining` | the table without forks; `Philosophers` implements it (`ImplementsDining`) |
| `Cmsis` | `stands`, the semaphores' waits; `sample`, `t_at`, `messageq`, `counter`: philosophers over semaphores, and both versions of `timer_synchronization` |
| `ProdConsumer` | each thread's `pc`, the block in its hands, its loop counter; an action for each blocking call or update of shared state |
| `Pipeline` | a bounded FIFO; `ProdConsumer` and `SharedMem` implement it |
| `SharedMem` | the kernel's `ready` and `waiting`, each thread's `pc`, buffers and flags; the wheels of `enc.c` as operators over a position |
| `MetaIrq` | the device's queue, the workers' queues and program counters, the statistics; a worker has an action for each point at which preemption has an effect |
| `Protect` | the statics of `main.c` and `ble.c`; one action per callback and per visible step of `main()`; `scanning`, `link`, `disc`, `reads` are the stack as callbacks show it |
| `Backups` | the same for the older stages, with `b_` |
| `Eddystone`, `Peripherals`, `Provisioner` | the statics shared by two contexts, `p_at` and its like for the place of the thread that may be interrupted |
| `Bluetooth` | a behaviour is one of one of the previous four modules |
| `MeshLight` | `cur`, `tgt`, `delta` by channel, `counter`, `timer`, `works`; an action per message, `Tick` for the interrupt, one per work item |
| `MeshControl` | extends `MeshLight`: a second board as a switch, a phone, the network, publications and answers |
| `MeshStorage` | `ram` and `flash` by key, `storage_id`, the keys still to be written; an action per message, key written, phase of boot |
| `TransitionTime` | the encoded time, the remaining milliseconds, the last status |
| `MeshBadge`, `MeshSwitch` | the works due, the screen, windows and counters; interrupts apart from works |
| `MCMeshStorage`, `MCThreads`, `MCKernel` | join modules without a common variable and give TLC its constants |
| `CoapServer`, `Coap` | `observers`, `list`, `pendings`, which the work queue may change between two steps of `main`; `Coap` adds clients, a stranger and the network |
| `ZperfUdp`, `ZperfTcp`, `Zperf` | rows of `sessions[][]`; connections; the commands' local variables and contexts |
| `Pong` | for each board the game (a record, with operators that take and give it) and `ble.c`, with the callbacks still to be delivered |
| `HciBridge`, `HciSpi`, `Wpan`, `HidCdc`, `Audio`, `Bridges` | reception states, pools, tokens; the host or the DMA on the other side |
| `EchoServer`, `AsyncEcho`, `Mqtt`, `Sockets` | threads and descriptors; peers, brokers and the network as the other side |
| `*Proofs` | theorems about `Philosophers`, `ProdConsumer`, `Protect`, `MeshLight`, `TransitionTime`, `Cmsis`, `Pong`, `Coap`, `SharedMem` (`EnigmaProofs`), `Bridges`, `Sockets` and `Zperf`; the table under *Proofs* says which has whose |

### What is abstracted

* Data: a payload is a number that tells it apart (its stamp, its position, its
  sequence number); UUIDs, texts, addresses are positions or model values;
  printing, formatting and layout are left out.
* `philosophers`: priorities (every interleaving is allowed) and delays. Forks
  are mutexes, the default; the semaphore form is in `Cmsis`.
* `MeshLight`: `0 .. LMAX` stands for the 16-bit range and wraps the same way;
  float conversions become exact integer ones, except where the float does not
  fit its target, which gives any value. Handlers run in cooperative threads, so
  that one is a step; the interrupt may come in its middle, which matters only
  at `k_timer_stop` (`StopTimer`). Acknowledged and unacknowledged forms differ
  in the reply, but for the static `last_level` of the delta handlers, which is
  kept per form. A delta refused for its length or transition time has replaced
  `last_level` before it is refused (`delta_refused`); every other message that
  is refused changes nothing.
* `MeshStorage`: a transition is one step that takes any time; temperature
  stands for everything whose range is not changed.
* `MeshControl`: "tt" stands for every setting that is stored, answered and
  published at once. The network delivers a source's messages in order or loses
  them.
* `CoapServer`: the heap never runs out; removing an observer may empty its slot
  or leave it as it is, since the library is not among the sources. The ids of
  notifications are taken from `1 .. IDS`. Tokens and options are left out.
* `Zperf`: the network loses and reorders, and does not duplicate. Rates are
  left out.
* `Pong`: where paddle and ball are; in a frame the ball may do whatever its
  direction allows.
* `HciBridge`: only from the host to the controller; what a message that
  overruns its buffer destroys is not kept, only that it did. `HciSpi`: the end
  of a transfer and the fall of the pin are two steps (`DataFromMain`,
  `main_releases_bus`). `Eddystone`: the two waits of a restart and the store of
  the type after them are four steps; what the copy of a URL behind `eds_slots`
  destroys is not kept. `Provisioner`: a network key is the number of the boot
  that drew it. `Audio`: USB writes of
  replies succeed. `Sockets`: IPv4 only; `close` and `send` may block.
* `MetaIrq`: time; latencies are not kept, only which slots were written.

## Runs

| run | instance | what it shows |
|---|---|---|
| `threads` | 6 philosophers (the code's number); 4 loops, queue of 2, 2 blocks, stamps modulo 3; 3 CMSIS philosophers, `COUNTER = 10` | `NoThreadOops`; `ImplementsDining`; `EveryoneEats`; `EveryBlockInOnePlace`; `ImplementsPipeline`; `SuccessUnlessOops`; `CmsisAgrees` |
| `protect` | 4 flags, 5 services | `EveryFlagOneByOne`, `ConnectionKept`, `FaultOnlyAfterLinkLoss`; `PassEnds` |
| `bluetooth` | 3 flags, 2 services; URLs that fit and one that does not; 2 devices, 2 faults and 1 reboot for the provisioner; `H_FAULTS = 1` | `SharedStateAgrees`, `WorkGetsDone` |
| `kernel` | the wheels and messages of the code; 4 workers, `MAX_EVENTS = 3`, queues of 2, device queue of 1, `QEMU` | `SelfInverse`, `ImplementsLine`, `BothComeOut`, `ReportedOnceAndWhole` |
| `mesh_light` | `LMAX = 3`, temperatures 1..2, 2 steps, two messages of 13 kinds, unacknowledged, and any number of refused deltas while a transaction is under way | `NeitherPastNorShort`, `DeltaNotAddedTwice`, `ComesToRest` |
| `mesh_control` | two messages each with a repetition, two presses, one question, one reboot | `NodeObeys`, `ListenersKnow` |
| `mesh_storage` | two messages, three boots, `MULTIRESET = 2`; statuses at every edge of the time encoding; a badge with two LEDs, three neighbours; two switches and a clock that wraps | `NodesKeepState`, `NodesStepRight`, `ReportedTimeIsRight` |
| `coap` | a client and a stranger, 2 observers, 2 pendings, 2 cycles, 2 blocks, one id clash | `EveryBlockFetched`, `ResetUnregisters`, `EverybodyServed` |
| `zperf` | 2 hosts, 2 sessions; 3 connections for 2 rows; 5 contexts | `LossIsWhatIsMissing`, `ReportsAreOfTheUpload`, `ResourcesComeBack` |
| `pong` | two boards, 4 presses, 1 fault | `OneBall`, `StillLooking`, `NoGameBehindTheMenu` |
| `bridges` | pools of one buffer, 4 packets, one stray byte; 3 events, 3 commands, 2 faults on SPI; 4 frames, 2 packets of `wpan`; 4 elements, 3 texts; slabs of 2, one fault | `NothingGarbled`, `BusHandover`, `RequestsServed` |
| `sockets` | one handler, 2 peers of 3 bytes; 4 descriptors, 4 changes of the network; 3 polled descriptors and 4 callers; message ids 0..2 modulo 4 | `EchoesInOrder`, `BrokersAgree`, `HealthyStayConnected` |

The longest run takes about two minutes with two workers, and the largest has
3.8 million states.

Why the bounds are enough.

* *threads*: with 4 loops, 2 blocks and a queue of 2 the queue overflows, the
  pool runs out, a block is reused and the program ends both ways.
* *protect*, *bluetooth*: a pass needs a first, a last and middle flags; links
  are lost and made again without bound, `troubles` remembers kinds only. An
  8-bit counter is scaled to one that wraps within the pass.
* *mesh_light*, *mesh_control*: a race takes one message to queue a work item,
  one to interrupt it and the steps that follow; two steps give a first and a
  last. `U32` is above the number of steps, so that a wrapped counter is told
  apart from a running one. One repetition and two tids suffice to take a new
  message for an old one and the reverse. Refused deltas do not count among
  the messages, so that one may come between the two of a transaction; both
  forms of a delta at once take the run past a few minutes and are left to the
  proof, which has them.
* *mesh_storage*: two messages replace a `storage_id` that is not yet served;
  three boots with `MULTIRESET = 2` are the fewest that reset the mesh.
* *coap*: two observers and two pendings fill both tables; the stranger's id
  clash and one lost datagram are enough to make each retransmission path meet
  the walk of `main`.
* *zperf*: more connections than rows, two uploads of one host, and a pool that
  two leaking attempts empty.
* *pong*: four presses are start, cancel, start again and one for the other
  player. The two boards run one program, so that symmetry is sound.
* *bluetooth*: of the lengths a URL frame may ask for, 5 and 18 shorten the slot's
  19, 23 leaves it; one power failure falls anywhere in `bt_ready`.
* *bridges*: a pool of one is empty whenever it is used; texts that type a key
  twice, with and without shift. The faults are placed by TLC.
* *sockets*: a descriptor is closed, handed out again and polled in one pass,
  which takes three descriptors and four callers; ids wrap to 0.

Symmetry is used in `pong` only. Deadlock checking is off where behaviours
really end: threads that return, programs that stop in a failure state, bounded
messages, presses and boots that are used up.

### Fairness

No run assumes that a peer, a user, the network or an advertisement does
anything, except where it is named here.

* `threads`: `main` and each thread of philosophers, which sleep twice per turn;
  the running timer and each thread of `prod_consumer`, which block once per turn.
* `protect`, `bluetooth`: `main()`, which polls, work items that are due, and
  the stack's answers on a live connection.
  Failures and link losses are never forced.
* `kernel`: the CPU runs the thread the scheduler picks; sleeps and timeouts
  end. Nothing between the workers.
* `mesh_light`, `mesh_control`: a running timer expires, the workqueue gets
  the CPU, publications that are due are sent. Not: messages, the six-second
  window.
* `coap`: `main`, both work items, the clients.
* `bridges`: for audio, periods pass, its threads run, and a host finishes the
  command it began.
* `mesh_storage`, `zperf`, `pong`, `sockets` state safety only.

### Properties that hold only under a condition

Some promises a reader would expect do not hold as such; the property states
the exact condition under which they do, by a history variable.

* `NeitherPastNorShort` exempts transitions whose message arrived while work
  items were queued (`raced`). `k_timer_stop` does not cancel a queued item: it
  then decrements the new transition's counter, and `no_transition_work` sets
  values to the target from which the remaining steps go on; the counter wraps
  only in this way. `ComesToRest` has no such exemption, but one for a move
  whose range is changed under way (`BoundMovedAway`): its target is out of
  reach of the clamped value, and the timer goes on.
* `NodesKeepState` exempts states after `save_on_flash` replaced an id that was
  waiting; a boot may take the last non-zero lightness for the target, as
  `ps_set` matches `ll` against the prefix of `llt`.
* `NodeObeys`, `ListenersKnow`: not when a later model's message was overtaken
  by an older one's repetition, after a reboot (tids restart at 0, so that a
  press within six seconds is taken for a repetition), after a race, or when a
  message asked for the values a running transition had reached just then
  (`hushed`: it stops, and nothing is published).
* `DeltaNotAddedTwice` follows a transaction in one form and on one channel. A
  delta of another sender that is refused, the other form, or another kind of
  message with the same identity ends it: what follows starts from a level that
  is not its own, and no document says what it should then add up to.
* `NothingGarbled` says nothing of what comes after a message of `hci_rpmsg`
  that is longer than its buffer (`overrun`), and nothing of the block the flush
  of a full pool loses in `hid-cdc` (`h_fault`).
* `HealthyStayConnected` ends, for `echo_async_select`, with the first `accept`
  that fails: the program exits and takes all connections with it.
* `SharedStateAgrees`, `WorkGetsDone`: the beacon's type and what is on the air
  agree until two restarts cross in the second wait (`e_crossed`), and nothing is
  said after a URL was copied behind the slots (`e_overrun`); nodes are configured
  unless the power failed in `bt_ready` before the application key was stored
  (`bare`) or before the provisioner joined (`rekeyed`); the wheel's count is the
  one due but for a setting between a load and its store; a refused read stalls
  `protect_backup2`; the power of a link may be another link's (`excused`).
* `PassEnds`, `FaultOnlyAfterLinkLoss`: a read that the stack refuses, or a lost
  link, stalls `main()` for good or makes it use NULL.
* `ReportedOnceAndWhole` keeps within the array on QEMU only; a dropped last
  event leaves the test without a report; the report may read a slot that a
  preempted worker has taken and not yet written, and the property says which.
* `BothComeOut` rests on the kernel's first-in first-out queues: `enc()` holds
  the semaphore while it waits for the second buffer, which `ct()` needs it to
  empty.
* `SuccessUnlessOops`: the monitor is killed when the pool runs out.
* `CmsisAgrees`: V2 takes a message that was read already for one that was not
  sent, when `main` is kept from running for a whole period of the timer.
* `BusHandover`: after a failed transfer the slave goes on with the header it
  had, and commands or events are lost; that one thread has the bus holds always.
  Without a failed transfer it allows one halt: a host that reads once more
  between an event's last byte and the fall of the pin (`hci_spi/src/main.c:154`
  and 160) has the bus given to `bt_tx_thread`, and both sides wait until there is
  another event.
* `OneBall`, `StillLooking`, `NoGameBehindTheMenu`: `blame` remembers who launched
  a ball that was not his, which message failed, which connection came after its
  cancelling.
* `ResourcesComeBack`, `ReportsAreOfTheUpload`, `ResetUnregisters`, `EchoesInOrder`
  and `BrokersAgree` name the failures after which a row, a context, a count or
  a socket is lost.

### Disagreements met while modelling

None of them has a run of its own; the properties above state what holds.

* `userspace/prod_consumer`: the comment at `app_syscall.c:15-16` says the cookie
  is updated "only if it is less than 42"; line 23 refuses only `> 42`.
* `scheduler/metairq_dispatch`: `MAX_EVENTS` is "How many events will be sent";
  `msgdev.c:71` sends one more, and off QEMU `mirq_latencies` is one short.
* `pong`: the README says the player with the ball launches it, `check_start`
  lets either; a launch within two seconds of the last loses the ball. A failed
  attempt leaves `default_conn` stale, a failed start of advertising is never
  repeated.
* `coap_server`: the condition of `large_create_post` is inverted
  (`coap-server.c:921`).
* `zperf`: the first datagram is not counted, the labels of lost and out of order
  are swapped (`zperf_udp_receiver.c:226-231`), a closing datagram without data
  opens a session. A receiver that could not be bound says it was started and
  refuses for ever after; each failed set-up keeps a context, and with both
  servers running an upload can never be set up. `in*_addr_my` is written although
  the interface refused the address.
* `echo_server` does not stop its servers when it quits without a network, does
  not echo the tail to a peer that half-closed, and may close a socket twice;
  `echo_client` overflows `fds` from a later session on, and waits after a TCP
  error for the next change of the network.
* `mqtt_azure` waits for ever after a disconnect with the network up, and
  returns for good when the network goes during a connect; like
  `google_iot_mqtt` it uses `-EAGAIN` as an index. `google_iot_mqtt` loses a
  socket per attempt without a CONNACK; `message_id` wraps to 0, which ends the
  program; `mqtt_publisher` ends its round when the random id is 0.
* `echo_async_select`: "Number of simultaneous client connections will be NUM_FDS
  be minus 2" (`socket_echo_select.c:38`) and "supports up to three connected
  clients" (`README.rst:46`): nothing there counts connections, and the limit is
  that of the descriptors. A failed `accept` is not looked at (170-183) and ends
  in `exit(1)`; `echo_async` looks.
* `hci_rpmsg`: lines 191 and 227 add what remains of a message to a buffer
  without asking for its room. `protect`: `ble.c:262` takes the uuid of
  `flags[flag]` before 263 compares `flag` with their number.
* `onoff_level_lighting_vnd_app`: the four delta handlers replace `last_level`
  (`device_composition.c:501`, 582, 2544, 2625) before the checks that refuse a
  message for its length or transition time.
* `eddystone`: `memcpy(&slot->ad[2].data + EDS_URL_WRITE_OFFSET, ...)`
  (`main.c:492`) writes behind the pointer, not into the frame it points to: the
  URL is never stored and what follows the slot in memory is overwritten. When
  two restarts cross, the type may be URL and the air connectable for ever. The
  comment at `main.c:551` has the beacon remain connectable,
  the restart is not; those at 562-603 speak of values readable only when
  unlocked, the reads do not look; `read_adv_tx_power` returns `tx_power`,
  `write_adv_data` never changes what is broadcast, and clearing it is reported
  as done even when the restart failed.
* `protect_backup2` polls for ever after a refused or forgotten read;
  `protect_backup4` never leaves `SCANNING_STATE`.
* mesh app: `CANNOT_SET_RANGE_MAX` is never reported. `get` leaves out the target
  when it equals the current value, a publication does not.
* `mesh_provisioner`: the answers' statuses are ignored ("If no errors are
  encountered, the node is marked as configured"); a power loss between
  `bt_mesh_cdb_create` and the store of its application key leaves no key for
  ever ("Using stored CDB"); `net_key` is drawn at each boot (227) and handed to
  `bt_mesh_provision` (242) also when the stored database, and the nodes it adds,
  have another: a power loss before that call leaves provisioner and nodes on
  different networks for ever; `node_uuid` is copied while it is overwritten.
* `mesh_badge`: after a failed start the badge is neither connectable nor in the
  mesh. `onoff-app`: the first press after the clock's wrap is ignored or its
  bounces count; a late work queue lets a later press take over a window's
  command; `prov_reset` does not clear `primary_addr`; without a publish address
  `previous` is stale ("required to publish status on a state change"). The head
  of `main.c` (14) says "Prior to provisioning, a button inverts the state of the
  corresponding LED"; the code, the README and `PressIsObeyed` have one press turn
  it on and more turn it off. Lines 28-29 there, by which a lamp ignores its own
  button since its state "has already been changed locally", describe no code:
  after provisioning a button changes no lamp but by what it publishes.
* `hid-cdc`: "any string" is not typed back when two neighbouring characters
  share a key, which is not released in between; when the pool is empty a block
  is lost and NULL written; a full buffer without CR leaves the port deaf.
* `audio`: a failed `i2s_read` keeps a block, and after two the thread waits for
  ever under the semaphore; `send_zeros_frame` may keep one as well; a stop that
  comes before the thread's own start is undone by it; a second command before
  the first reply may lose one.
* `portability`: the V1 philosophers never fill in `forks[]` and take with a
  timeout of 0; the V2 mutex build does not compile; `timer_synchronization`'s
  README counts to 15, the code writes 5 to 14.
* `hci_pwr_ctrl`: the README's staircase begins at -4 dB, the code's at 4; a
  failed read of the RSSI leaves -1, "strong", and sets the weakest power.

## Proofs

TLAPS checks every theorem for every value of the constants, from the named
assumptions of the modules; TLC evaluates those assumptions in the runs.

| module | theorem | of the runs' properties |
|---|---|---|
| `ThreadsProofs` | `TypeCorrect`, `CodeUsesItsForks`, `MutualExclusion`, `DeadlockFreedom`, `Refinement` (philosophers); `NoBlockLost`, `PipelineImplemented` (producer and consumer); `PortsAgree` (CMSIS) | `NoThreadOops`, `ImplementsDining`; `EveryBlockInOnePlace`, `ImplementsPipeline`; `CmsisAgrees` |
| `ProtectProofs` | `TypeCorrect`, `OneByOne`, `Kept`, `FaultNeedsLinkLoss`, `DiscoveryFirst` | `EveryFlagOneByOne`, `ConnectionKept`, `FaultOnlyAfterLinkLoss` |
| `MeshLightProofs` | `TypeCorrect`, `LightGoesWhereItIsSent`, `DeltasDoNotAddUp` | `NeitherPastNorShort`, `DeltaNotAddedTwice` |
| `BoardsProofs` | `TypeCorrect`, `TimesAreRight`, `PeriodsAreRight` (transition times); `ConnectingGoesOn`, `MenuEndsTheGame` (pong) | `ReportedTimeIsRight`; `StillLooking`, `NoGameBehindTheMenu` |
| `EnigmaProofs` | `WheelsStayInRange`, `Deciphers` | `SelfInverse` |
| `PacketProofs` | `BusIsHandedOver` (bridges); `BlocksAreFetched`, `ResetTakesOffTheList` (CoAP) | `BusHandover`; `EveryBlockFetched`, `ResetUnregisters` |
| `SocketsProofs` | `EachKeepsItsEntry`, `BytesComeBackInOrder`, `ClientsAgreeWithTheirBroker` | `HealthyStayConnected`, `EchoesInOrder`, `BrokersAgree` |
| `ZperfProofs` | `LossIsRight`, `ReportsAreRight`, `ResourcesDoComeBack` | `LossIsWhatIsMissing`, `ReportsAreOfTheUpload`, `ResourcesComeBack` |

**Philosophers** (`NumPhilAssumption`: at least two). The inductive invariant
adds to the types:

* `DropsOnlyWhatItOwns`: a program counter determines the forks owned. Exclusion
  follows, as two neighbours that eat would own the same fork;
* `NoLostWakeup`: a thread pends only on a fork that someone owns. Without it an
  unlock could leave a pended thread behind, and a deadlock could not be told
  from a lost wake-up;
* `Granted` and `StartOrder`: exactly the threads below `started` run, and each
  has the grants for its two forks, from which `NoThreadOops` follows.

Deadlock freedom is the classical argument on the order of forks: if all were
pended, the owner of the highest fork waited for would be waiting for a higher
one. The philosopher who waits for the highest fork exists because `<` on the
naturals is well-founded (`NatLessThanWellFounded`, `WFMin`).

**ProdConsumer** (`ProdConsumerAssumption`: as many queue nodes as blocks, or
more). That the counts add up is not inductive: two queues that hold the same
block would keep it true. The invariant says instead that the places - the
pool, the two queues without repetition, the threads' hands - are disjoint and
together all blocks; and that no thread downstream runs before `monitor` has
set up its queues, since the queues would otherwise be emptied under it. Of
the places the numbers follow (`EveryBlockInOnePlace`). The refinement maps the
state to one sequence, the data on the way from the driver's queue to the
driver's register: each step appends at its end, takes from its front, or moves
a datum between neighbouring parts of it. Its length is bounded because each
datum outside the driver's queue is in a block of its own.

**Cmsis** (`CmsisAssumption`: at least two philosophers, a counter that is not 0).
`ForksInv` is the philosophers' invariant for semaphores, which have no owner: a
token is there exactly when no philosopher's place says that he has the fork
(`TokenOrHand`), nobody waits for one that is there, and a release hands it over.
`TimerInv` says for each place of `main` how far its writes are ahead of the
callback's reads (`InStep`): one, or two while it is blocked in its put. It holds
until the timer fires while `main` could run; V2 finds its message in the queue
until then, and V1 does not look (`StillCounting`).

**Protect** (`ProtectAssumption`: at least one flag and one service, and fewer
services than the 8-bit counter counts), with any number of failures and
reconnections:

* `Connection`: `default_conn` is set exactly while the stack has a link, and no
  scan runs then. This is what makes the single `bt_conn_unref` of each of the
  two callbacks drop exactly one reference;
* `Reading`: a read is under way only while `main()` polls and `done` is false;
  since only its callback or `main()` after `done` issues the next one, the
  static parameters are never used twice;
* `Pass`: without a refused read, the reads issued and the flags counted are
  equal until `done`, and the count is back at zero when the next pass starts;
* `TypeCorrect` lets `flag` be one past the last: that is where `read_next_flag`
  takes a uuid once in each pass. Of this uuid `Reading` says that no request is
  under way then, so that it is never asked for;
* `FirstLink`: as long as no link was lost, `main()` leaves the scan only with
  the link up, and it stays up.

`DiscoveryFirst` needs `NoTrouble` besides: while nothing has failed,
`discovered` is one behind the service asked for, so that it reaches the number
of services exactly when the last one is found.

**MeshLight** (`MeshLightAssumption`: an odd `LMAX` as 65535 is, temperatures
within it, a counter wider than the number of steps), for any messages, ranges,
transition times and number of steps. That no value passes its target is not
inductive: a work item left in the queue would step twice for one period. The
invariant adds `InStep`: unless a message has `raced`, the queue holds at most the
one item the running timer submits, the counter is the number of steps to go and
the timer and the fading channels belong together. With it `NoOvershoot` - what is
left is at least `delta * counter`, on the side of its sign - survives a step,
since the 16-bit subtraction cannot wrap while the value is between two values in
range (`FadeStepKeeps`), and a new transition, since `tgt - cur` divided by the
number of steps is never more than its share (`OneStepLess` and its kin).
`SettledAtRest` follows at the last step, which copies the targets.

`DeltaNotAddedTwice` needs besides (`Kept`) that the static variable of the
handler still holds the level its transaction began at: only a delta of the same
form and channel writes it, and that one either belongs to the transaction
(`DeltaGoesOn`) or ends it (`RefusedGoesOn`).

**TransitionTime** (`TransitionTimeAssumption`: instants are integers). The run
samples the edges; the theorems hold for a status sent at any millisecond. The
invariant states that the last status is right for the remaining time it was
computed from, and that before the first timer expiry nothing of the time has
passed (`Untouched`), which is why the stored time may be reported unchanged.
`EncodeFact` treats each resolution; `QuotientFact` the division into at most
ten periods.

**Pong** (`PongAssumption`: two boards, bounds that are naturals), for any number of
link losses, failing calls and presses. Neither property is inductive: whether a
step is due depends on what the last press called off, and whether a game may go
on on callbacks that are still to come. `PongInv` says of each board

* `InSession`: a service is discovered or subscribed, and a game on, only between
  `connected` and `disconnected`, with the link's own object in `default_conn`;
* `EndComes`: without a link the last callback to come is `disconnected`, or none
  is and `ble.c` knows. So no board stays in a game whose link is gone, and the
  queue may otherwise be of any length;
* `Unwanted`: behind the menu, or after the other has gone, a connection is being
  cancelled or came late. A link made after the cancelling is the one exception
  the property makes;
* `Looking`: while the display says "Connecting..." nothing is cancelled and
  `ble.c` is in none of the states that nothing leads out of.

What a step does to link and callbacks is summed up in `Wire`, from which follows
that the other board loses nothing (`BystanderKeeps`).

**The wheels of SharedMem** (`EnigmaAssumption`: more letters than the reset
position 7, wheels that are permutations, a reflector that is its own inverse).
The run checks the wheels and messages of the code, the theorem all of them. At
every position the way back through a wheel undoes the way forth
(`calc_rev_wheel` is the inverse, and adding and subtracting the position
cancel modulo `WHEEL_SIZE`); so enciphering twice reflects twice.

**The SPI bus** (`SpiAssumption`: the bounds are naturals), for any number of
events, commands and failing transfers, in the composition with the other
bridges. `OnTheBus` alone is not inductive: a semaphore given twice would let both
threads in. `OneToken` counts bus and semaphores as one token, which is always
somewhere. For what holds until a transfer fails, `InPhase` says that slave and
host agree on what the next transfer is, and that `main` has or may take the
token only while the host reads - hence no command is taken for a header
(`HandledKeeps`); `EventsInOrder` orders events read, in hand and queued, with
the unsendable ones (0) left aside.

**CoAP** (`CoapAssumption`: at least one slot, entry, cycle and block, the server and
the stranger no clients; `StraysAssumption`: the stranger asks the plain resources
for what they have), for any number of clients, slots, blocks and datagrams lost,
overtaken or dropped at a full socket. A client takes whatever arrives next for its
answer, and the server has one block context for all, so neither property is
inductive. `CoapInv` adds

* `OneAtATime`: until it observes, a client has its request or one answer to it
  under way, never both; the answer bears the number of the block asked for and
  says "more" exactly before the last (`Answered`). With `Blocks`, what it has are
  the blocks below the one it asks for;
* `Observing`: a client holds no slot and is told nothing until its request to
  observe is handled, one slot from then on, and is on the list before the first
  datagram to it: a RESET cannot come between slot and list (`Registered`);
* `ServerTables`: no slot is on the list twice, none of those is unused, and the one
  being registered is not yet there. So `coap_remove_observer`, which takes off the
  first, takes off all (`RemoveFirstFact`);
* `Unregistering`: after its last reply a client is off the list, or its RESET is
  under way or being handled, or the failures the property names have happened.

A step takes notice of the sender of a datagram and of nobody else (`OthersCalm`,
`OtherClients`): for all the others `Calm` shows what they keep.

**echo_async** (`AsyncEchoAssumption`: at least one entry, and bounds that are
naturals), for any number of entries, connections and data, with `poll` or
`select`. `HealthyStayConnected` says nothing of what the pass still has before
it, and so is not inductive. `AsyncInv` adds

* `Callers`: a connection waits to be accepted, has one descriptor, or is done
  with. Hence at `accept` a connection waits that has none, and a free descriptor
  exists by the pigeonhole principle (`FreeDescriptor`);
* `OwnEntry`: open descriptors and entries in use are one to one, so that
  `pollfds_add` finds no old entry of the descriptor (`AddsEntry`) and
  `pollfds_del` clears the right one and no other (`FreesEntry`);
* `PassIsFresh`: what `poll` has said of the entries the pass has yet to come to
  is still so. Of an entry further on nobody but this pass reads the data or
  closes the socket, and `accept`, which may hand out an old number, comes first:
  so a `recv` that finds nothing means that the peer is gone (`ReceiveKeeps`).

**echo_server and echo_client** (`EchoServerAssumption`, `EchoClientAssumption`: at
least one slot, a buffer of at least one byte, one byte or more of TCP data), for
any number of slots, peers and bytes. The server's `ServerInv` adds

* `Holders`: a slot has one connection and a connection one slot. Only `main`,
  behind the end of the accepting thread, leaves a connection without its handler;
  a handler that closes is marked free at once, but has closed its socket by then;
* `Bytes`: what a handler has received of its connection it has echoed or holds
  in its buffer, so that the order survives a `send` of a part and a full buffer
  (`RecvKeeps`, `SendKeepsBytes`);
* `Waiting` and `Served`: who waits for `accept` has not been served, and who has
  been served is closed or still has its slot: no byte goes missing in between;
* `Stopping`: the slots `stop_tcp` has come past are closed, and none is filled
  again, as the accepting thread has ended first.

The client's `EchoInv` has `NothingMissing` (what a response lacks is under way, so
that there is never too much), `SendsAgain` (a work, or the end of a send under way,
sends the next datagram) and `Quiet`: unless a send began between the two cancels
of `stop_udp`, or was under way, no work is left behind them.

**mqtt_azure** (`AzureAssumption`). `CloudWakesMain` is not inductive: nothing in it
keeps `abort_mqtt_connection` from cancelling the work that would have woken `main`.
`WakeUp` says that an abort under way has already given `publish_msg` and that the
network is down, so that `main` is woken and `mqtt_start` comes with the next
`l4_connected`; that what the program takes for connected the library has open; and
that from the subscription on the connection ends by the handler, or else `dropped`
records it.

**mqtt_publisher and google_iot_mqtt** (`MqttAssumption`), for any number of
messages under way, ids and retries, the broker answering, closing or being late at
any time. What `Qos2Once` needs is an order in the queue of requests:

* `ReleasedInTime`: until an id is taken that waits for its answer, a release
  (PUBREL) of each id comes between two messages that have it, and before the first
  of them if the broker has the id open; an id without a release behind it still
  waits for its PUBREC. A request served takes the queue one place on
  (`ServedInTime`); a message is sent with an id that does not wait, hence
  released before (`SentInTime`);
* `DeliveredOnce`: so the broker takes no message for a repetition, and those it has
  delivered and those under way are all that were sent;
* `MainInv`: `try_to_connect` finds no socket open at its next attempt, as
  `mqtt_abort` or MQTT_EVT_DISCONNECT has closed it; google has one attempt, and so
  one socket to lose, for each retry it counts down.

**zperf, the UDP test** (`ZperfUdpAssumption`: at least one row and one datagram,
bounds that are naturals, the zeroed address not a host's), for any number of
hosts, rows, uploads and datagrams in flight. For the loss, `CountsRight` adds that
the ids counted lie below the next one expected: a smaller id then takes one from
the missing ones, a greater one adds the gap, and nothing else changes them
(`CountedRight`). Which row serves whom is of no account for it, but is all that
matters for the reports. `ReportInv` adds

* `OneRowEach`: no two rows are of one source, since `get_session` takes a free row
  only after it has found none of the source (`SessionOf`);
* `Waits`: an upload sends one closing datagram, so that either this or the one
  report it brings is in flight, and the upload waits for it. Only a time-out
  breaks this; until then a packet finds the frame of `zperf_upload_fin` alive;
* `InSession`: a row serves a source exactly from the first datagram taken of its
  run to the closing one. Statistics left over from another source or run are
  thus replaced before they can be sent;
* `Tally`: each datagram is counted at most once and the first is not, so that a
  report is below what was sent (`FewerCounted`).

**zperf, rows and contexts** (`ResourcesComeBack`), for any number of connections,
rows and contexts of the pool:

* `RowInv`: `get_tcp_session` takes a row that has this connection, or a free one;
  whoever closes a connection without freeing its row, or moves it to another row,
  has the row blamed (`LeftBehind`), so no other is stuck;
* `ContextInv`: every context in use has one owner (`HoldsWhatItGot`, `Owned`), a
  listening socket, a running upload or a connection accepted. A command that
  fails half way gives back what it took, or the leak is counted;
* `AddressInv`: until `zperf_init` is through the shell waits at its prompt, and
  the IPv4 table is empty or holds the board's own address.

### What is only model-checked

* All liveness (`EveryoneEats`, `SuccessUnlessOops`, `PassEnds`, `ComesToRest`,
  `BothComeOut`, `EverybodyServed`, `ListenersKnow`, `WorkGetsDone`,
  `RequestsServed`, parts of `ReportedOnceAndWhole`): beyond the installed provers.
* Counts over sequences that a filter defines (`NothingForgotten` in
  `NothingGarbled`), which need induction over data.
* The safety invariants of the other modules, whose proofs are planned.

## Plan

In order: proofs of `EverySlotOnce` in `MetaIrq`, and of `NodesKeepState`
(`NothingLost`, the badge and the switches apart). Then, in the models: the
controller-to-host direction of `hci_uart` and `hci_rpmsg`, IPv6 beside IPv4 in
`Sockets`, and `dumb_http_server_mt`.
