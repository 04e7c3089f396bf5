# A TLA+ model of the PAwR advertiser and scanner

The repository holds two Zephyr images that talk over Bluetooth *Periodic
Advertising with Responses* (PAwR). The **advertiser** sends periodic events; each
event has subevents, and each subevent has response slots. A **scanner** finds the
advertiser by its extended advertisement, synchronises to the subevent of one of
the register slots offered there, answers in that slot until its id is acked, and
from then on owns the slot: it sends generated data there and waits for the ack.
Messages carry a MAC and a counter; a message whose counter is behind the
receiver's is rejected.

This directory models the control of both images, checks it with TLC on small
instances, and proves safety properties with TLAPS for all values of the constants.

## Inventory

| part | state | operations | meets others through |
|---|---|---|---|
| advertiser FSM, `advertiser/src/advertiser_fsm.c` | FSM state, `rsp_slots`, `register_subevent_data`, `last_used`, `counter`, `rollover` | `init`, `advertising`, `soft_reboot`, `fault_handling`; `request_cb`, `response_cb`, `button_cb` | the RX thread shares the counter with the main thread's commit; the extended advertisement and subevent data go to scanners |
| free list, `advertiser/src/free_list.c` | array and size | `free_list_append`, `free_list_pop` | called by `request_cb`, `response_cb`, `reserve_slot` |
| secure counter, `lib/crypto/crypto.c` | a persistent PSA key | `crypto_secure_counter_init`, `crypto_secure_counter_commit` | both images load it, the advertiser and the flasher commit it |
| verification, `lib/transfer/transfer.c` | none | `verify_message`, `sign_message`, (de)serializers | moves the receiver's counter forward |
| scanner FSM, `scanner/src/scanner_fsm.c` | FSM state, `fault_reason`, two semaphores, `sync_callbacks.recv`, `default_sync`, `unconfirmed_ticks` | `init`, `syncing`, `confirming`, `sleeping`, `enabled`, `handle_fault`; `scan_recv_cb`, `sync_cb`, `term_cb`, `confirm_recv_cb`, `ack_recv_cb`, `data_generated_cb` | RX thread and timer interrupt raise events for the main thread |
| data generator, `lib/data_generator` | a timer | `data_generator_init`, `data_generator_stop`, expiry | calls `data_generated_cb` from an interrupt |
| button and LED, `lib/interactive` | none | pin set-up | calls `button_cb` |
| crypto flasher, `crypto_flasher/src/main.c` | PSA storage of a device | `main`, `recreate_key` | leaves the keys and counter 0 both images start from |
| key manager, `scripts/key_mgr.py` | `keys.json` | `--generate`, `--cmake-dump` | dumps the table the flasher is built with |

What is hard here: the main thread, the RX thread and interrupts interleave without
locks on most of the state; the counter is raised by three code paths at once, and
a response is only accepted if it arrives before the next request; slots move
between the table, the register list and the free list in two callbacks; a single
event cell and a binary semaphore carry all events of the scanner; the counter
crosses reboots through a destroy and an import; between the images messages are
lost or late and either side is reset; keys reach devices through a table that is
built anew for each. `PROJECT.json` lists each hazard at its line.

What makes the parts correct:

* advertiser: an ack is given to the device that was heard, a slot is neither lost nor
  handed out twice, a silent device loses its slot in time, published counters grow,
  the advertisement is current, a button reboot keeps the count;
* scanner: it is woken when its sync is gone, it holds the sync it registered with,
  data is generated only while registered, a registration ends;
* both together: genuine messages of either side are accepted by the other, after
  losses and resets as well, and an ack means that the slot is owned;
* messages: what is taken out of a buffer is what was put in, no length is trusted
  unchecked, buffers are large enough;
* keys: devices flashed from one table can authenticate each other.

## Modules

**`FreeList`**, **`Transfer`**, **`SecureCounter`** are operators on values: the
bounded stack, `verify_message` with its effect on the counter, and what loading and
the two halves of a commit do to the stored key. `SecureCounter` keeps the width of
the import: a commit stores the counter modulo `U32`.

**`Advertiser`** has one action per step of a thread that another thread can see.

* Main thread: `InitCounter`, `InitPeriodicAdv`, `InitExtendedAdv` are the pieces of
  `init`, with `InitCryptoFails`, `InitCounterFails`, `InitBluetoothFails` for its
  error returns; `advertising`; `CommitDestroy`, `CommitImport`, `SysReboot` for
  `soft_reboot` and `fault_handling`, which differ only in what they promise.
* `request_cb` blocks in HCI commands, so it is a loop of four actions, `RequestCb`,
  `RequestSubevent`, `RequestSlot` (one pass of the inner loop) and `RequestPublish`;
  `rx`, `todo`, `subevent` and `j` are its program counter. Callbacks run one at a
  time in one thread, so `response_cb` needs `rx = "idle"`.
* `response_cb` is three actions: `ResponseRejected`, `ResponseRegisters`,
  `ResponseInOwnedSlot`. `Responds` is the environment: any device may answer in any
  response slot of any subevent, all of which `request_cb` opens, with any counter
  published in that subevent since boot. So late, repeated and misplaced responses are
  all included. `Env` may exclude responses in slots that were not handed out (without
  `"stray"`) and responses to anything but the last indication (without `"late"`), for
  counterexamples that do not depend on them.
* The controller is assumed to ask for subevents in sequence (`InSequence`): each request
  starts where the last one ended. The code takes any `request->start` (line 126), but an
  event whose subevent 0 is never asked for would be sent with the counter of the one
  before, and scanners would reject it. `FreshCounter` and the proofs rest on this.
* `published`, `heard`, `leaked`, `strayed`, `promised` are history variables. Only
  `published` is read by actions, as what scanners can know. `strayed` is set when a
  response frees a slot or registers in one that is not among the register slots.

**`Scanner`** has a program counter `pc` inside the state `curr_state`. A state function is
cut where another thread can change what it uses next: between the test, the delete and the
reset of `default_sync`, before a wait, between a `k_sem_take` and the read of
`fault_reason`, between that read and `k_sem_init`, and before the generator is stopped.
Callbacks run to their end in one action. The host is `scan`, `sync`, `subevent` (whether
the sync listens to the slot's subevent), `delivery` and `response`; it is modelled from how
the code uses it, with room for one sync, and registering the same callbacks again changes
nothing. Deleting a sync may fail or come too late for one that is just being established
(`delete_error`, `late_cancel`): `default_sync` is then NULL while the host keeps the sync.
`unconfirmed_ticks` goes on past its limit while the main thread does not run, and wraps.

**`SlotService`** is the abstract specification of what a scanner may rely on: who owns
a slot, who was heard in it since the last event, which counters a subevent has
carried. An owner that was heard keeps its slot over the event, a slot with an owner
goes to nobody else, counters of a subevent grow. `Advertiser!ServiceSpec` instantiates
it with the owners read from `rsp_slots` and the histories `heard` and `published`.
Run `slots` checks that the advertiser implements it, `ImplementsService` proves it.

**`PawrSystem`** composes `Advertiser` with one `Scanner` (`S == INSTANCE Scanner`, its
variables prefixed `s_`), so that the messages of one are the inputs of the other. It
adds what `Scanner` leaves out: the scanner's counter, the slot it picked and
`set_rsp_data`. `downlink` and `uplink` are queues that may lose their head. The responses
of all devices share `uplink`: response slots of one event lie before the next event, and
the host reports them in order. Another device answers in any slot the data at the head of
`downlink` or the data that was answered last. The `slack` of a message is how many wraps
`request_cb` may still add to the counter before a response to it is behind: one for data
filled in the event that is being counted, one less with every wrap that is added. Below
zero a message is late, by at most `MaxLate`. `train` ties a sync to one boot of the
advertiser; `epoch` (which boot of the advertiser the scanner started under) and `others`
(how often other devices answered) are history.
The button and errors of the advertiser's `init` are left to the component models, and so
are syncs that the scanner loses track of (`scan_stop_error`, `delete_error`,
`late_cancel`). With such a sync an advertisement would still overwrite `selected_slot` and
the counter while the sync goes on (`scanner_fsm.c:390`); `Scanner` has no slot to overwrite.

**`Wire`** follows one message as bytes: serializer and `sign_message`, the air, and the
receiver's calls in the order its callback makes them; `response_cb` parses the sender's
id before it verifies anything. A buffer is bytes and a length, and removing lowers the
length. Numbers are little endian with `U8` values per byte (`add_le16`, `remove_le16` and
so on); repeated fields are laid out by position (`Laid`), not by recursion. `IsMessage`
gives the fields the ranges of their C types.

**`KeyProvisioning`** is `key_mgr.py` and the flasher: keys are generated in `keys.json`,
a device is flashed with the table dumped at that moment, and `main` destroys and imports
one PSA key after the other, the counter first. Ids are compared as digit strings. A key
that is generated without `--dev-id` is stored too, under `None`, behind all others.

The modules take a set `Env` (`ScannerEnv`, `Loss`, `Faults`) of disturbances; it says
which errors, presses and losses an instance includes. The `MC` modules hold the
instances' sets. Definitions marked as mutants are bugs the code does not have, each the
size of a small slip; putting one in place of the definition after it makes a property
fail.

## Runs

| run | checks | instance |
|---|---|---|
| `slots` | `TypeOK`, `InactiveBounded`, `OneHome`, `NoSlotLost`, `FrontierBounded`, `FreshCounter`, `AckExact`, `ServiceSpec` | 2 devices (symmetric), 1 subevent of 3 slots, 1 register slot, free list of 1, timeout after 3 events, counters to 6, bad MACs, stray and late responses |
| `boot` | `ButtonKeepsCount`, `AdvertCurrent`, `FreshCounter` | 1 device, 2 subevents, requests for one or both, button, reset, failing calls, subevent data and advertising data, 2 reboots, counters to 2 |
| `scanner` | `TypeOK`, `GeneratorOnlyRegistered`, `ConfirmingWakes`, `SyncHeld`, `ConfirmingEnds` | every disturbance, limit 2, ticks modulo 4, with fairness |
| `system` | `AssumptionsMet`, `IndicationsAccepted`, `ResponsesAccepted`, `AckMeansOwned` | advertiser, one scanner and one response of another device; losses in both directions, resets of both, counters to 4 |
| `keys` | `SameTableAgrees` | ids 0 to 2 and no id, three keys, regeneration, power loss and PSA errors anywhere |
| `wire` | `RoundTrip`, `NoUnderflow`, `TrainBuffersHold` | messages of real length, whole, cut anywhere, or with one byte changed |
| `discovery` | violates `DiscoveryOpen` | as `slots`, without disturbances, counters to 8 |
| `reserved` | violates `ReservedForDiscovery` | as `discovery` |
| `lost_sync` | violates `LostSyncRescans` | syncs that are lost, with fairness |
| `reregister` | violates `TriesToRegisterAgain` | no disturbance, an advertiser in range, with fairness |
| `key_order` | violates `ProcedureSuffices` | ids 0 to 3, keys generated and devices flashed as the README says, no faults |
| `adv_buffer` | violates `BuffersHold` | advertisements of the default five register slots |

Bounds. Three response slots are the fewest that leave one to hand out after the
unused prefix and the register slot; with them the frontier passes the last subevent
after one more registration, so the exhausted table is reached. `AnsweredIn` bounds the
slots that responses come in: in `slots` the register slot and the next one, which is
answered both before it is handed out and after; in `boot` the register slot; in `system`
all. A free list of one overflows at the second release. `U8 = 5` is the smallest width
that satisfies the assumption `3 * EVENTS_PER_BLOCK + 1 < U8` that the real sizes meet, so
a missing reset would wrap. Counters to 6 let a device register, be silent for the timeout
and come back. `FreshCounter` is checked twice: `slots` has the long histories and
rejected responses, `boot` the two subevents, partial requests, lost subevent data and
reboots. Counters to 4 let a scanner register, send data and get its ack, before or
after a reset and another device's response.
`MaxCounter` stops new events; what is under way is finished, and in `system` behaviours
end there, which is why that run does not check for deadlock. Two reboots let a reset hit
the middle of the commit of the first. With `MaxLate = 0` a message may still pass one
`request_cb`, the case in which the counter moves on to it. `MaxOthers` bounds the responses
of other devices. `ResponsesAccepted` and `AckMeansOwned` speak of behaviours without any,
the other two properties of `system` of all. In `scanner` ticks wrap at 4, twice the limit:
past the limit and the wrap itself are both reached while an event waits to be read.

In `keys` ids are written in base 2, so that id 2 has two digits like 10 in the real
base; `MaxKeys` ends generation. In `key_order` the base is 3: ids 0 to 3 are written
0, 1, 2, 10. In `wire` all lengths are the real ones, with 4-byte pointers as on the
nRF54L15; a byte has 16 values because 8-byte counters of 256 values are beyond TLC's
integers. A length of 15 still fits in a byte. A behaviour is one message, so that run
and `adv_buffer` do not check for deadlock either.

Fairness. `Scanner!Fairness` is weak fairness of the main thread (the scheduler runs a
ready thread), of the timer, and of what the controller does with a sync: a pending one is
established or given up, and one that listens to a subevent reports indications. It says
nothing about their contents: they may stay unacked or fail to verify for ever. It does not
say that an advertisement verifies either, because after a reset of the advertiser none
does: `syncing()` may then wait for ever, as it may with a sync it lost track of. No
property denies that; `hazards` lists both. `ConfirmingEnds` needs no advertisement: the
tick limit, a hash that fails or the loss of the sync ends `confirming()`. The one
exception is part of the property: `bt_le_per_adv_sync_subevent` failed, which `sync_cb`
only logs. `reregister` alone adds weak fairness of `scan_recv_cb` (`InRangeSpec`), because
the statement it refutes is about a scanner near its advertiser.

## What the runs show

The passing runs found their properties to hold. Some have limits worth knowing:

* `OneHome` holds as long as every slot that was taken or freed went through
  `reserve_slot` or the timeout. A rejected response frees its slot whatever slot that is,
  so it may be free twice, or free and owned; a device that answers in a slot outside the
  register list is registered there, so it may be free and owned (run `reserved`). The
  theorem says that nothing else does it. `NoSlotLost` and the other properties of `slots`
  hold after such responses too; `leaked` names the slots a full list drops.
* `ButtonKeepsCount` speaks of counters that fit in the four bytes a commit stores. After
  a power loss between destroy and import the counter is drawn at random, a draw may be
  sign-extended to 64 bits, and the next button reboot keeps 32 of them.
* `SyncHeld` speaks of a scanner past `syncing()`. One whose delete failed or came too late
  keeps a sync it does not know of, cannot create another, and stays in `syncing()`.
* `ResponsesAccepted` needs the absence of other devices. Of two responses to the same event,
  the one reported before the next `request_cb` raises the counter to the published value,
  `request_cb` adds the pending wrap to that, and the one reported after it is behind, although
  it would have been accepted alone. It is rejected and its slot freed.

`system` shows that the recovery in the README's "Other notes" works: a scanner that is
reset after the advertiser accepts its data again. It also shows that `Scanner` and
`Advertiser` assume no more of each other than they provide (`AssumptionsMet`).

Six statements of the documentation and the source are not kept by the code:

* `discovery`: register slots are kept for new devices (`advertiser/Kconfig`). When the
  free list is empty at a registration, the entry moves past the last subevent. No scanner
  can answer there, so it is never replaced, although slots become free afterwards.
  The same help text says that register slots go "from subevent[0] rsp_slot[0] upwards";
  `last_used` starts at `CONFIG_NUM_REGISTER_SLOTS`, so they begin at that slot and the
  first `CONFIG_NUM_REGISTER_SLOTS` slots are never offered (`Reserved`).
* `reserved`: register slots are "reserved for new device discovery" (`advertiser/Kconfig`).
  A device that was silent until its slot timed out and then answers gets the slot back,
  while it is still on the free list; the next registration offers it to new devices,
  which are never acked there. In the real sizes this takes nine silent events: a scanner
  sends once in a block of four events, repeats an unacked response up to three times, and
  keeps its sync through five missed events, so it needs lost messages but no reset.
* `lost_sync`: a lost sync should be handled by the current state and lead to scanning;
  the event is overwritten by `DATA_GENERATED` or cleared by `sleeping()`, and the
  scanner goes on without a sync. The behaviour passes `bt_le_per_adv_sync_recv_enable(NULL)`
  as a call without effect; where the host faults on it, the board reboots instead.
* `reregister`: after `MAX_UNCONFIRMED_TICKS` the scanner should register again;
  deleting the old sync leaves an event that ends each following `confirming()` before
  it sends anything. No failure is needed for this, only an unacked registration.
* `key_order`: the README asks for a key before its scanner is flashed and for all keys
  before the advertiser is. That does not suffice: the table is sorted by ids as strings
  and indexed by number, so generating id 10 moves the keys of 2 to 9.
* `adv_buffer`: `adv_data` is reserved for the signed advertisement, but its size counts a
  pointer in place of the register entries. On a 32-bit target three register slots fit;
  the default of five (`advertiser/Kconfig`) needs 51 bytes where 48 are reserved. `net_buf`
  asserts, or memory behind the buffer is overwritten.

## Proofs

Eight modules hold the theorems, for all constants that satisfy the assumptions in the
modelled components: sizes are positive, twice the register slots fit in one subevent,
`uint8_t` holds the timeout and the number of subevents, the fields of a message are in
the ranges of their C types. Every safety property of a passing run is stated by a
theorem, and so is the refinement of `SlotService`.

**`ScannerProofs`.** `TypeCorrect`, `GeneratorScope` and `ConfirmingIsWoken` come from
`IInv`. `ConfirmingWakes` is not inductive: the sync may be lost long before the wait
begins. `WakeInv` says that from the announcement of a sync on, until `confirming()` takes
an event, a missing sync has left one; `ScanInv` says that announcements only happen while
`syncing()` waits. `SyncIsHeld` comes from `ForgottenInv`: where `default_sync` does not
refer to the host's sync, nothing was announced, and nothing will be while that sync is
there. `ResetIsSafe` adds a reset at any moment.

**`AdvertiserProofs`.** `TypeCorrect`; `SilenceBounded` and `AcksAreExact` from
`SilenceInv`, which relates `inactive_for` to what was heard: it is at most the limit, and
0 exactly when the owner was heard since the subevent's last event. The ack for
`inactive_for = 1` after the increment is then exact, and the limit excludes a wrap.
`CounterIsFresh` from `FreshInv`: `counter + rollover` bounds every published counter,
strictly in the subevents not yet filled in this event. Responses can only raise it
(`FreshInvFrame`); `BootInv` says that nothing was published before the counter is loaded.

**`SlotProofs`.** `SlotsHaveOneHome`, `SlotsAreKept` and `FrontierStops` are proved
together as `SlotsInv`, because `reserve_slot` preserves none of them alone: a slot at the
frontier is new to every list only because nothing beyond it was handed out. What stops
the unchecked increment of `last_used.subevent` is a counting argument: a register entry
past the last subevent is never answered and so never replaced, the entries there are
distinct, and there are only `NUM_REGISTER_SLOTS` of them; they fit in one subevent. This
holds for stray responses too, which bring back only slots of existing subevents (`InTrain`).
`ImplementsService`: every step of the advertiser is a step of `SlotService` or leaves
`owners`, `heard` and `published` alone. The step of `request_cb` over a slot needs
`SilenceInv` (a slot that times out was not heard), the publishing step `FreshInv`.

**`CounterProofs`.** `AdvertIsCurrent` from `AdvertInv` and `RollInv`: at most one wrap
waits to be added, so the advertised counter is at most one behind.
`ButtonRebootKeepsCount` from `KeepInv`, under the condition `[]CounterFits` that the
counter fits in the four bytes a commit stores; the sign-extended random draws described
above break it. `ButtonAloneKeepsCount` discharges the condition where no counter is drawn:
a device whose calls do not fail and which is rebooted by Button 0 only finds its key at
every boot (`FitsInv`), so within `U32` events the counter fits.

**`KeyProvisioningProofs`.** `TablesAgree` from `BenchInv` and `DoneInv`: the first `n`
imports of `main` are in the device's storage, where import 2 replaces import 1 and all
others have an id of their own; this needs `COUNTER_ID` to be no device's id, as it is.

**`WireProofs`.** `MessagesRoundTrip`, `ReceiversStayInside`, `TrainMessagesFit` and
`SmallListsFit` from `WireInv`. `BufferInv` keeps the bytes received and the length in use
apart; `ParsedInv` says that what `response_cb` parsed before it verified anything is right
*if* the bytes are the sender's. `MacMeansWire` supplies the missing half when the MAC is
accepted. Under it lie the lemmas about bytes (`Le16`, `Le32`, `Le64`: what is removed is
what was added), about places in a concatenation (`Part...`, `TakenPart`), about the three
layouts (`AdvertisementBody`, `SubeventBody`, `ResponseBody`, `Frames`), and about what each
deserializer takes from any bytes (`...Holds`) and from the right ones (`...Parsed`). The
last two have the hypothesis `LengthsFit`: 103 acks and `UNUSED_DATA_LEN` bytes of data fit
in 251 bytes. `SmallListsFit` says when `BuffersHold` is true: with fewer register slots
than a pointer has bytes.

**`PawrSystemProofs`.** `SystemRunsAdvertiser` is the composition: with a scanner and a
radio around it, the advertiser takes only steps of its own model (`SysSpec => Spec`), so
all its theorems hold of the system. `SystemRunsScanner` is the other half: the scanner
takes only steps of its model, and resets. Instantiating `ResetIsSafe` then gives
`ScannerIsSafe`. Both speak of the steps that are taken; that the models exclude no response
and no ack that can really happen is `ComponentsFit`. It and `ScannersAccept` come from
`SysInv`: everything under way was published since boot (`UnderWayInv`), the scanner's id
gets into the advertiser only by a response (`SentInv`), the data of a subevent is under way
in the order of its counters (`OrderInv`), and a scanner of this boot has counted at most
one further than its subevent was sent (`CountInv`).

**`PawrResponseProofs`.** `SystemServes` carries `ImplementsService` over to the system.
`ResponsesVerified` needs `LineInv`: data is under way in the order of its counters and, within
an event, of its subevents (`DownOrderInv`); responses are in that order too, one in an event
(`UpOrderInv`); what a synced scanner will hear is of a later event than the responses under
way (`EventInv`); and the counter has passed no message that still has slack (`WindowInv`).
`AcksAreOwned` adds `HeldInv`: a slot acked in a message under way is the scanner's and was
silent in no more events than began since the message was filled. It assumes that nothing is
late (`MaxLate = 0`) and that no MAC fails, for any number of subevents and of requests that
overlap a message: a late or rejected response in its slot costs the device the slot.

What the proofs changed. `ResponsesAccepted` and `IndicationsAccepted` were first stated
for any number of subevents with a window of one request. The proof of `WindowInv` fails
with two, and TLC then gave the counterexample: the counter moves when subevent 0 of the
next event is filled, while a response to a later subevent is still under way. So what is in
time is counted in wraps of the counter (`slack`), not in requests, and a scanner accepts all
data of the subevent it listens to, not of any.

Only model-checked: `ConfirmingEnds`, and the violated leads-to properties, because liveness
under fairness and `ENABLED` are beyond this prover; and the six violations, which are
counterexamples. Nothing proved needs induction over data: buffers are described by the
places of their bytes, and no proof module reaches a recursive operator.

## Not modelled

* `registering()` and `register_recv_cb`: no state function returns `REGISTERING`.
  Register data inside a subevent, and `subevent_data_serialize` and its counterpart: never
  used.
* The MAC itself: it matches the signed bytes under the signer's key and nothing else.
* Contents of payloads, and so which data an ack is for. The generator fills no byte: it
  asks for as many as its empty buffer holds (`data_generator.c:20`).
* Several scanners with their own state machines: other devices are responses only.
* A controller that skips subevents or asks for one twice (`InSequence`).
* Ids in `keys.json` that are not numbers, apart from a missing one.
* The button in `PawrSystem`: `ButtonKeepsCount` says what it keeps.
* `--export-key` and the look-up of manufacturer ids, which only print.
* GPIO set-up, logging, RSSI, the template's drivers and test, boards, CI.

## Plan

Done in this order: `FreeList`, `Transfer`, `SecureCounter`, `Advertiser`, `Scanner`,
`SlotService`, `PawrSystem`, `KeyProvisioning`, `Wire`, and the proofs of all their safety
properties. Left: a scanner of the system that loses track of a sync and has its
`selected_slot` overwritten, and two scanners with their own state machines.
