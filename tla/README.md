# TLA+ model of the tfm-node firmware

The firmware runs on an ESP32 with one core. It gets Wi-Fi credentials and a
ThingsBoard token from a provisioning client, connects to ThingsBoard over
MQTT, fetches its context (what to show on an NFC tag and to advertise over
BLE), and then keeps tag and advertisement up to date. A button held for five
seconds takes it back to its factory state.

This directory holds modules that model the firmware, the TLC configurations
that check them on small instances, and TLAPS proofs of the safety properties
for all values of the constants. Paths below are relative to the repository.

## Running

    tlc -config MCCMqtt.cfg CMqtt            # the MQTT wrapper alone
    tlc -config MCNode.cfg MCNode            # the whole start-up, all faults
    tlc -config MCNodeLive.cfg MCNode        # liveness
    tlc -config MCTag.cfg TagHandler         # the NFC tag and its password
    tlc -config MCButton.cfg ResetButton     # the button and the factory reset
    tlc -config MCNvs.cfg CNvs               # several tasks on one NVS handle
    tlc -config MCDriver.cfg M24SRDriver     # the commands of the tag's driver
    tlc -config MCServices.cfg NodeServices  # Bluetooth, attributes, updates

    tlc -config MCBroker.cfg MCNode          # expected violations, see Findings
    tlc -config MCTable.cfg MCNode
    tlc -config MCTagSession.cfg TagHandler
    tlc -config MCNvsRead.cfg CNvs

    for m in CMqtt Node TagHandler ResetButton CNvs NdefMessage M24SRDriver NodeServices
    do tlapm ${m}Proofs.tla; done

## Inventory

Tasks: `main` (ends after `setup`), `sys_evt` (the default event loop, priority
20, runs every handler the firmware registers), the `mqtt` task of esp-mqtt
(priority 5), the `esp_timer` task (the button), the HTTP server of
provisioning, the Bluetooth host task, `throughput_server_task` of c_ble, and a
task for each OTA download. They talk through the default event loop (32
entries, every post of the firmware with timeout 0 and its result ignored),
through statics without locks (`MQTT_STATUS`, `subscriptions`, `status` of the
tag handler, the NVS handle) and through NVS.

| Component | State | Operations | Hard behaviour | What makes it correct |
|---|---|---|---|---|
| `components/c_mqtt` | `MQTT_STATUS`, `mqtt_config`, client, `subscriptions[10]` | setters, start, stop, subscribe, publish; callbacks of the mqtt task | two tasks share status and table without a lock; packet identifiers are random; events may be lost | the status does not outlive the session; the running configuration is the stored one; what is reported as subscribed was acknowledged; the table suffices |
| `main/src/context.c`, `init.c`, `provisioning_handler.c` | `NODE_STATE` | one handler per event, three handlers per context event | states reached in the order events happen to be taken | a state is entered only for a reason of this boot, and with what it needs in flash |
| `handler/thingdboard/*` | `mqtt_status`; keys `tb_token`, `tb_broker_url`, `nfc_content`, `ble_content` | start the client, subscribe, request and store attributes, take attribute updates by their first key | either order of Wi-Fi and token, one request and no retry, two writes that belong together; content takes two ways to the tag | no client without a token; a provisioned node gets to REGULAR; the tag ends up with the server's content |
| `components/c_provisioning` | Wi-Fi credentials, the manager | custom data, GOT_IP, disconnected | answers SUCCESS although the event may be lost | what is stored is consistent |
| `components/c_nvs` | one handle, flash | read, write, delete, erase | several tasks share the handle; erase while others write | a read returns what was last written or an error |
| `button/factory_reset.c` with `espressif__button` | `start_time`, the button's state machine | nine callbacks, erase and restart | presses, repeats and releases at any moment | a reset only after a press of five seconds; if the erase works, nothing of the old life comes back |
| `handler/M24SR64`, `handler/general` | `status`, `fmode`; the tag's password, flash key `writepwd` | open a session, verify, write, change the password | every command may fail; tag and flash change one after the other | the password in flash is the tag's |
| `components/c_M24SR` | I2C, I-block number, the frame buffer, the caller's answer buffer | one command at a time, waiting-time extensions, NDEF encoding | lengths in 8 bits, lost frames, answers read into buffers that are examined anyway | of an answer that is looked at and came whole, success is only reported of what the tag did; what is written can be read |
| `components/c_ble` | `can_send_notify`, `is_connect`, `conn_id`, `gatts_semaphore` | start-up in asynchronous steps, callbacks of the Bluetooth task, the sending task | congestion, connect and disconnect against a sender without a lock; a second start; callbacks that read the flash while others use it | the sender is woken, and sends only what has an address; semaphore and document are there for those who use them, unless something named took them away |
| `handler/general/ota_handler.c` | a buffer and a task | start a task for the address of an update | the buffer is freed before the task reads it | the rest of the node goes on |
| `components/c_wifi` | event group bits | connect and wait | waits for bits nobody sets | not called by `app_main` in this version |

Vendored, generated or tooling code (`managed_components`, `sdkconfig`,
`provisioning_ui.py`, ADC and matrix buttons) is not modelled.

## Plan

The modules, in the order they were written, each the most important behaviour
that was left.

| Order | Module | Composes | Abstract specification |
|---|---|---|---|
| 1 | `EventLoop`, `CMqtt` | | |
| 2 | `Node` | `CMqtt`, `EventLoop` | `NodeLifecycle` |
| 3 | `TagHandler` | `M24SRTag`, tag session and NVS key | |
| 4 | `ResetButton` | the button's timer, the reset callback | |
| 5 | `CNvs` | tasks on one handle | |
| 6 | `NdefMessage` | pure functions, with a reader as their reference | |
| 7 | `M24SRDriver` | `NdefMessage`, `M24SRTag`, the bus | `TagCommand` |
| 8 | `CBle` | the Bluetooth stack and the sending task | |
| 9 | `Downlink` | `EventLoop`, the attributes, the flash | |
| 10 | `NodeServices` | `CBle`, `Downlink`, the handlers of `sys_evt` | |

The proofs of a module are in the module of its name with `Proofs` added. They
build on each other as the modules do: `NodeProofs` cites the lemmas of
`CMqttProofs`, `M24SRDriverProofs` those of `NdefMessageProofs`;
`NodeServicesProofs` has two parts, what comes from `CBle` and what comes from
`Downlink`.

## The modules and the code

`EventLoop` is the queue of the default event loop: `Post` appends if there is
room and loses the event if not, as `esp_event_post` with timeout 0 does when
its result is ignored. `Event(ev, arg)` names the event after the base and
identifier it is posted with.

`CMqtt` (`components/c_mqtt/c_mqtt.c`). `MQTT_STATUS`, `mqtt_config`,
`mqtt_client` and `subscriptions` are the statics of that name. Each setter and
`mqtt_start_client` is an operator from configuration to configuration, so that
`Node` can use the sequence `_start_client` makes of them in one step, and
`App...` makes an action of each. `mqtt_subscribe_to_topic` is three actions
(`SubscribeCheck`, `SubscribeSend`, `SubscribeRecord`): the mqtt task may run
between them. Each case of `mqtt_event_handler` is an action; the search of the
table on a SUBACK is one action for each row, because the table may grow
meanwhile. esp-mqtt is what remains: `session`, `connects`, `outbox`.

`Node` extends `CMqtt` with the handlers `sys_evt` runs (`context.c`, `init.c`,
`provisioning_handler.c`, `c_provisioning.c`, `mqtt_handler.c`), one action for
each event taken from the queue with all the handlers registered for it, in the
order of registration; only the handler of CONNECTED is split, because it
subscribes. Around them run the Wi-Fi driver, the provisioning server, the mqtt
task, the Bluetooth task's `ESP_GATTS_REG_EVT`, the button and the power
switch. `Boot` initialises everything that is not flash. `reset` is history:
whether the last erase was whole ("clean", until custom data is given again) or
failed ("torn"). `NodeLifecycle` is the abstract specification: on what
grounds NODE_STATE moves. That is less than `main/include/context.h` says. The
header has REGULAR mean "Has WiFi connection, access token and context" (line
38) and names states for a lost connection and for invalid data (lines 42-50);
the code enters none of those, stays REGULAR without a connection, and becomes
REGULAR on an answer whose attributes may not have been stored. What it does keep
is that every change of state is for an address, a session or an answer of this
boot, used once, with the credentials and the token in flash.

`M24SRTag` is the tag itself: what each command makes of its session, its file
selection, its password and its content. `TagHandler` and `M24SRDriver` use it.

`TagHandler` (`m24sr_handler.c`, `general_handler.c`, over `c_M24SR.c`). `op` is
the operation in progress and the next command it sends; `FirstStep` is the
switch over `status` by which the handler skips what it believes done. Every
command is `Issue`d: it works, or it or its answer is lost or damaged, and then
any report may follow, as no checksum is looked at. `Reports` is what the driver
says of a command that worked. A password is
an *image*, the 16 bytes that are sent: of a shorter string, what follows it in
memory belongs to it. `mishaps` is history and only used in properties.

`ResetButton` (`iot_button.c`, `factory_reset.c`). One action for each state of
`button_handler`, preceded by the debouncing and counting every tick does.
`count` is `btn->count[]`. `held` is history: how long the button has been
held, and whether it was at rest before.

`CNvs` (`c_nvs.c`). A call of a task is its steps in the NVS library: open, the
two halves of a read, set and commit, close. `handle` is `_nvs_handle`. `seen`
(what the key has held during the call), `alone` and `overlaps` are history.
`Node` and `TagHandler` take an access as one step that may fail. Their handlers
all run in `sys_evt`, so their accesses do not meet each other; what meets them
is the Bluetooth task's read of `ble_content`, for which `NodeServices` has the
beginning and the end of a read as two steps. An erase may fail in every module
that has one: `nvs_delete_all` closes the partition first, some keys or all may
be left, and the node restarts with them, because nobody looks at the result.

`NdefMessage` (`RecordHeader.c`, `Record.c`, `RecordText.c`, `EmptyRecord.c`,
`Message.c`). One operator for each function, over sequences of bytes, and
`ReadTexts`, which reads a file as the NDEF standard says and is the reference
for what they write.

`M24SRDriver` (`c_M24SR.c`, `cmdFactory.c`, `i2c_config.c`). A command is a call:
`Call` builds the frame, `WriteFrame` and `ReadAnswer` are the two halves of
`m24sr_execute_command`, `SendFWTExtension` and `ReadAgain` the answer to a
request for time, `Finish` the check each `c_M24SR_send...` function ends with.
`buffer` starts with what the stack held. The tag carries a command out, or the
frame is lost or damaged; of a session command a damaged frame counts as sent,
because only the acknowledgement of its bytes is seen. An answer may be `Misread`:
it comes as any other. `executed`, `accepted` and `faults` are history.
`TagCommand` is what a caller may expect of a command: success of what the tag
did, but for the commands whose answer is not looked at (`Unchecked`: the session
and the password requirement) and for an answer `garbled` on the bus. `TagHandler`
goes by it: there a command works, is refused, or goes wrong with or without
effect and with any report.

`CBle` (`c_ble.c`). `initAt` is the call of `_ble_init` that comes next; each is
an action, because the Bluetooth task runs as soon as the callbacks are
registered. Each callback is an action, except the one for the end of a
congestion, which is two: it sets the flag and then gives the semaphore.
The two callbacks that read `ble_content` begin (`ReadBegins`) and end
(`Registered`, `Responds`) as two actions; an access of another task in between
`Disturbs` the read, which then finds the document or does not.
`throughput_server_task` is the actions `Sender...`. The stack's link, its
buffers and its congestion are external.

`Downlink` (`mqtt_handler.c`, `method_parser.c`, `ble_handler.c`,
`ota_handler.c`). A content is the number of the change it comes from. `Server`
posts answers and updates; `OnAnswer`, `OnContentUpdate`, `OnOtherUpdate` and
`OnFirmware` are the branches of the handler that takes them. The task of an
update is not modelled: it takes one byte of freed memory for its address, and
either does nothing for ever or brings the node down. `doubt` is history: why
the tag may not have what the server has.

`NodeServices` puts the two together under `init_when_context_ready` (`init.c`):
`OnRegular` is its start, `BleInitGoesOn` the calls of `_ble_init`, `RegularEnds`
the content written to the tag, `Reconnects` the other accesses to the flash of
`sys_evt`. A panic of any task, wherever the code has one, is the `Restart` that
may come at any step. `provoked` is history of the boot: a document missing or
erased, memory run out.

`MCNode` holds definitions a `.cfg` cannot: the topics, and one constraint.

## What the runs show

| Run | States | What it checks |
|---|---|---|
| `cmqtt` | 1,077,756 | the API in any order against the mqtt task, `heap` faults, two connections, two rows, two identifiers, a queue of two |
| `node` | 2,002,508 | the faults `heap`, `flash` and `preempt`, a queue of three, one restart, one factory reset, which may fail half-way, one Wi-Fi flap, one provisioning document |
| `node_live` | 64,144 | the shipped queue of 32, no faults; liveness |
| `tag` | 1,012,503 | two passwords, one of them short, two residues, two contents; lost and damaged commands, failing erases and all other mishaps without bound |
| `button` | 2,230 | counters of 16 and a clock of 20 ticks, both of which run over |
| `nvs` | 5,563,756 | a writer and a reader, two keys, short, long and empty values, three handles, an erase that leaves any of the keys |
| `driver` | 1,056,014 | texts at each side of the lengths where something changes (237, 246, 253 bytes), two passwords, two tries; frames and answers lost or damaged |
| `services` | 11,513,388 | a queue of two, one packet for a connection, two connections, one change, two answers; restarts without bound |

The bounds. No run has packet identifiers collide (the fault `collision`): they are
random, and each run has one that is free for every packet and row it can have.
The theorems allow collisions, except where they name them. With a queue of two or three every handler that posts finds it full;
two connections are what a lost session and a row of an earlier one need. In `node` one
restart separates two boots, and `FactoryErase` leads to it. In `tag` nothing is
bounded but the sets: there one password longer than another is what separates
images from strings, and two contents are an old and a new one. In `button` the
times keep the order and the relations of `sdkconfig` (debounce < short < long,
serial <= tolerance), and `MaxHeld` lets the clock run over while the button is
held. In `nvs` three handles are one for each task and one leaked, after which
`nvs_open` fails.

In `driver` the lengths are the longest text that is written whole (237 bytes, a message of
246), the first that is cut, and those that make the message 255 bytes, the
record a long one and the length more than a byte; the driver tries 1000 times,
of which the model needs the first and the last of a round. In `services` a queue of two is full with one event behind the one being
handled, one packet is enough to be congested, the second connection can open
while the task still sends to the first, and of two answers and a change any
may be the last. Restarts are free there: a boot forgets what it counted, except
what the server sent.

The runs of `MCNode` do not look for deadlock: a node with nothing in its queue
and no more network events, restarts or documents (the bounds `MaxConnects`,
`MaxFlaps`, `MaxBoots`, `MaxProvs`) waits, as the firmware does. Nor does `services`:
when its changes, answers and connections are used up and the sending task
waits on the semaphore, nothing is left to happen but a factory reset. All other
runs do.

The properties, by what they protect:

* Events lost or overtaken: `NodeInv` and `ImplementsLifecycle` (no change of
  NODE_STATE but for a reason of this boot, each used once), `ReachesRegular`
  (without faults it gets there).
* Two tasks on one status: `ConnectedMeansSession`, `SubackFindsRow`,
  `NotificationIsEarned`, `RunningConfigIsCurrent`, `BrokerHasOneScheme`.
* A table that only grows: `RowsPerConnection`.
* Two writes that belong together: `AddressComesWithToken`, `PasswordsAgree`,
  `ProtectedTag`, `KnewThePassword`.
* Erasing under running tasks: `ResetForgets`, `EraseIsFinal`.
* No client without a token: `AuthenticatedClient`; a start when there is one:
  `StartsOnceProvisioned`.
* A session the handler believes in: `ContentArrives`.
* A reset that is wanted: `ResetIsMeant`, `HoldIsHonoured`, `ComesToRest`.
* One handle for all: `ResultsAreEarned`, `ReadDeliversAlone`,
  `LeaksOnlyByOverlap`.
* Success and what the tag did: `ImplementsTagCommand`, `ErrorsAreExplained`.
* Lengths of one byte: `FramesFit`, `MessagesDecode`, `ContentReadsBack`.
* Two tasks on a flag and a semaphore: `NoLostWakeup`, `SendsAreAddressed`.
* Two ways for one content: `TagHasLatestContent`.
* Steps in an order nobody tested: `CrashIsProvoked`, of the semaphore and of a
  document whose read nobody disturbs. It does not say that the node stays up.

What the last two runs take for granted: no phone connects before `_ble_init`,
which never waits, returns; the two seconds the sending task sleeps outlast it,
and its priority; the document stored for Bluetooth fits in the 99 characters it
is copied to; the content given to `TagHandler` fits in one message. A byte
written behind a buffer, as after a request for time whose length is not
initialised, is outside the model: the driver's call goes on as it would if
nothing else were hit. The two forms in which content is written, the whole
object or only its array, are one content.

## Fairness

`Node!FairSpec`: `sys_evt` and the mqtt task are tasks of a preemptive
scheduler that block only on their queues, so weak fairness of `SysEvt`. The
network is assumed to answer in the end: strong fairness of `WifiUp`, of
`NodeConnects`, of `NodeLink` (the broker's acknowledgements) and of the
server's answer, because a handler of the mqtt task that runs in between
disables them for a moment. Credentials arrive (`ProvCreds`) and the driver
starts. Nothing is assumed of the user's document, the button, restarts,
disconnections, or `BleRegisters`. `MaxConnects` and `MaxFlaps` make the network
stay up in the end; without that no liveness could hold.

`ResetButton!LiveSpec`: the timer is periodic (`esp_timer_start_periodic`, power
save off) and `esp_restart` restarts.

The other specifications state no fairness and have no liveness properties.

## Proofs

All theorems hold for every value of the constants that satisfies the named
assumption of the module; TLC evaluates those assumptions in every run.

| Module | Assumptions | Theorems | Inductive invariant |
|---|---|---|---|
| `CMqttProofs` | `MqttAssumption`, `QueueSizeAssumption` of `EventLoop` | `MqttTypeCorrect`, `ConfigIsCurrent`, `OneScheme`, `StatusIsHonest`; `SubackAlwaysFindsRow` where the mqtt task does not pre-empt a subscription; `NotificationsAreEarned` where identifiers do not repeat | `MqttInd`; `SentHaveRows`, `IdsAgree` |
| `NodeProofs` | and `NodeAssumption` | `TypeCorrect`, `NothingClaimedEarly`, `LifecycleImplemented`, `AlwaysAuthenticated`, `AddressNeverAlone`, `ResetIsFinal`, `RowsAreBounded`, `TableFitsAtFirst`; of the client inside the node `ClientIsSoundInNode`, `FailedStartIsFinal`, `SubackFindsRowInNode`, `NotificationsAreEarnedInNode` (under the conditions of their namesakes) | `NodeInv`, `FlashInv`, `RowsInd`; `MqttInd`, `SentHaveRows`, `IdsAgree` again |
| `TagHandlerProofs` | `TagAssumption` | `TagTypeCorrect`, `PasswordsStayTogether`, `PasswordIsAskedFor`, `OverwritesAreInformed`, `ContentAlwaysArrives` | `TagInd`; `SmoothContent`, `ErasedIsEmpty` |
| `ResetButtonProofs` | `ButtonAssumption` | `ButtonTypeCorrect`, `NoAccidentalReset`, `ResetOnDemand` | `ButtonInd` |
| `CNvsProofs` | none (`NvsAssumption` is not needed) | `NvsTypeCorrect`, `NoFalseResult`, `UndisturbedRead`, `ErasedForGood`, `NoLeakAlone` | `NvsInd` |
| `NdefMessageProofs` | none | `WrittenTextsAreRead`: the reader gives back the texts of any message of `Message.c` with at least one record and a length that fits the two bytes in front of it, whatever follows it in the file | none, these are functions |
| `M24SRDriverProofs` | `DriverAssumption` | `DriverImplementsTagCommand`, `ErrorsHaveAReason`, `DriverTypes`, `FramesAlwaysFit`, `MessagesAreReadBack`, `ContentIsReadBack` | `CommandsInd`, `ErrorsInd`, `DriverInd`, `ContentInd` |
| `NodeServicesProofs` | `BleAssumption` and those of `Downlink` and `EventLoop` | `NoWakeupIsLost`, `SendsAreAlwaysAddressed`, `CrashesAreProvoked`; `ServicesTypes`, `LatestContentReachesTag` | `BleInd`, `HandlerOK`, `CrashInd`; `DownInd`, `TagInd` |

Why the properties are not inductive by themselves:

* `ConnectedMeansSession` needs that without a client there is no session;
  `BrokerHasOneScheme` needs that the stored address has no scheme while the
  status is SETUP, which is when it is prepended to. Both are in `MqttInd`.
* NODE_STATE moves for a reason only because the event that announced it was
  posted for one, and that only because the handler or the link that posted it
  had it: `NodeInv` says it of all four, and that credentials and token were not
  taken from under them. The refinement of `NodeLifecycle` follows step by step,
  the reasons not yet used being the events counted by `Reasons`.
* `PasswordsAgree` speaks of the time between operations; `TagInd` adds what an
  operation under way knows (`Agreement`, `KnowsPassword`), and that the
  requirement was enabled before a password was changed (`RequiredFirst`).
* `ResetForgets` needs that after a whole erase no key comes back before the
  restart, although the handlers that write them go on, and after it that none of
  what would write one, or start a client without one, is under way.
* `ResetIsMeant` compares `start_time`, which another callback stored;
  `ButtonInd` says what each state of the button's machine knows of the press:
  until the first LONG_PRESS_HOLD no counter has run over, and from then on the
  clock alone decides.
* `ReadDeliversAlone` speaks of a call that is over; `NvsInd` says what each step
  of a call knows, alone or not.
* `SubackFindsRow` looks at the table when the acknowledgement comes;
  `SentHaveRows` says of every SUBSCRIBE on its way that its row is there or is
  being written. `NotificationIsEarned` speaks of events; `IdsAgree` says that
  whatever shares an identifier, a row, a packet or a search, is about one topic.
* `RowsPerConnection` is proved by counting: every CONNECTED still in the queue
  (`Untold`) keeps its rows for later, and a subscription under way has
  `RowsToCome`.
* `ContentArrives` compares the tag with what an operation began with;
  `SmoothContent` says that as long as nothing went wrong the session is always
  as far as the next command needs it.
* `ImplementsTagCommand` needs that an answer read without an error, and not
  garbled, is that of the call under way (`AnswerIsOfThisCall`): what an earlier
  call left to be read is only met by one that has failed. The mapping of `stage` is `Stage`.
* `FramesFit` needs the length of the message, which is that of its text and the
  nine or twelve bytes around it; `ErrorsInd` follows the buffer of a call in
  which nothing was lost.
* `SendsAreAddressed` rests on an order nobody states: the flag is set after a
  congestion, that after something was sent, the first thing sent is the answer
  to a read, which takes a characteristic (`CharFirst`); `LinkKnown` says which
  connection the buffers were asked for.
* `CrashIsProvoked` looks at who uses the semaphore and the document. `CrashInd`
  says that in a boot without a provocation the first is there before anyone
  who could come to use it, and a second start that fails leaves it alone
  (`SemaphoreReady`), and the second is there from the CTX_REGULAR that starts
  Bluetooth on (`DocumentReady`); `HandlerOK` keeps `sys_evt` out of everything
  else while `_ble_init` runs.
* `TagHasLatestContent`: unless it was lost, the latest content is the last one
  that waits in the queue, or it has been `Delivered`: it is in the tag, or in
  flash with a CTX_REGULAR still to come.
* `ContentReadsBack` speaks of a file several updates have written, each all of
  its message, 246 bytes of it, or, with a length of 256 or more taken modulo
  256, none or a few. `ContentInd` says that the file begins with what the update
  carried out wrote of its message, and that it is never longer than an update
  can make it (`PartWritten`). What is left of older texts behind a cut header
  must not complete it: where a short record has its type there is a type
  only with the status byte of a text behind it (`FileShape`), so that such a
  file is not read as the text that was to be written.
* The theorems about `c_mqtt.c` inside the node are not those about `c_mqtt.c`
  alone: there the application calls it in any order but the power never fails,
  here the handlers call it in theirs. The same step lemmas serve both:
  `ClientSteps` and `NodeTableSteps` say of every step of the node that it is a
  call, a callback of the mqtt task, a power cycle, or leaves the client alone.

What is defined by recursion. `BytesUpTo`, `LengthUpTo` and `TextsFrom` of
`NdefMessage` are recursive functions over the records or over the file. The
induction theorems of the library take an operator as a parameter, which the
installed provers cannot instantiate, so `NdefMessageProofs` argues by the least
number for which a fact fails: `Upwards` and `Downwards` state induction over an
interval for a *set* of numbers, and follow from the order of the naturals being
well founded; `Recursion` and `BackwardRecursion` say that functions that satisfy
such equations exist. `WrittenTextsAreRead` follows record by record, from where
the header says the payload starts and the next record begins: each header's
lengths, short or long, must agree with the bytes written between it and the
next. The reader parses headers as `RecordHeader.c` does and otherwise follows
the NDEF standard. `MessagesAreReadBack` cites it for every set of text lengths
`DriverAssumption` allows, for messages of one to three records.

Only model-checked: the liveness properties (`StartsOnceProvisioned`,
`ReachesRegular`, `ComesToRest`), which with fairness and ENABLED are beyond the
prover. Every safety property of a run that passes has a theorem. No module uses
RECURSIVE operators.

## Findings

Each is the expected violation of a run.

* `broker_url`: a document with a token and no address lets the client start
  with an uninitialised buffer for an address; the check at
  `mqtt_handler.c:109` looks at the pointer.
* `table_fits`: the third connection of a boot writes past `subscriptions[10]`.
* `tag_session`: `m24sr_release_i2c` never sets `status` back, because the answer
  to Deselect is not checked as what it is; the next change of the password in
  that boot fails.
* `nvs_read`: `nvs_read_string` says OK with a buffer it did not fill when another
  task's access falls between its two halves.

Seen while modelling, without a run of their own:

* NODE_STATE stays REGULAR when Wi-Fi is lost, and becomes REGULAR on an answer
  whose attributes could not be stored, against `context.h:38`; the states of
  `context.h:42-50` are never entered. Nothing reads NODE_STATE in this version.
* After a Wi-Fi flap that the MQTT session survives, NODE_STATE goes from
  REGULAR back to VALID_WIFI_CRED and stays there.
* When `esp_mqtt_client_init` fails nothing tries again before a restart
  (`FailedStartIsFinal`).
* A password of less than 16 characters is sent with what follows it in memory,
  which need not be the same when it is set and when it is presented.
* A reset needs 1.5 s of long press and then five seconds more; a press that
  follows a click within 180 ms never resets, however long; one of more than 71
  minutes may not, because the microseconds run over.
* A factory reset whose erase fails restarts the node all the same, with what was
  left of its flash, and tells nobody.
* A callback of Bluetooth that reads `ble_content` while `sys_evt` opens or closes
  the shared handle may find nothing (run `nvs_read`), does not look at the
  result, and dereferences what is not there: the node restarts, whatever
  document it has.
* A session of the tag counts as open when the bytes that asked for it were
  acknowledged; that the tag asks for its password from now on is believed
  whatever it answers; and no checksum of an answer is computed, so that a
  damaged refusal may count as consent.
* A second provisioning document replaces the tag's password in flash without a
  look at the one stored, which the tag then still has.
* A stored value of no characters leaves the buffer of a reader as it was.
* A text of more than 237 bytes is reported as written and cannot be read back:
  an update is cut at 246 bytes, and from a message of 256 on it is taken modulo
  256.
* ChangeReferenceData and Deselect are reported as errors when they worked: their
  answer is looked for in the wrong place.
* `can_send_notify` starts FALSE and only the end of a congestion sets it. As the
  sending task itself sends nothing until then, notifications begin only when a
  phone's reads have congested the link.
* A change of the content that is handled between an answer and its CTX_REGULAR
  is overwritten in the tag by the older content of the answer.
* Of an update of several attributes only the first is looked at.
* A server without `ble_content` restarts the node each time its name is read.
* The update task reads one byte of a freed buffer for its address: it fails and
  does nothing for ever, or brings the node down. An update cannot succeed.

## Not modelled

* TLS, payload formats, log lines, JSON beyond which keys a document has; memory
  that cJSON keeps.
* `mqtt_unsubscribe_from_topic`, `nvs_delete_key`, `replace_request_with_response`,
  `send_data_to_topic`, the `_receive` functions of the driver, reading and
  unlocking the tag, deleting buttons: nobody calls them. States and events
  nobody posts.
* Attribute values, UUIDs and the checksum of what BLE notifies; the CRCs
  themselves: the tag finds a frame damaged, the driver never an answer.
* The download of an update and `ota_check`: no update reaches them.
* `c_wifi` and `wifi_handler.c`: `app_main` does not call them; the node's Wi-Fi is
  the provisioning component's.
* ADC and matrix buttons, power save: the firmware has one GPIO button and
  `sdkconfig` turns power save off.
* `managed_components`, `sdkconfig`, `provisioning_ui.py`: build tooling and a
  desktop tool.
* ESP-IDF, esp-mqtt, FreeRTOS, the tag's chip: each appears as what the firmware
  can see of it, and is marked external where it is a definition of its own.
* Late timer callbacks: `ResetButton` counts ticks as the code does, and takes
  the clock to agree with them.
