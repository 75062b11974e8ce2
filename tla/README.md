# ProjectRomero: a model of the car

ProjectRomero is a model car that is driven from an Android phone or drives itself. Three computers take part:

    Android phone            Raspberry Pi                    STM32F103 board
    remote.java   --BLE-->   acm-rpi-app   --CAN commands--> app/main.c --> motors, front wheels
                  <--BLE--   (one thread)  <--CAN data------            <-- ultrasounds, hall sensors

This directory holds TLA+ modules for the parts that decide and for the links between them, TLC runs on small instances, and
TLAPS proofs for every value of the constants. Paths below are short for

| short | file |
|---|---|
| `AcmApplication.cpp` etc. | `src/RaspberryPi/acm-rpi-app/src/` |
| `main.c` | `src/STM32/Project_Car-master/app/main.c` |
| `CAN.c`, `IT.c` | `src/STM32/Project_Car-master/CAN/src/` |
| `us_sensors.c`, `hall_sensors.c` | `src/STM32/Project_Car-master/lib/Drivers_Car/src/` |
| `remote.java` | `src/Android_Remote/connect/app/src/main/java/romero/project/connect/` |
| `GattServer.cpp` | `src/RaspberryPi/acm-rpi-app/src/gatt/` |
| `att.c`, `gatt-server.c`, `gatt-db.c` | `src/RaspberryPi/acm-rpi-app/bluez5/src/shared/` |

## 1. Inventory

### Drive control (acm-rpi-app) -- modelled: AcmApplication

*State.* `m_carParamIn` (obstacles, road verdict, speed, direction, battery), `m_carParamOut` (mode, direction, speed,
turbo, what the remote requested), the previous road verdict and the parity of the sender.
*Operations.* Callbacks of one epoll loop: `systemControl` (50 ms), `canOnTimeToSend` (25 ms), `cameraProcess` (200 ms),
`canOnDataReceived`, `bleOnDataReceived`, the signals and errors that end the process.
*Interactions.* Reads bytes the remote writes, frames the STM32 sends; writes alternately a direction and a speed frame;
notifies the remote on every frame it gets.
*Hard.* The order of the callbacks is open; the four modes have different entries and exits for the same surroundings;
`emergencyStop` leaves fields behind that the next mode finds; the process ends without a last command.
*Correct when* a persistent danger stops the car from every mode, turbo and autonomy exist only in the clear, steering is
debounced, and from every mode the car gets to where the surroundings and the remote want it.

### Command loop and watchdog (STM32) -- partly: CarNode, Deadman

*State.* `CAN_RxMsg`, `CAN_RxRdy`, `nb_rcv`, `SpeedRx`, `DirRx`, shared by the loop of `main` and two interrupts, none of
them protected; the receive FIFO.
*Operations.* The receive interrupt copies a frame; `canPeriodic` sends telemetry and zeroes the commands when no frame was
counted; the loop copies commands and drives the motors.
*Hard.* `nb_rcv++` against `nb_rcv = 0`; the id tested and the data copied from a message that may change in between;
`SpeedRx` read up to three times in one chain of tests; a full FIFO; a Raspberry Pi that falls silent at any of these
points.
*Correct when* silence stops the car, the newest command is not lost for good, and nothing moves after that.

### Ultrasound link -- partly: Ultrasound

*State.* Six distances and their predecessors, the frame in its mailbox, the obstacles of the Raspberry Pi.
*Operations.* `canPeriodic` packs distance, "mobile" and "detected" into a byte per sensor; `ObstacleDetector::detect`
unpacks; a frame may be lost or replaced, for nothing is sent twice.
*Hard.* Floats cast to int, a 6-bit field, strict comparisons on both sides of two metres, two orders of the sensors.
*Correct when* the Raspberry Pi believes what was measured, a still scene is static, and a vanished neighbour counts as
mobile. Battery, odometer and potentiometer frames are not modelled here: AcmApplication takes any value of theirs.

### Remote control activity (Android) -- modelled: Remote

*State.* `started`, `turboed`, `autonomous`, `driving`, `joystick_value`, `modeChanged`, `connected`, `btGatt`,
`stateCharacteristic`, one timer per connection with its task.
*Operations.* Buttons and joystick on the UI thread, GATT callbacks on another one, the timer task on a third one.
*Hard.* The three share the fields without synchronisation; the car's feedback may contradict a click it has not seen yet; a
task outlives its connection.
*Correct when* a click survives old feedback and the car ends up with the command the screen shows.

### Ultrasound acquisition -- modelled: UsSensors

*State.* Per echo line a DMA buffer, the edge captured, the calibration flag, two indices and the parity they stand for;
`counter_trig`; the edges behind each distance.
*Operations.* Timer 4 triggers two groups of three sensors in turn and counts; DMA copies the count of timer 3 at each edge;
a full buffer interrupts, and the handler calibrates the line or shares the captures out between front and rear.
*Interactions.* `canPeriodic` reads the distances, from an interrupt of its own.
*Hard.* The handler knows whose echo came last by a parity only; an echo may be missed; the calibration ends in the middle
of a pulse; a DMA channel ignores some writes while it is enabled.
*Correct when* front and rear never trade places, a distance is an end minus a start, and readings are recent.

### GATT server (acm-rpi-app) -- modelled: GattDb, GattServer

*State.* The attribute database; the socket with its queue of messages and the flag of the request in progress (`att.c`);
the write that waits for its result and the queue of prepared writes (`gatt-server.c`); a timer per pending write
(`gatt-db.c`); the device name; the two flags that end the loop.
*Operations.* The callbacks that read the socket, write it, give up a write and take a disconnection; `bleOnDataReceived`
and `updateClient` of the application; what a phone asks.
*Hard.* `bleOnDataReceived` never reports that it has taken the byte, so each byte blocks the path of writes until a timer
of 50 ms fires, and a write command that comes before is dropped without a word; answers are as long as the MTU allows; an
execution of prepared writes may be refused halfway; the phone may hang up at any point.
*Correct when* a phone finds exactly the database, each request has one answer, and the byte in force is the newest one. The
bluez5 files are vendored, but the program is built on what they do when a callback stays silent, so the paths this program
reaches are modelled, and the others are not.

### The three together -- Rover

*State.* What the remote shows, what is on the two links, the modes and the motors, and four timers that nobody
synchronises: 50 and 25 ms on the Raspberry Pi, 100 ms on the STM32, 200 ms on the phone.
*Interactions.* The car answers every frame it gets with its mode; the remote adopts that mode unless it has just been
clicked; the car adopts the mode in every byte the remote sends. Each side thus follows the other, with a delay.
*Hard.* A click crosses feedback that is older than it; a direction frame keeps a speed alive; a mode the car chose itself
comes back as a request.
*Correct when* a danger and a lost link stop the motors in bounded time, and screen and car agree on what was clicked last.

### Not modelled

| component | state and operations | why not |
|---|---|---|
| CAN transmit path (`CAN.c`) | three mailboxes, three ready flags, `CAN_waitReady` | nobody reads the flags, and a mailbox is free long before the next tick; what matters is a `CAN_waitReady` that never ends (hazard `CAN.c:103`) |
| Wheel sensors (`hall_sensors.c`, `speed_sensors.c`, `position_sensors.c`) | edges, sectors, a circular table of times, one adder for two wheels | the speed they measure enters `car_dist` (`main.c:100`, `118`) and with it the mobile bit: Ultrasound takes any speed, so nothing that depends on it is assumed |
| Motors, steering, battery | PWM, ADC, regulation of the wheels | physics and registers; CarNode keeps the commands they get |
| Former SPI interface (`manager.c`, `mirroring.c`, ...) | mirrored data of an earlier project | not reached from `main.c`'s `SysTick_Handler`; see the assumptions on CarNode |
| Event sources (`Timerfd.hpp` etc.) | wrappers of timerfd, signalfd, CAN and L2CAP sockets | no state of their own: the one-shot timer that is armed again after its callback is the fairness of AcmApplication and `due` of Rover |
| Scan activity, loggers, Yocto, StdPeriph, the rest of bluez5 | user interface, output, build, third-party code | no state the car depends on |

Most lines of the repository are the vendored ones (StdPeriph, CMSIS, bluez5), which is why the share of the implementation
that is modelled is small; of the project's own code, what decides something is modelled but for the rows above.

The hazards of this code, each at its line with the properties that cover it, are the list `hazards` of `PROJECT.json`.

## 2. Plan

Done, in this order:

1. AcmApplication, CarNode, Deadman: decisions and the last line of defence.
2. Ultrasound, Remote, UsSensors: what the decisions are fed with.
3. GattDb, GattServer: the link the remote's bytes come through, from the socket to `bleOnDataReceived`.
4. Rover, the composition: the remote, AcmApplication (extended, not copied) and the command loop, over two links in
   discrete time.
5. Theorems for the safety of each of them.

Left: Sensing, the composition of UsSensors and Ultrasound (what a stale reading does to the mobile flag); in CarNode, a
controller that goes off the bus while `CAN_waitReady` waits in the timer interrupt; WheelSensors (adder, circular table,
laps); reconnection in Rover. Liveness stays with TLC.

## 3. Modules and code

### AcmApplication (MCAcmApplication, AcmApplicationProofs)

A callback runs to completion, so each callback is one action; the loop meets events in no determined order, so any may be
next. `SystemControl` is the whole tick: the zone from the nearest echo, `UpdateMode` (four `Leave...` operators, one per
case of the switch), `ExecuteMode` (four `Drive...` operators). A picture is the two shares of black pixels `placement`
computes; a command byte is its three-bit state code and three-bit direction. `sent` and `notified` are what the last
callback wrote (the result of the socket's write is ignored by the code, so a frame counts as sent once it is handed over).
`seen` is history: zone, road and number of critical ticks in a row at the last control tick, and the `course`, the
directions that the ticks so far allow a car that drives itself. The tick that enters the autonomous mode compares its
verdict with one of long ago and may steer for a verdict that it alone saw, or not: both are in the course.
`DebouncedSteering` says that this ends with the first two ticks that agree, and that from then on the wheels follow what
two ticks in a row last agreed on.

### CarNode and Deadman (MCCarNode, CarNodeProofs)

The steps of the loop (`pc`) are its accesses to shared variables; between any two of them the receive interrupt or the
timer interrupt may come. The two interrupts have the same priority and do not preempt each other; `canPeriodic` is split in
`TimerStart` and `TimerEnd` because frames arrive while it runs and are not served. It reads no shared variable before the
watchdog at its end. `Deadman` is the abstract promise: the motors run only while the bus is heard, and stand when `Limit`
ticks of silence are complete. CarNode refines it with `heard <- arrivals > 0`, `silence <- silent` and `moving <- motor #
0`.

`speedOrder` and `dirOrder` are history: the newest frame of each kind that the receive interrupt stored, or the zero of a
watchdog that came after it. `CAN_RxMsg` holds one message, so a frame that comes in before the loop has copied the order of
the other kind makes it `Overtaken`: that command is lost until the sender repeats it, 50 ms later. `NewestSpeedApplied` and
`NewestDirectionApplied` say that this is the only way to lose one: once the loop has nothing left to copy, each order that
was not overtaken is in force, whatever came in while the loop was copying.

Assumed of the committed sources: the missing `;` in `main.c:50` is there; the `SysTick_Handler` linked is the one of
`main.c:64`, which only counts. There are two: `lib/StdPeriph_Ex/src/it_handlers.c:352` defines another one, and that is the
one in the committed `MDK-ARM/Release/project.map:676`. It calls `SysTick_Callback`, and with it the former SPI interface,
which would write zero to the motors every 10 ms from a mirror nobody fills: a build that drives is one without it. The
shared variables are not `volatile` but are reloaded, since the loop calls functions the compiler cannot see into; `angle`
is never assigned, so `Turn` is always called for directions 0..4.

### Ultrasound (MCUltrasound, UltrasoundProofs)

A distance is a count of a timer times 0.02621 cm: the model keeps the count and compares in units of 10^-5 cm, so the
arithmetic is exact integers where the code computes in floats; the rounding is far below the 0.02621 cm of a count.
`SendUltrasound` is the ultrasound part of `canPeriodic`; its `sensors` are the counts the capture interrupts have left, any
at all. `sample` and `basis` are history: the two measurements and the speed behind the frame on the way, and behind what
the Raspberry Pi believes. A still scene (`StillSceneIsStatic`) is two measurements in a row that differ by no more than the
car has moved in one tick; UsSensors says how old the measurements really are, and what that does to the flag is left to the
composition of the two.

### UsSensors (MCUsSensors, UsSensorsProofs)

A capture keeps what the properties need of a count: of which group's pulse it is, of which edge, and its age in periods.
`Trigger` is the overflow of timer 4 with the DMA transfer that raises the pins and the interrupt that counts; `PulseBegins`
and `PulseEnds` are the edges of an echo, captured if timer 3 is set to them; `DMA1_IRQHandler` is the whole handler:
`Calibrate` (six falling edges are the starts; rewind, and capture ends from now on) or `Share` (`FollowParity` exchanges
the indices when the parity of `counter_trig` is not the one they stand for). The code names the edges for an inverted echo
signal: the falling one is the start. `COUNTER_DIFF` is the 16-bit difference of the two, right for any pulse shorter than
the 65536 counts of a period. `first` and `answered` are history.

`Init` takes both parities of `counter_trig`: `TIM_TimeBaseInit` sets the update flag of timer 4, and enabling the interrupt
afterwards may serve it once before the first trigger. In that case the names are exchanged for good: index `FRONT_LEFT`
holds the second group's sensor and not the first one's that the header of `us_sensors.c` says. `main.c` has names of its
own for the six indices, so `NeverSwapped` says that they never change, by `FrontGroup`.

`Restart` keeps the size of the center buffer: its handler enables the channel before `DMA_Init`, and the size register of
an enabled channel cannot be written (`stm32f10x_dma.c:350`).

Assumed: a pulse begins and ends within its period; a handler runs before the next trigger, and the interrupt that counts a
trigger before its echo, that is `canPeriodic` takes less than an echo.

### Remote (MCRemote, RemoteProofs)

A handler of the UI thread assigns several fields while another thread may read them: while it runs, `ui` holds the old
values and `change` the new ones. A timer thread that creates a message may see either value of each field, in each of its
tests (`Messages`); `ConnexionChange`, on the callback thread, may lose its assignment to the handler's. The timer task is
four steps: look at the connection, create the message, write it, or cancel the timer field, which holds the newest timer
and not its own. A reference that has become null when it is used ends the app (`crashed`).

`OnDisconnected` resets three fields in one step, and `Fire` reads them in one: between the assignments a task or a
click finds `connected` already false and does nothing, as if it had not come.

Assumed: connecting takes longer than one execution of a task (`OnConnected` finds the tasks waiting); Android runs one UI
handler at a time; a write without response is accepted by the Bluetooth stack.

### GattDb and GattServer (MCGattServer, GattServerProofs, GattDiscoveryProofs)

`GattDb` is the database as a value: `AddService`, `AddCharacteristic` and `AddDescriptor` lay attributes out over handles
as `gatt-db.c` does, the searches return what a range holds, and `GroupEntries`, `TypeEntries` and `InfoEntries` cut a
result where the MTU, or a change of the length of the entries, ends an answer. `AcmDb` is what `GattServer.cpp` and
`AcmApplication.cpp` build with them. The specification is about any database (`Db`) that a phone can find: one that is
`WellFormed`, and whose declarations may be read and fit into an answer of 23 bytes (`DbAssumption`). `gatt-db.c` makes
databases so: it gives out handles in ascending order and refuses what does not fit into its service. `MCDbAssumption` has
TLC compute `AcmDb` and compare it with the table written out in MCGattServer, TLC evaluates `DbAssumption` for it, and
`AcmDbIsWellFormed` proves the part that speaks of handles.

`GattServer` is the connection: each callback of the loop is an action, the loop picks ready events in any order (epoll
makes no promise), the phone sends at any time. `CanReadData` takes one message; a request while another is served shuts the
socket, as `att.c` does; a write of the state stays pending under a timer (`WriteState`), other writes are answered at once
(`WriteOther`), and a write while one is pending is refused, with an error for a request and with nothing for a command
(`Refuse`). `WriteTimeout` is `write_timeout` with the `write_complete_cb` it calls. `DisconnectCb` drops the queues and
ends the loop. The phone (`Explore`, `TaskWrites`, `Receive`, `Ask`) is external: how Android and nRF Connect use a server
that is not theirs. They do not prepare writes of the state (whose execution would wait for the 50 ms timer like a direct
write) and send no malformed message.

Time is counted because the drop depends on it: the phone writes once a `Period`, a write occupies the server for `Timeout`,
and each callback may be late by `MaxDelay`; `Tick`, the only action that counts, waits for nothing but a callback or a
timer that is as late as that.

### Rover (MCRover, RoverProofs)

Rover EXTENDS AcmApplication: the actions of the Raspberry Pi are its actions, and `due` says when its two timers may fire.
The unit is 25 ms, the shortest period; timers may fire in any order within a unit, and the phases of the three computers
are any. The remote and the STM32 are coarser here than in Remote and CarNode: a handler is one step, a frame is carried out
when it is written, the direction of the joystick and turbo are left out. Assumed: a message takes less than a unit on
either link; callbacks take no time (the code arms its timer again after the callback, so its periods drift; the camera
blocks the thread while it takes a picture); the phone does not come back after the process ended.

`wanted`, `calm`, `danger` and `lost` are history: the mode the last click asked for while remote and car agreed, the time
since the last click or disturbance, since the nearest echo became critical, and since the process ended.

`Agreed` restricts `wanted` to the clicks that must prevail, and the restrictions are observations about the code: a click
in the same 25 ms as a run of the task may be lost, for `setAutoButton` ignores five feedbacks, two come every 100 ms, and
the next run of the task is 200 ms away; and a feedback that agrees with the screen ends the patience at once
(`remote.java:595`), so that a click while one is in flight, or a second click right after the first, may be turned round
too. In all those cases screen and car still agree in the end, on one of the two modes.

## 4. Runs

| run | question | result |
|---|---|---|
| `acm_control` | Do all orders of callbacks keep the promises of the state machine, and does it get out of every mode when it should? | holds |
| `acm_masked` | Is each ultrasound checked, as `AcmApplication.cpp:240` says? | violated: the nearest echo hides a farther one that is inside its own sensor's limit |
| `car_node` | Do loop and interrupts implement the dead man's switch, and is a command lost only when the next frame overwrites it before the copy? | holds |
| `car_torn` | Is `SpeedRx` "the value of the speed received", as `main.c:46` says? | violated: a direction frame between the test and the copy |
| `remote` | Does a click survive old feedback, and does the car end up with what the screen shows? | holds |
| `remote_senders` | Does one message leave at most every 200 ms, as `remote.java:814` says? | violated: two tasks after a quick reconnection |
| `ultrasound` | Does the Raspberry Pi believe what was measured? | holds |
| `us_sensors` | Do the handlers keep front and rear apart, and starts and ends, whichever echoes are missed? | holds |
| `us_center` | Is every sensor measured in its turn, as `us_sensors.c:5` says? | violated: the center sensors are read 400 ms late and more |
| `ultrasound_ids` | Do both nodes give the sensors the same numbers? | violated: front and front side are exchanged |
| `gatt_server` | Does a phone find the database and have each request answered once, and is its newest byte the one in force, though no write of it is ever confirmed? | holds |
| `rover` | With all four timers and both links: do danger and a lost link stop the motors in time, does a click prevail, and does a car in manual mode stay there? | holds |

Every property of a passing run has a mutant of the code, written beside the definition it replaces, that violates it.

### Bounds

*AcmApplication.* One side and one front sensor (limits 5/10 and 20/40 cm) instead of six: the state machine sees the
nearest echo only, and two sensors with different limits are what it takes to tell a masked one. 8 and 30 cm, and nothing,
put the front sensor into each zone and the side one into all but the critical one; `acm_masked` adds 14 cm, which is
critical ahead and harmless beside. Three pictures: middle, drifting, off the edge. Five command bytes: manual at rest,
manual moving, turbo, autonomous not moving, and a state code the switch does not know. Telemetry frames change nothing the
state machine reads; they are in `rover`. The proofs need none of these bounds.

*CarNode.* FIFO of two and two frames a period (three and no limit in the controller): with `MaxPerPeriod = FifoDepth` the
overflow happens when the loop is held back over a tick. Two speeds that move the car, and one direction code. Between two
ticks the loop makes two passes (`TickPasses`); it makes thousands in 100 ms, so two is the least favourable case that is
still below what happens. `nb_rcv` and the history are counted up to the values that are told apart.

*Remote.* Two connections: an old task and a new one is all a reconnection can bring together before the next. One runnable
may wait for the UI thread. `Patience = 1` stands for the five feedbacks of `remote.java:200`: the counter is only tested
for zero. The joystick is pushed to an angle without direction, because the direction travels in the byte with the state and
races alike.

*Ultrasound.* Two neighbours of the six sensors (each sensor looks at its neighbours only, and the proofs cover any number),
counts at 13, 15, 199.98 and 200.005 cm, speeds 0 and 20 cm/s. The sensors start at count 0, as the code does.

*UsSensors.* One side line, which may miss any echo at any time, and the center line; left and right are the same code on
two channels and share no state but the triggers. The age stops at 4, one more than `Fresh` allows. Nothing else is bounded.

*GattServer.* A tick is 50 ms: `Timeout` is 1 (`ATTRIBUTE_TIMEOUT`, `gatt-db.c:45`), `Period` is 4 (the task of the remote,
200 ms), and everything may be late by one tick, a callback and a message alike. `NewestWriteInForce` needs `Period > 2 *
MaxDelay + Timeout`; these are the smallest values with some delay that satisfy it, and the theorem covers all. Two bytes
are what it takes to drop one. The phone proposes an MTU of 185; the server's own is 23, and never more. The queue of
prepared writes holds 2 entries and names are told apart up to 12 bytes, so that a queue that is full and a name that is too
short both happen. One notification at a time waits for the socket.

*Rover.* The front sensor alone, which hears nothing or an echo at 14 cm; a picture of the middle of the road and one off
its edge; one telemetry frame of each kind. `Patience` is the 5 of the code. The histories are counted as far as the
properties look: 600, 175 and 225 ms. The phases of the control and the tick timer are any, that of the task is what the
others are relative to. `RoverView` leaves out what no guard and no property of the run reads (directions, measures, what
the last callback sent) and, once the process has ended, everything but the STM32.

`CHECK_DEADLOCK FALSE` is said for AcmApplication and GattServer, whose process ends (`Quit`, `Exit`), and for Remote, whose
app may crash. The car node, the ultrasound link, the acquisition and the composition never stop, and their runs check that.

### Fairness

*AcmApplication.* Weak fairness of `SystemControl` and `CanOnTimeToSend`: `Timerfd` arms its one-shot timer again after each
callback, and callbacks do not block but for the camera. Neither the camera nor any frame is assumed to come.
*CarNode.* The interrupts are served and the loop runs when none is pending; the timer ticks. `canPeriodic` ends because the
controller is set to no automatic retransmission (`CAN.c:71`), so a mailbox becomes free even when nobody listens; a
controller that leaves the bus is assumed away (hazard `CAN.c:103`). Arrivals and the death of the Raspberry Pi are not
fair.
*Remote.* The UI thread ends its handlers and runs what is posted; a timer starts and keeps firing (`scheduleAtFixedRate`).
Clicks, connections and notifications are not fair.
*GattServer.* The loop runs each callback whose event is ready, the phone takes what has arrived and goes on with its search
(`Receive`, `Explore`); time passes (strong fairness of `Tick`, which is enabled again and again). The phone need not write,
ask or hang up, and the car need not notify.
*Rover, Ultrasound, UsSensors.* None: their properties are safety properties.

## 5. Proofs

All from the assumptions on the constants the modules name; two theorems have a hypothesis of their own. That of
`ClickWins`, a `Patience` of 4 at least, holds in the code, which has 5. That of `NewestWriteStaysInForce`, `Period > 2 *
MaxDelay + Timeout`, is an assumption about the environment: nothing in the code bounds how late a callback may be (taking a
picture blocks the only thread of the Raspberry Pi), and `scheduleAtFixedRate` may make up for a late run with two in quick
succession.

*AcmApplicationProofs.* `EmergencyStopOnPersistentDanger` is not inductive: it speaks of two ticks, and the step from
`emergencyStop` to `autonomous` must be known to happen with no critical echo. `IInv` ties the command to what the last tick
saw: a normal mode saw no close obstacle (`ModeMatchesZone`); the first critical tick leaves the normal modes, the second
one stops (`StreakMatchesMode`); `emergencyStop`, which does not touch turbo, was entered without it (`StopMatchesMode`,
`TurboMatchesMode`); the previous verdict in the autonomous mode is that of the previous tick (`SteeringMemory`), which is
why the wheels keep to the course (`DebouncedSteering`, inductive with it). Only the control tick changes those; the other
callbacks leave `command` alone (lemma by lemma).

*CarNodeProofs.* The argument follows a silent bus from tick to tick. Two passes of the loop drain what had arrived
(`Drained`), so that after one silent tick nothing is left to count (`Quiet`), after two the commands are zero, and after
three the loop has carried them out (`Standing`); a message that was not yet looked at is flagged (`FlagUp`). For the newest
orders it needs `UnreadOrder`: a message of a kind that waits to be copied is the order of that kind, and a copy whose
message was exchanged after the test has been overtaken. It holds for any FIFO depth, any number of arrivals and any
commands. `NodeIsDeadman` proves the refinement: every step of the node is a step of the switch or none.

*UltrasoundProofs.* `IInv` says that a frame on the way packs its sample and the obstacles unpack theirs. The rest is
arithmetic: the distance field is a multiple of four in six bits (`FieldBounds`); no 16-bit count is exactly two metres
away, so the two strict comparisons leave no gap (`NearOrFar`); a byte holds what went in (`ByteHolds`).

*UsSensorsProofs.* `NeverSwapped` speaks of readings; why it holds is in the buffers. `changeState` is the parity the
indices stand for (`IndexByParity`), a full side buffer ends with the echo of the present period (`LastIsPresent`), and the
group of the present period is told by the parity (`GroupByParity`). The captures since the last handler are all of the edge
timer 3 is set to (`Captured`), which gives `EndMinusStart`, for the center line too. Any number of lines, any of them
missing echoes. `MissIsForgotten` counts back from there: two captures of a full buffer are the last two echoes, and from
one echo to the next are two periods at most (`Echoes`, `Recent`).

*RemoteProofs.* `ClickOutlivesOldFeedback` follows from a sum: the patience a click has left and the reports that
contradicted it since are together `Patience` (`ScreenOK`). The types need one more fact, that a connection being opened has
a timer left (`ConnectionOK`).

*GattServerProofs.* `NewestWriteInForce` depends on when things happen. `PInv` adds `Punctual` to the types: a byte on its
way is the newest one, has been there no longer than something may wait, and meets no timer (`NewestOnTheWay`); the timer of
the newest byte runs no longer than that wait, the time it is given and another wait (`TimerInTime`). A timer that blocks
the next byte would still run a `Period` after its own, which `Period > 2 * MaxDelay + Timeout`, a hypothesis of the
theorem, excludes.

`OneAnswer` and `NeverShutDown` hold each other up: the server meets no second request because the phone waits, and it may
wait because its request is in exactly one place. `AInv` names the places and ties the flag `inReq` to them (`OneRequest`).
The places are four sets of positions, in three queues and under the timer; each callback moves one element from one set to
the next (`Places`). `NoStalePrepare` adds which session a prepared write belongs to (`PreparedInSession`). Any MTUs.

*GattDiscoveryProofs.* `DiscoveryIsExact` speaks of the end of a search that takes many questions. `Reached` says where it
is: the handle the next question starts at (`cursor`), and that what was found is what the database holds below it, in the
service that is being searched and the ones before. `Asking` says what is under way: the question from there on, or one
answer to it, which holds found handles up to some last one and nothing beyond (`Replies`), or says that there are none. An
answer that is cut short is what makes this hard: that the entries that fit are an initial segment of those found
(`LowestIsLowEnd`, `FittingIsLowEnd`) is why the phone may go on after the last of them (`Progress`). These lemmas need the
least element of a set of handles; it comes from the well-foundedness of the naturals, whose theorem in the library takes a
relation and not an operator (`LeastOf`). The last lemmas follow the building: `AddServiceBuilds` and `InsertBuilds` keep a
database `Built`, so that `AcmDb`, the work of eleven calls, is well-formed.

*RoverProofs.* `RInv` adds to the invariant of AcmApplication the types, what is on the links at which moment (`Tidy`), and
two potentials: while the zone is critical, the units since it became so plus those until the control tick, or the speed
frame, that is needed next stay below a bound for each stage of the stop (`DangerBounded`); after the process ended, the
same with the tick of the STM32 (`LostBounded`). `ManualIsStable` follows action by action.

`ClickPrevails` needs `CInv`, which follows a click over two runs of the timer task. Until the first one, the click is
`Pending`: the remote has patience left for every feedback on its way and for the two of each tick still to come, so the
screen keeps the mode. The first run sends it; then (`Follows`) the car takes the mode at its next control tick, and a
feedback that is older and turns the screen round is followed, before the task runs again, by one that turns it back
(`Corrected`). The second run finds all three computers in one mode and sends the command that stays (`Settled`); the speed
frame that carries it reaches the motors within four units. `calm + due.task` counts the runs: more than one period says one
has happened since the last disturbance, more than two say two (`Calmer`). The theorem asks for a `Patience` of 4 at least.

`RoverRunsAcmApplication` is a refinement without a mapping: the composition shares the variables of AcmApplication, and
each of its steps is a step of it or leaves it alone. It rests on `RemoteAssumption`, that the bytes the remote writes are
among those AcmApplication takes, so that the theorems of AcmApplicationProofs speak of the car.

| theorem | property | of |
|---|---|---|
| `TypeCorrectness` | `TypeOK` | AcmApplication, CarNode, Ultrasound, UsSensors |
| `RemoteTypes`, `ClickHolds` | `TypeOK`, `ClickOutlivesOldFeedback` | Remote |
| `PersistentDangerStops`, `TurboIsManual`, `AutonomyIsInTheClear`, `SteeringIsDebounced` | the safety of `acm_control` | AcmApplication |
| `WatchdogZeroes`, `WatchdogStops`, `NewestSpeedInForce`, `NewestDirectionInForce` | the safety of `car_node` | CarNode |
| `NodeIsDeadman` | `ImplementsDeadman` | CarNode |
| `FrontStaysFront`, `MissesAreForgotten`, `DistanceHasBothEdges` | `NeverSwapped`, `MissIsForgotten`, `EndMinusStart` | UsSensors |
| `DistanceIsFaithful`, `StillIsStatic`, `VanishedMeansMobile` | the safety of `ultrasound` | Ultrasound |
| `TypesHold`, `NewestWriteStaysInForce` | `TypeOK`, `NewestWriteInForce` | GattServer |
| `OneAnswerHolds`, `NeverShutDownHolds`, `NoStalePrepareHolds`, `DiscoveryIsExactHolds` | the same without `Holds` | GattServer |
| `AcmDbIsWellFormed` | part of the assumption `DbAssumption` | GattDb |
| `RoverTypes`, `DangerStops`, `LostLinkStops`, `ManualStays` | `RoverTypeOK`, `DangerStopsInTime`, `LostLinkStopsInTime`, `ManualIsStable` | Rover |
| `ClickWins` | `ClickPrevails` | Rover |
| `RoverRunsAcmApplication` | `Spec` of AcmApplication | Rover |

*Model-checked only.* The liveness properties (`LaneAssistEngages`, `StopIsObeyed`, `AutonomyResumes`, `DeadPiStopsTheCar`,
`CommandArrives`, `EveryRequestAnswered`, `WritePathRecovers`, `LinkLossEnds`), which the prover does not reach. The
invariants and action properties of all passing runs are proved.

## 6. Findings

Where the code and what the repository says of it disagree, a run shows it and `findings` in `PROJECT.json` quotes the line:

* an obstacle beside the car hides a closer danger ahead (`AcmApplication.cpp:305`);
* a direction frame may be taken for a speed (`main.c:398`);
* the center ultrasounds, which look ahead, are read from captures 400 ms old and older (`us_sensors.c:413`);
* a timer task of an earlier connection keeps sending (`remote.java:836`);
* the Raspberry Pi exchanges front and front side sensors (`AcmApplication.hpp:43`).

Two comments are wrong in a way that needs no run: timer 2 is set to 100 ms and not 200 (`main.c:388`), so the watchdog acts
after one silent period (`main.c:315`), and the three slow frames leave every 300 ms and not 600 (`main.c:227` and below).

Three observations contradict nothing the repository says, so they are no findings:

* an emergency stop and the lane assist are reported as "autonomous" (`AcmApplication.cpp:520`); the remote adopts it, sends
  it back as the request "autonomous, not moving", whose "not moving" nobody reads (`AcmApplication.cpp:586`), and a car
  that was driven by hand drives itself although nobody asked. `ManualIsStable` names these two ways, and says there is no
  third;
* the clicks `Agreed` leaves out (section 3, Rover);
* a write command within 50 ms of another one, plus delays, is dropped. The remote's task writes every 200 ms, which is the
  reason `NewestWriteInForce` holds; two tasks, as in `remote_senders`, are not so far apart.
