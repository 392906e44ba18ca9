# SGL200 firmware: TLA+ models, model checking and proofs

This directory holds the TLA+ specifications of the SGL200 payload firmware
(`src/firmware`): a gimballed searchlight for a drone, on Zephyr RTOS, that
talks MAVLink 2 to an autopilot. All definitions are translated from the C
source; documents are quoted only where the code disagrees with them.

Paths below are relative to `src/` unless they name a module.

## 1. The system

### 1.1 Components

| Component | Source | State it keeps | Operations | Correct when |
|---|---|---|---|---|
| LED manager | `firmware/app/led_manager.c` | `fsm_state`, `last_cmd`, `tick_count`, `sos_idx`, `soft_start_step`, PWM duty, red/blue GPIO | `led_manager_init`, `led_manager_tick` (every 10 ms) | dark when disarmed; off for good after 95 °C; never brighter than the throttle allows; ramps and strobes well formed; light comes back when nothing forbids it |
| Thermal manager | `firmware/app/thermal_manager.c` | `g_thermal` (written under its lock) | `thermal_manager_init`, `thermal_manager_sample` (every 100 ms) | no emergency sample is missed by the LED manager, although the flag is not latched |
| LED and thermal threads | `firmware/app/main.c` | locals `cmd`, `thermal`, `fc_armed` | the two loops | the three separately locked reads still give the above |
| MAVLink RX handlers | `firmware/app/mavlink_agent.c` | `g_mavlink_ctx`, `g_setpoint`, `led_cmd_queue`, `ack_queue` | `handle_heartbeat`, `handle_gimbal_set_attitude`, `handle_command_long` | what is acknowledged is done |
| Receive path, parser | `mavlink_agent.c`, `firmware/lib/mavlink/mavlink2_minimal.c` | DMA buffer, `rx_ring`, `rx_avail_sem`, the parser | `uart_cb`, `mavlink_rx_run`, `mavlink2_parse_byte` | no lost wakeup, only whole frames, recovery after a loss, no write past the buffer |
| Transmit path | `mavlink_agent.c` | `tx_frame_buf`, `tx_done_sem`, `loop_count` | `mavlink_tx_run`, `mavlink_send`, `uart_cb` | HEARTBEAT cadence, bounded age of acknowledgements, one frame buffer used by one frame at a time |
| Encoders, unused messages | `mavlink2_minimal.c` | none (sequence number) | `mavlink2_encode_*` | packing only |
| Watchdog thread | `firmware/app/main.c` | `now_ms`, `last_hb`, the IWDG's counter | loop of 400 ms | IWDG fed in time; lost link gives the neutral gimbal; nothing else does |
| Startup | `firmware/app/main.c` | – | `main` | stamp and setpoint seeded before the threads run |
| Gimbal controller, PID | `firmware/app/gimbal_control.c`, `firmware/lib/pid/pid.c` | lock angles, rate setpoints, servo targets, integrators | `gimbal_angle_tick`, `gimbal_rate_tick`, `pid_compute` | servo angles inside the joints' ranges in every order of modes; LOCK holds the angle it was entered at; what an old mode or a stop leaves in an integral wears off; at rest without an IMU |
| IMU pipeline | `firmware/app/main.c`, `firmware/drivers/icm42688/icm42688.c` | `g_attitude`, semaphores `imu_data_ready` and `rate_data_ready` | interrupt, `icm42688_init`, `icm42688_read_sample`, IMU loop, control loop, angle loop | the loops use whole attitudes, miss no published one, use none that is too old, and go on without samples |
| Madgwick filter | `firmware/lib/madgwick/madgwick_ahrs.c` | quaternion | `madgwick_update`, `madgwick_get_euler` | the quaternion stays normalised |
| Feetech servo driver | `firmware/drivers/feetech/feetech_servo.c` | – | `angle_to_pos`, writing a position | the servo accepts every packet and reads a position inside the joint's range from it |
| Board, devicetree | `firmware/prj.conf`, `firmware/boards` | – | – | – |

### 1.2 How they interact

Eight preemptive threads; a smaller number is a higher priority.

| Priority | Thread | Wakes on | Reads | Writes |
|---|---|---|---|---|
| 0 | IMU | `imu_data_ready`, given by the interrupt (5 ms timeout) | sensor | `g_attitude`, `rate_data_ready` |
| 1 | control (rate loop) | `rate_data_ready` (5 ms timeout) | `g_attitude`, rate setpoints | servo targets |
| 2 | angle loop | sleep of 5 ms | `g_attitude`, `g_setpoint` | rate setpoints |
| 3 | MAVLink RX | `rx_avail_sem`, raised by `uart_cb` | `rx_ring` | `g_mavlink_ctx`, `g_setpoint`, `led_cmd_queue`, `ack_queue` |
| 4 | MAVLink TX | sleep of 250 ms | `ack_queue`, `g_mavlink_ctx`, `g_attitude` | UART |
| 5 | LED | sleep of 10 ms | `led_cmd_queue`, `g_thermal`, `g_mavlink_ctx.fc_armed` | PWM, GPIO |
| 6 | thermal | sleep of 100 ms | ADC | `g_thermal` |
| 7 | watchdog | sleep of 400 ms | clock, `g_mavlink_ctx.last_heartbeat_ms` | IWDG, `g_setpoint` |

Shared structures have a mutex each; no thread holds two at once, so there is
no lock-order deadlock. Queues are Zephyr message queues, put to and got from
with `K_NO_WAIT`, whose results the producers do not look at.

### 1.3 What is hard here

- a loop that reads shared state in several critical sections and acts on the
  combination (LED thread, watchdog thread);
- state that is not latched and must be seen before it is overwritten
  (`emergency_shutdown`);
- integers used as states (`LED_FSM_NORMAL + mode - 1`) with an unchecked mode;
- 8-bit and 32-bit counters and the 32-bit clock, which wrap;
- full queues, a full ring, a DMA buffer that is handed back only after the
  receiver stopped, bytes lost on the wire, a parser out of step;
- a wait with a timeout whose late completion is taken for the next one's, or
  whose timeout is not told from a wakeup;
- structures of several words that a thread of higher priority may rewrite while
  they are copied;
- controllers that keep integrators and measurements from mode to mode;
- fields that a truncated MAVLink payload leaves uninitialised.

`PROJECT.json` lists each of these under `hazards` at its line, with the
properties that cover it, or the reason why none does.

## 2. The modules

| Module | Models | State and actions |
|---|---|---|
| `ThermalManager` | pure part of `thermal_manager.c` | `adc_to_celsius`, thresholds, `SampledThermal` |
| `LedManager` | `led_manager.c` | the static variables under their names, the outputs `pwm` and `aux`, and `args`, the inputs of the latest call. Each branch of `led_manager_tick` is one action (`StayOff`, `EmergencyOff`, `ForceIdle`, `IdleTick`, … `UnknownTick`); together they cover every call |
| `Lamp` | what the LED manager promises | four Booleans; see 2.1 |
| `Msgq` | `k_msgq_put(…, K_NO_WAIT)` (external) | a put that drops when full |
| `MavlinkRx` | the three handlers | one operator per handler; a frame is a record of its decoded fields; a truncated frame (`full = FALSE`) may decode to anything |
| `LightControl` | RX, TX (as consumer), thermal and LED threads together | instantiates `MavlinkRx` and `LedManager`; the LED loop is four steps, one per critical section and the call |
| `LinkWatchdog` | RX and watchdog threads | instantiates `MavlinkRx`; the watchdog loop is three steps; the clock is a variable modulo `U32` |
| `MavlinkTx` | TX thread, `mavlink_send`, UART callback | the loop is five actions; time is counted in units of 50 ms |
| `MavlinkLink` | wire, DMA, `uart_cb`, ring, semaphore, RX loop, `mavlink2_parse_byte` | one action per event of the UART driver and per step of the RX loop |
| `ImuPipeline` | the data-ready interrupt, `icm42688.c`, the IMU, control and angle threads | one processor with priorities: `Runs(t)` is the guard of every step of a thread. One action per step of a loop that another thread can get between; `ClockTick` for the clock and the timeouts, `DataReady` for the interrupt, `SpiEnds` for the end of a transfer, `ImuInit` for the driver's start |
| `Gimbal` | `gimbal_control.c`, `pid.c`, the write path of `feetech_servo.c` | `WriteSetpoint` (the handler and the safe state), `OtherSetpoint` (external), `gimbal_angle_tick`, `gimbal_rate_tick`; the PID, the conversion to counts, packet and checksum as operators |
| `LedManagerProofs`, `LightControlProofs`, `LinkWatchdogProofs`, `MavlinkTxProofs`, `MavlinkLinkProofs`, `ImuPipelineProofs`, `GimbalProofs` | theorems and proofs | section 5 |
| `MC…` | instances for TLC | small sets of frames, modes, temperatures |

The threads' steps are cut where the code releases a lock or can be preempted
by a thread it shares state with. The RX handlers are single steps: only the
angle loop, which reads `g_setpoint` under its lock, could get in between.

`ImuPipeline` and `Gimbal` divide the gimbal between them: the first has the
threads, their priorities and the age of what they work with, the second what
each tick computes, with both ticks in any order and on any measurement. What
`Gimbal` shows of every order holds of the orders `ImuPipeline` allows.

Names starting with a definition's name and an underscore (as
`ThrottleFactor_NoFloor`) are mutants: plausible mistakes in that definition,
defined just before it and used nowhere. `PROJECT.json` says which property
each one breaks. They document that the property depends on the code.

### 2.1 Refinement

`Lamp` says what the LED manager promises, without states, modes and timings:
a lamp that dies when it sees the emergency temperature, is dark in every tick
without permission, and needs two permitted ticks in a row before it is lit.
`LedManager` implements it under the mapping `alive` = not in emergency off,
`permit` = the arm flag of the latest call, `critical` = its emergency flag,
`lit` = PWM, red or blue on. TLC checks `IsLamp` (run `led_valid`), and
`FsmIsLamp` proves it for every value of the timing constants.

`LightControl` in turn implements `LedManager` with the FSM's variables as they
are: the LED thread's four steps are three stutters and one tick. This is a
theorem (`ThreadsRunTheFsm`), and carries what is proved of the FSM into the
system: its threads implement `Lamp` (`SystemIsLamp`), and the heat cap, the
slope of the ramp and the strobes' shapes hold there (`OutputsHold`).

### 2.2 What is abstracted

- **Temperatures** are whole degrees, the two NTCs their maximum (the only
  value a reader uses). A reading is the temperature it stands for;
  a reading at a rail converts to 25 degrees as in the code.
- **The throttle factor** is in whole percent. The code computes in single
  precision and truncates; for whole degrees the two differ by one percent of
  brightness at most, downwards.
- **The checksum** is perfect: it fits exactly the bytes of one sent frame in
  order. The probability of a collision is not modelled. The frames are those
  with an id of `crc_extra_table`: a whole frame of any other id fails its
  checksum after its last byte and leaves the parser the same, but unhandled.
- **Modes** stop at `U8 - 2`: 255 would be the one value whose state number
  needs nine bits.
- **A frame on the transmit side** takes less than one time unit (3 ms at
  921600 baud against 50 ms), or the UART is stuck on it; `MaxStalls` bounds
  how long it is stuck in all.
- **Time in `LightControl`**: instead of a clock, `TicksPerSample` is how many
  LED ticks are completed between two thermal samples. Nominally 10; the model
  assumes only 2.
- **Time in `ImuPipeline`** goes in ticks of 1 ms, one for each sample of the
  IMU at 1 kHz; everything the threads do takes no time in itself, but the
  clock may tick before any step, so that any step may be late. `MaxBusy`
  bounds for how many ticks in a row some thread still has work, `MaxFails` how
  many SPI transfers in a row fail.
- **Attitudes and rate setpoints in `ImuPipeline`** are represented by the age
  of the sample they come from, `Never` for the zeros at the start. `g_attitude`
  has two parts, and so has the pair of rate setpoints, because they are copied
  word by word. The TX thread copies the attitude as the angle thread does,
  with a priority below all of them, and is left out.
- **`icm42688_init`** is cut at its two sleeps; each of its pieces may fail.
- **Angles and rates in `Gimbal`** are integers instead of floats, with the
  fixed `dt` of each loop folded into the units: an angle may be in any unit,
  however small, and the properties do not depend on it. What is left out is
  single-precision rounding, which can absorb an error that is tiny against
  the integral; `angle_to_pos` truncates as the code does.
- **The kernel** is external: semaphores, timeouts, priorities and priority
  inheritance follow Zephyr's as far as the code uses them.
- **Variables called "history"** in a module's declarations observe the system
  for a property and influence nothing.

## 3. What TLC checks

Twelve runs. Violations are expected where the code does not do what a document
says of it.

| Run | Config | Question | Result |
|---|---|---|---|
| `led_valid` | `LedValid.cfg` | `LedManager` with commands of the enum's modes, brightnesses up to 150 %, any inputs in any state | holds, 100,788 states |
| `light` | `Light.cfg` | RX, TX, thermal and LED threads interleaved; mode 7, which names no state, included | holds, 1,011,568 states |
| `watchdog` | `Watchdog.cfg` | every alignment of the wrapping clock, the stamp and the check | holds, 592,982 states |
| `link` | `Link.cfg` | bytes from the wire to a handled frame | holds, 1,063,804 states |
| `tx` | `Tx.cfg` | the transmit loop with stalls | holds, 198,148 states |
| `imu` | `Imu.cfg` | interrupt, IMU, control and angle threads preempting each other | holds, 607,266 states |
| `gimbal` | `Gimbal.cfg` | any setpoints, measurements and orders of the two ticks | holds, 1,607,780 states |
| `led_off` | `LedOff.cfg` | does an off command end in darkness? | no |
| `led_bad_mode` | `LedBadMode.cfg` | is emergency off caused by heat only? | no |
| `light_ack` | `LightAck.cfg` | is an accepted LED command queued? | no |
| `watchdog_race` | `WatchdogRace.cfg` | is the safe state caused by a lost link only? | no |
| `led_overdrive` | `LedOverdrive.cfg` | does the throttle hold against every command? | no |

### 3.1 `led_valid`

- `TypeOK`: every variable in its C type's range, no duty above the period.
- `HeatCap`: while it is too hot, no state, strobe phase or command drives the
  LED above the throttled command, from the very tick the heat is seen; and a
  command that is a percentage is kept to the factor's share of full power,
  also if one above 100 % came before it. At 77 °C the factor is above its
  20 % floor, at 90 °C on it. Under a command above 100 % the second part is
  false (finding 5, `ThrottleNotOverridden`).
- `RampBounded`: a soft start of a light that is asked for has steps left and
  keeps below its slope, whatever brightnesses arrive on the way, also when the
  light is stopped and started again, and when an off command had sent the FSM
  past the end of the ramp and a command for light finds it there. Under the off
  command itself it is false (finding 1).
- `SosShape`: gaps of the SOS word are dark and no element is over-long, though
  `sos_idx` is not reset on entry and `tick_count` is shared with the others.
- `PoliceColours`: red and blue never together; after the strobe they stay lit
  through a throttle and the tick that ends it, and no longer.
- `IsLamp`: the refinement.
- `LightResumes` (liveness): if from some time on the autopilot is armed, the
  LED cool, and the latest command asks for light, the FSM settles in a state
  that shows a mode. It is not left idle, ramping or throttled.

Bounds: a ramp of 3 ticks, strobes of 3 and 2 ticks, a word of 4 elements of
1 or 2 ticks, `U8 = 12`, `U32 = 7`. The code only compares, divides and counts
with these; 3 and 2 leave a first, a middle and a last tick, the counters wrap
in the middle of a phase, and a byte holds more than the ramp and more than
full brightness, as in the code. `Brightness = {6, 15}` of `FULL_PCT = 10`: 60 %,
and the 150 % that a command may say as well.

### 3.2 `light`

- `DarkSoonAfterDisarm`: two ticks after the disarming HEARTBEAT all LEDs are
  dark until the autopilot is armed again. One tick would be wrong: the tick
  under way may hold the old flag.
- `NoMissedEmergency`: an emergency sample has put the FSM in emergency off
  before the next sample can hide it.
- `EmergencyHolds`: emergency off is final.

Bounds: queues of one slot (empty, full and refused puts happen), two
ticks per sample, a ramp of two ticks, one brightness, three modes, four
readings with an open NTC among them, and full and truncated HEARTBEATs.

### 3.3 `watchdog`

- `FedInTime`: less than 1600 ms between two feedings as long as the thread
  runs at most `CheckDelay` late.
- `SafeStateReached`: after the timeout and one late check without HEARTBEAT,
  and one late check without a setpoint from elsewhere, the gimbal is neutral.
  (For silences up to 2^32 ms; after that the unsigned difference starts
  again.)
- `OnlyARaceIsSpurious`: a check that enters the safe state read a stamp that
  was too old, or a HEARTBEAT came between reading the clock and the stamp.

Bounds: timeout 6, period 2, IWDG 5 and a clock modulo 13 for 3000, 400, 1600
and 2^32 ms. Their order is kept, and late waking and late ending of a check
together are at most `CheckDelay` = 1. The clock wraps about every two timeouts,
so TLC sees all alignments of clock, stamp and check, and silences longer than
the clock.

### 3.4 `link`

- `TypeOK`: above all, the parser's buffer holds the bytes it is given,
  whatever byte it takes for a length.
- `NoSleepOnData`: the RX thread does not wait on a lowered semaphore while
  the ring holds bytes.
- `OnlyWholeFrames`: what reaches a handler arrived whole.
- `LossIsForgotten`: a frame that arrives whole is handled unless a loss (or
  an STX inside a frame while the parser may be out of step) came less than
  `MAX_FRAME_LEN` bytes before it began. In particular none is lost before the
  first loss. The bound is exact: with one byte less, this run finds a
  counterexample.
- `EveryByteParsed` (liveness): what the UART received is parsed, or did not
  fit in the ring, and the buffers drain.

Bounds: headers of two bytes, one checksum byte, payload up to one byte sent
and up to three told by a byte out of step, three frames, two bytes lost, a
ring of 3 and a DMA buffer of 4, so that both overflow within a frame or two.
Payload and checksum may look like an STX, and with the second loss the parser
can lose step again before it has recovered. `LossesForgotten` proves the property
for every number of losses and frames. The deadlock check is off because the
sender stops after `MaxFrames`.

### 3.5 `tx`

- `SendsAreSynchronous`: without a stall, no frame is written over one that is
  being sent, and `uart_tx` refuses none.
- `AckAgeBounded`: an acknowledgement is taken in the first drain after it was
  queued; it waits for one loop and the stalls in it at most.
- `HeartbeatCadence`: a HEARTBEAT is due in exactly every fourth loop, through
  the wrap of the 8-bit counter (256 is a multiple of 4; here 8 is). After a
  stall `uart_tx` may refuse it.

Bounds: three acknowledgement slots and three sent per loop. The equality of
the two numbers (four each in the code) is what `AckAgeBounded` rests on.

### 3.6 `imu`

- `CopiesAreWhole`: the attitude a loop works with is that of one sample, and
  the rate setpoints those of one angle tick.
- `NoSampleUnseen`: the rate loop does not go to sleep on a published attitude
  it has not seen, also when its timeout expires just then.
- `ServoDataIsFresh`: the age of the attitude behind a servo command is at most
  `FreshAge = (MaxFails + 1) * (SEM_TIMEOUT + MaxBusy) + MaxBusy`, that of the
  rate setpoints an angle period and a delay more, whatever interrupts are lost.
  Both bounds are reached.
- `NoTimeInvented`: both loops take each wakeup for 1 ms, so a tick too many is
  time that did not pass. Ticks in quick succession do happen: a timeout of the
  rate loop that coincides with a late wakeup of the IMU thread gives up to
  four, two of them on one attitude. They do not add up: the filter is never
  more than 2 ticks ahead of the samples, the rate loop never more than 4, however
  late the threads are. Both bounds are reached.
- `LoopsGoOn` (liveness): both control loops run for ever, also when the IMU
  thread has ended at startup or every interrupt is lost.

Bounds: the code's own timeouts and period (5, 5 and 5 ms), a processor that may be
one tick behind, one failing transfer in a row, and ages counted up to 20, one
more than the largest that a property allows. One tick of delay is enough for
every order of two threads' steps around a timeout; with one failing transfer in
a row, the old attitude is used again through a further timeout.

### 3.7 `gimbal`

- `ServoToldInRange`: each servo accepts its packet and reads a position from it
  that is inside the joint's range.
- `LockHoldsEntryAngle`: LOCK holds the angles of the angle tick that entered it,
  through any order of setpoints. (A LOCK left and entered again between two
  angle ticks is not noticed by the code, and keeps the old angle.)
- `OldModeWearsOff`: integrals are kept through every change of mode and through
  the capture of LOCK, so an axis may first be steered away from its new target.
  It is so only as far as the movement of the attitude in the tick explains, and
  what the old integral has left: the integrator's limit less all the error of
  that sign since (`Explained`; the history `astray` adds it up).
- `NoWindupAtStop`: the same of the rate loop and a servo at its stop: once the
  rate error points away from the stop, however long the servo was driven into
  it, it stays there only for one integrator limit less the errors since. The
  documents ask for back-calculation (finding 6); this says what the clamp is
  worth. Both properties are in the units of the error and hold for errors of
  any size, in exact arithmetic. For a steady rate and the code's gains (`ki` is
  a fortieth of `kp` on both axes, the limit is 10) an error above 0.25 deg/s
  leaves the stop at once.
- `StillWithoutImu`: on the zero attitude of an IMU that was never initialised
  the servos stay where they are, in every mode, unless a setpoint other than
  0 degrees comes.

Bounds: one axis (the axes share nothing but the mode and `lock_captured`; the
proofs have any set of axes), the joint limits of pitch in steps of 30 degrees
(-3 to 1; neutral is not the middle of the range), three angles and three rates,
setpoints of 0 and 1 in all five modes, gains that make every clamp bind.

### 3.8 Fairness

- `LedManager`: `WF(RepeatTick)`. The LED thread's `k_sleep` always ends, so
  the FSM is ticked for ever. Weak fairness is asked only of the tick that
  repeats the inputs of the one before and brings no command.
- `MavlinkLink`: `WF(Interrupt)`, because the UART driver reports received
  bytes at the latest after its 100 ms idle timeout and `RX_DISABLED` follows
  a stop; `WF(RxThread)`, because the thread of priority 3 is scheduled.
- `ImuPipeline`: `WF(Next)`. Time passes and the processor runs what is
  runnable; which step comes next is not chosen by fairness but by the
  priorities and by `MaxBusy`, which keeps the clock from running away from the
  threads. The interrupt may be lost every time.
- No fairness is asked of the autopilot, the operator, the sensors or the
  wire. `LightControl`, `LinkWatchdog`, `MavlinkTx` and `Gimbal` are checked for safety,
  with deadlines expressed by counting ticks and time.

## 4. Findings

1. **Off does not turn off** (`led_off`; `led_manager.c:171`, `:162`). Mode 0
   becomes state 1, soft start, which ends in itself; the light stays on with
   the step counter running past its end, unless the brightness is 0 too.
   `architecture/led-state-machine.md` says off leads to idle.
2. **A command can reach emergency off** (`led_bad_mode`;
   `mavlink_agent.c:151`). Mode 6 becomes state 7, terminal, in the cold.
3. **Accepted but dropped** (`light_ack`; `mavlink_agent.c:154`). A full LED
   queue refuses the command, the acknowledgement says accepted.
4. **Safe state on a live link** (`watchdog_race`; `main.c:253`). The clock is
   read before the stamp; a HEARTBEAT in between makes the unsigned difference
   nearly 2^32. The gimbal goes to neutral until the next setpoint.
5. **The throttle can be overridden** (`led_overdrive`; `mavlink_agent.c:152`,
   `led_manager.c:57`). A brightness above 100 is taken as it is; the pulse is
   then longer than the period, `pwm_set_dt` refuses it, and the duty of before
   stays. With 150, the ramp reaches full power, and in the throttle the LED
   keeps it as long as 150 times the factor is above 100.
6. **Clamped integral instead of back-calculation** (run `gimbal`; `pid.c:30`).
   `03-BACKLOG.md:312` and `04-ARCHITECTURE.md:72` ask for back-calculation, "not
   simple integral clamp"; `NoWindupAtStop` bounds what windup the clamp leaves.
7. **Late acknowledgements** (run `tx`; `mavlink_agent.c:221`). They wait for a
   250 ms loop where 100 ms are promised; `AckAgeBounded` bounds the wait by
   that loop, which the run reaches with an idle UART.

## 5. What is proved

With TLAPS, for every value of the constants that satisfies the modules'
assumptions: any ring, queue and pattern length, timeouts, gains, sets of frames
and so on. Each table names the invariant that makes the property inductive
where the property is not so itself.

### 5.1 The light

| Theorem | States | Argument |
|---|---|---|
| `LedManagerProofs!TypeCorrect` | `Spec => []TypeOK` | inductive as it stands; one step per action in `TickType`; `DutyNat`, `ThrottledNat`, `RampNat`, `ModBounds` for the arithmetic |
| `DisarmIsDark` | `Spec => []DarkWhenDisarmed` | a tick with the flag off forces idle or is already idle; no type needed, so it holds for modes that name nothing too |
| `EmergencyIsFinal` | `Spec => EmergencyHolds` | a step property: all other actions are guarded by `Operating` |
| `FsmIsLamp` | `Modes \subseteq 0 .. 4` implies `Spec => IsLamp` | needs `LampInv`: the idle state is dark and the FSM is idle or off after a tick without permission, with `TypeOK`; then every tick is a step of `Lamp`. Finding 2 is a counterexample without the assumption on `Modes` |
| `HeatIsCapped` | `Spec => []HeatCap` | with `TypeOK`; a hot tick ends idle, off or throttled, hence dark or at the throttled duty, or, if that is refused, at a duty no pulse above the period is below (`DutyAfter`); a percentage is never refused, and its share of full power is a chain of division bounds. No assumption on brightnesses |
| `RampIsBounded` | `Spec => []RampBounded` | inductive with `TypeOK`: into the ramp leads only the start of the light, from the dark and step 0, or an off command (`RampStep`, `ModeIsNoRamp`), and a step that stays in the ramp is below the slope wherever the counter was (`SoftStartStep`); the cast to `uint8_t` changes nothing inside it (`RampCast`). No assumption on modes or brightnesses; the invariant itself leaves out the ramp of an off command, which finding 1 is about |
| `SosIsAWord` | `Spec => []SosShape` | with `TypeOK`; only a tick of the SOS case leaves the FSM in SOS with a running count (`SosOnlyBySos`), and that tick sets or keeps the output of its own element |
| `ColoursKept` | `Spec => []PoliceColours` | the phase of a tick is 0 or 1 (`PhaseRange`), so one colour is lit; every way out of the strobe but the throttle switches off |
| `LightControlProofs!DisarmIsDark` | `Spec => []DarkSoonAfterDisarm` | needs `Dimming`: once a tick has ended disarmed, the copy of the flag that the next one acts on was taken after the disarming |
| `EmergencyIsSeen` | `Spec => []NoMissedEmergency` | needs `OnItsWay`: while an emergency sample has not reached the FSM it is still the latest one, at most one tick has ended since, and a second one under way has a copy of it. Rests on `TicksPerSample > 1` |
| `LightControlProofs!EmergencyIsFinal` | `Spec => EmergencyHolds` | the LED thread's last step is the only one that changes the FSM |
| `ThreadsRunTheFsm` | `Spec => Led!Spec`: `LightControl` implements `LedManager` | needs `GoodCopies`: what the LED thread has taken off the queue and copied is what `LedManager` lets a tick be called with. Its last step is then a step of the FSM and the others stutter, so every theorem above about the FSM holds in the system |
| `LightControlProofs!TypeCorrect` | `Spec => []TypeOK` | `GoodCopies`, `Bounds` (queues and counters) and `Dimming`; for the FSM's own variables, `ThreadsRunTheFsm` and `LedManagerProofs!TypeCorrect` |
| `SystemIsLamp` | `Modes \subseteq 0 .. 4` implies `Spec => Led!IsLamp`: the threads implement `Lamp` | `ThreadsRunTheFsm` and `FsmIsLamp`; `Led!` is the FSM inside the system |
| `OutputsHold` | `Spec => [](Led!HeatCap /\ Led!RampBounded /\ Led!SosShape /\ Led!PoliceColours)` | `ThreadsRunTheFsm` with `HeatIsCapped`, `RampIsBounded`, `SosIsAWord` and `ColoursKept`, for any 8-bit modes and brightnesses in the queue. "Hot" and "disarmed" are here what the LED thread copied; how old the copies may be is the subject of `DarkSoonAfterDisarm` and `NoMissedEmergency` |

### 5.2 The link

| Theorem | States | Argument |
|---|---|---|
| `LinkWatchdogProofs!TypeCorrect` | `Spec => []TypeOK` | inductive as it stands |
| `IwdgFed` | `Spec => []FedInTime` | needs `Fed`: the time since the feeding is bounded by the delay of the check under way, or by that and the sleep. Rests on `WATCHDOG_PERIOD + 2 * CheckDelay < IWDG_MAX` |
| `SpuriousOnlyByRace` | `Spec => []OnlyARaceIsSpurious` | needs `Timed`: modulo `U32`, the stamp is as old as the latest HEARTBEAT and the thread's copy of the clock as old as the feeding; so without a race the difference is no more than the HEARTBEAT's age |
| `LossIsNoticed` | `Spec => []SafeStateReached` | needs `Timed` and `Steered`: with a setpoint that is not neutral, either it came after the latest check or that check found the link alive, and then the HEARTBEAT is no older than the timeout and what passed since |
| `NoLostWakeup` | `Spec => []NoSleepOnData` (`MavlinkLink`) | inductive as it stands: the interrupt raises the semaphore in the step that fills the ring, the thread goes back to wait only from an empty ring |
| `BuffersHold` | `Spec => []TypeOK` | needs `Typed`: every byte under way is a byte, and a stopped UART has nothing to report. The parser takes a byte while the frame it is in is not complete, whatever length it believes |
| `NoneFromPieces` | `Spec => []OnlyWholeFrames` | needs `InTheFrame`: while the checksum can still fit, the parser's buffer is the beginning of one frame received without a gap (`InFrame`), its length is that frame's length byte (`LengthRead`), and the bytes under way are bytes of sent frames (`Begun`) of which those of one frame agree on where it ends (`Agree`). Rests on `FramesAssumption`: a frame has the length it tells |
| `LossesForgotten` | `Spec => []LossIsForgotten`: of frames with `MAX_FRAME_LEN` quiet bytes before them, not of those that follow a loss, or an STX inside a frame met out of step, more closely | needs `InTheFrame`, `Latest` (no byte under way comes after the last of its frame) and `Recovers`: a parser out of step is empty, waiting for an STX, or began with what it holds before the calm since the loss; and a frame that is being received then began less than `MAX_FRAME_LEN` bytes into the calm, and is not due. A parser in step takes each byte of the frame (`InnerByteInStep`), one out of step fills up and is empty, within `MAX_FRAME_LEN` bytes (`InnerByteOutOfStep`), and takes the first STX after that (`FirstByte`) |
| `MavlinkTxProofs!TypeCorrect` | `Spec => []TypeOK` | inductive with `Counted` |
| `CadenceKept` | `Spec => HeartbeatCadence` | needs `Counted`: the silent loops are the counter modulo `HEARTBEAT_LOOPS`, also across its wrap because that divides `U8` |
| `OneFrameAtATime` | `Spec => []SendsAreSynchronous` | needs `InStep`: before the first stall the UART is busy only while the thread waits for it, and the semaphore is up only then |
| `AcksTakenNextLoop` | `AckQueueLen <= ACKS_PER_LOOP` implies `Spec => []AckAgeBounded` | needs `Aged`: in a loop, only the acknowledgements that the rest of the drain will take may have waited through the sleep before it |

### 5.3 The gimbal

| Theorem | States | Argument |
|---|---|---|
| `ImuPipelineProofs!TypeCorrect` | `Spec => []TypeOK` | inductive as it stands |
| `WholeCopies` | `Spec => []CopiesAreWhole` | needs `Places` (the labels each thread can be at), `Excluded` (a mutex is held by who is in its section) and `Whole` (at each place of a section, which part is new and which is old). Priorities are not needed: the mutexes are enough |
| `NothingUnseen` | `Spec => []NoSampleUnseen` | needs `Announced`: an attitude not yet seen is about to be signalled, or has raised the semaphore, or the rate loop is on its way to it |
| `FreshData` | `Spec => []ServoDataIsFresh`, for every timeout, period, `MaxBusy` and `MaxFails` | needs, on top of what `WholeCopies` needs, `Timers` (who waits has at most its timeout left) and, by what each thread is doing, how old the published attitude (`FreshAttitude`), the copies of it (`FreshCopies`) and the setpoints made from them (`FreshSetpoints`) may be. Each failed transfer costs a timeout and a delay (`Spent`, `Stages`) |
| `Pace` | `SEM_TIMEOUT >= 4` implies `Spec => []NoTimeInvented` (the code has 5) | needs `FilterPace` and `RatePace`: the credit is no lower than the ticks already on their way (`Coming`: raised semaphores, loops past their wait) less the bound, and a loop that waits has got back a tick for each sample that passed since it began to. A timeout of less than four samples would let the rate loop's own timeouts take more than came back |
| `GimbalProofs!TypeCorrect` | `Spec => []TypeOK` | inductive as it stands; `PidBounds`, `ClampBounds` |
| `LockHolds` | `Spec => []LockHoldsEntryAngle` | needs `LockInv`: the flag says whether the latest tick was in LOCK |
| `StaysAtRest` | `Spec => []StillWithoutImu` | needs `AtRest`: every PID's state and every stored angle is zero; `PidAtRest` |
| `OldIntegralGoes`, `NoWindup` | `Spec => []OldModeWearsOff`, `Spec => []NoWindupAtStop` | need `AngleKept` and `RateKept`, for each axis: while its output does not go the way of the error, the integral outweighs the latest error but for the movement of the measurement (`HeldUp`, `HeldDown`), and of what the limit allows it has lost all the error of that sign since, or is on the error's side already (`Drained`, `StaysDrained`); products only through `ProductMonotone` and `SignOfProduct`. Rest on `output_limit > 0` and `JOINT_MIN < JOINT_MAX`, on no smallest error and on no other gain; arithmetic is exact, rounding is not covered |
| `ToldInRange` | `Spec => []ServoToldInRange` | the conversion keeps the order of the angles (`PositionMonotone`), two bytes are enough and the checksum is the servo's (`PacketAccepted`). Rests on `POS_MAX < 2^16` |

### 5.4 Only model-checked

- Liveness (`LightResumes`, `EveryByteParsed`, `LoopsGoOn`): liveness under
  fairness is out of the prover's reach.

Every safety property of the passing runs is proved. The new inductive
invariants were first checked with TLC, on `Imu.cfg` also with other timeouts,
delays and numbers of failing transfers.

The other way round, `ThreadsRunTheFsm` is proved and not checked by a run:
over the product of the threads, comparing each step with every FSM tick takes
TLC too long.

## 6. What is not modelled

- **Madgwick filter**: floating point without control state, out of TLC's and the
  provers' reach. `ImuPipeline` has when it runs and on which sample.
- **Encoders and frame contents**: packing of fields. PARAM_VALUE and STATUSTEXT
  have no data; `fault_queue` has no producer, so the TX loop's last part never
  runs. Sequence numbers are counted in a local copy of the context and are left out
  with the contents; the hazard list has them.
- **Servo driver**: reading a position and switching the torque are never
  called, and the initialisation only looks up a device.
- **`gimbal_reset`, `pid_reset`**: never called. Of the gimbal's modes only NEUTRAL
  and STABILIZE at zero angles can be reached from the handlers today; `Gimbal`
  has those as `WriteSetpoint`, and takes the modes and angles the controller has
  code for from an external writer, `OtherSetpoint`.
- **Startup failures** other than the IMU's: `main` logs and goes on; a missing
  IWDG channel (`wdt_channel < 0`) only skips the feeding.
- **A failing `uart_rx_enable`**: its result is ignored and nothing tries again; the
  driver's errors are outside the source.

## 7. Plan

In order; the first four were written first because they carry the functions a
user or an operator depends on.

1. *Done.* `ThermalManager`, `LedManager`, `Lamp`; then `LightControl`.
2. *Done.* `MavlinkRx`, `LinkWatchdog`.
3. *Done.* `MavlinkLink`; `MavlinkTx`.
4. *Done.* Theorems on `LedManager`, and the wakeup handshake.
5. *Done.* `ImuPipeline` and `Gimbal`: the data-ready interrupt, both semaphores
   with their timeouts, the IMU, rate and angle threads, the modes, the PIDs and
   the servo packets; their theorems.
6. `CommandPath`: `LightControl` with a history of the frames handled: a
   COMMAND_LONG for this unit is carried out or refused, also when its last
   byte is zero and the payload arrives one byte short; a strobe obeys the next
   command.
7. *Done.* Brightness above 100 % against the throttle (`led_overdrive`).
8. Proofs. *Done:* the safety properties of `LinkWatchdog`, `MavlinkTx` and
   `LightControl`, `BuffersHold`, `NoneFromPieces`, that `LightControl` implements
   `LedManager`. `LossIsForgotten`, `ServoDataIsFresh` and `NoTimeInvented` for every value of
   the constants, and the FSM's outputs in the system (`SystemIsLamp`,
   `OutputsHold`). Left: the theorems of item 6.
