-------------------------------- MODULE Devices --------------------------------
(***************************************************************************)
(* The sensors (io/sensors.rs) as the microcontroller build reads them:    *)
(* the waits of an I2C transaction and of an AD conversion, each of which  *)
(* gives up after a while and leaves the peripheral as it is, and the      *)
(* actuators (io/actuators.rs) that follow the motor neurons.  Below, the  *)
(* encoders (io/encoder.rs), which share no state with them.               *)
(*                                                                         *)
(* A datum is named by the register or channel it was taken from; a failed *)
(* reading is None, which the code stores as zero.  The peripherals        *)
(* themselves are external: an event may come at any time, or not at all.  *)
(***************************************************************************)
EXTENDS Integers, Sequences

CONSTANTS Plan,             \* what read_all reads: <<bus, source>> pairs, in order
          Motors,           \* neurons read_motor_outputs looks at: 16
          FirstMotor,       \* the first neuron of layer 4: 2816
          MaxRounds         \* bound: calls of read_all

VARIABLES turn,             \* entry of Plan being read, or 0
          wait,             \* the wait it is in: 0 .. 6
          held,             \* is the I2C bus held: a START without its STOP
          byte,             \* source of the byte in the I2C data register
          busy, eoc,        \* ADC: channel in conversion, channel in the DR
          sensor,           \* SensorManager's readings, by source
          errors,           \* i2c_error_count
          losses, rounds,   \* (history) failed I2C reads, calls of read_all
          late,             \* (history) has any wait given up so far
          motion            \* actuators that ever followed a motor neuron

deviceVars == <<turn, wait, held, byte, busy, eoc, sensor, errors, losses,
                rounds, late, motion>>

None == "none"
Source == {Plan[k][2] : k \in DOMAIN Plan}
Bus == Plan[turn][1]
From == Plan[turn][2]

DeviceInit ==
  /\ turn = 0 /\ wait = 0 /\ held = FALSE /\ byte = None /\ busy = None
  /\ eoc = None /\ sensor = [s \in Source |-> s] /\ errors = 0 /\ losses = 0
  /\ rounds = 0 /\ late = FALSE /\ motion = {}

\* read_all, every ten steps.  read_i2c begins with a START, read_raw by
\* choosing its channel and starting a conversion.
Begin(k) ==
  IF k > Len(Plan)
  THEN turn' = 0 /\ wait' = 0 /\ UNCHANGED <<held, busy>>
  ELSE /\ turn' = k /\ wait' = 1
       /\ IF Plan[k][1] = "i2c" THEN held' = TRUE /\ UNCHANGED busy
                                ELSE busy' = Plan[k][2] /\ UNCHANGED held

ReadAll ==
  /\ turn = 0 /\ rounds < MaxRounds /\ rounds' = rounds + 1 /\ Begin(1)
  /\ UNCHANGED <<byte, eoc, sensor, errors, losses, late, motion>>

\* SB, ADDR, TXE, SB and ADDR: five events before the byte, each answered by
\* the next write; the last of them is a STOP.
Advance ==
  /\ turn > 0 /\ Bus = "i2c" /\ wait < 6
  /\ wait' = wait + 1 /\ held' = (wait < 5)
  /\ UNCHANGED <<turn, byte, busy, eoc, sensor, errors, losses, rounds, late,
                 motion>>

\* The device answers, when the code still waits for it or after.
Answer ==
  /\ turn > 0 /\ Bus = "i2c" /\ wait = 6 /\ byte = None
  /\ byte' = From
  /\ UNCHANGED <<turn, wait, held, busy, eoc, sensor, errors, losses, rounds,
                 late, motion>>
LateAnswer ==
  /\ late /\ byte = None /\ \E s \in Source : byte' = s
  /\ UNCHANGED <<turn, wait, held, busy, eoc, sensor, errors, losses, rounds,
                 late, motion>>
Convert ==
  /\ busy # None /\ eoc' = busy /\ busy' = None
  /\ UNCHANGED <<turn, wait, held, byte, sensor, errors, losses, rounds, late,
                 motion>>

\* RXNE, or EOC: the data register is read, whatever it holds, and cleared.
TakeByte ==
  /\ turn > 0 /\ Bus = "i2c" /\ wait = 6 /\ byte # None
  /\ sensor' = [sensor EXCEPT ![From] = byte] /\ byte' = None
  /\ Begin(turn + 1)
  /\ UNCHANGED <<eoc, errors, losses, rounds, late, motion>>
TakeSample ==
  /\ turn > 0 /\ Bus = "adc" /\ eoc # None
  /\ sensor' = [sensor EXCEPT ![From] = eoc] /\ eoc' = None
  /\ Begin(turn + 1)
  /\ UNCHANGED <<byte, errors, losses, rounds, late, motion>>

\* read_sensor_i2c counts a failure; read_normalized does not, and nothing
\* ever resets the count.
Counted == IF Bus = "i2c" THEN errors + 1 ELSE errors

\* A wait has lasted too long: None, with the bus held as it is.
GiveUp ==
  /\ turn > 0
  /\ sensor' = [sensor EXCEPT ![From] = None]
  /\ errors' = Counted
  /\ losses' = IF Bus = "i2c" THEN losses + 1 ELSE losses
  /\ late' = TRUE
  /\ Begin(turn + 1)
  /\ UNCHANGED <<byte, eoc, rounds, motion>>

LayerFour(i) == i >= FirstMotor

\* read_motor_outputs: those of the first neurons that are motor neurons
\* move the actuator of the same number.
ReadMotorOutputs ==
  /\ turn = 0 /\ motion' = motion \cup {i \in 0 .. Motors - 1 : LayerFour(i)}
  /\ UNCHANGED <<turn, wait, held, byte, busy, eoc, sensor, errors, losses,
                 rounds, late>>

DeviceNext ==
  \/ ReadAll \/ Advance \/ Answer \/ LateAnswer \/ Convert
  \/ TakeByte \/ TakeSample \/ GiveUp \/ ReadMotorOutputs
-----------------------------------------------------------------------------
\* While no wait has ever given up, every stored reading is the last of its
\* own source and the bus is free between two rounds.  After a first timeout
\* neither need be true again: a late byte or sample is taken for that of
\* whoever asks next.  The failures of I2C are counted, all of them and for
\* ever.
ReadingsAreTheirOwn ==
  /\ ~late => \A s \in Source : sensor[s] = s
  /\ ~late /\ turn = 0 => ~held /\ byte = None /\ eoc = None
  /\ errors = losses
-----------------------------------------------------------------------------
(* The encoders that turn text, readings, efference copies and curiosity   *)
(* into spikes for the global queue (io/encoder.rs, ingest_spike of        *)
(* io/buffers.rs), under one dispatcher that gives each its range of       *)
(* neurons.  The queue may be full; ingest_spike says so, and no encoder   *)
(* listens.  Values are hundredths.  Time only grows here, as the code's   *)
(* unsigned differences require.                                           *)
CONSTANTS Chars, Mask,      \* characters, and how many of them differ: 128
          Spacing,          \* char_spacing: 100
          Ring, Wrap,       \* rhythm_tracker: 16; rhythm_idx, a u8: 256
          Sensors, Fields,  \* sensor ids; last_values: 16
          Readings,         \* values a sensor can have
          Threshold, MinDelta,      \* 50 and 1
          Commands,         \* motor commands, bytes
          SensorBase, ProprioBase, InternalBase,    \* 512, 768, 896
          MaxTime, MaxSpikes        \* bounds

VARIABLES now,
          lastChar, rhythm, idx,    \* TextEncoder
          lastValue,        \* SensorEncoder::last_values
          lastRate,         \* RateEncoder::last_spike_time
          sent,             \* (history) spikes encoded: source, number, value
          heard             \* (history) those of them the queue took

encVars == <<now, lastChar, rhythm, idx, lastValue, lastRate, sent, heard>>

EncInit ==
  /\ now = 0 /\ lastChar = 0 /\ idx = 0 /\ lastRate = 0
  /\ rhythm = [i \in 0 .. Ring - 1 |-> 0]
  /\ lastValue = [f \in 0 .. Fields - 1 |-> 0]
  /\ sent = <<>> /\ heard = <<>>

Tick == /\ now < MaxTime /\ now' = now + 1
        /\ UNCHANGED <<lastChar, rhythm, idx, lastValue, lastRate, sent, heard>>

\* ingest_spike: the event has a neuron, a time and a layer, but no value.
Ingest(source, n, v) ==
  /\ Len(sent) < MaxSpikes /\ sent' = Append(sent, [from |-> source, n |-> n, v |-> v])
  /\ \/ heard' = Append(heard, [from |-> source, n |-> n])
     \/ UNCHANGED heard

\* TextEncoder::encode_char.  What it keeps for the rhythm is the time since
\* what it kept before, which is a time only for the first character.
EncodeChar ==
  /\ now - lastChar >= Spacing /\ lastChar' = now
  /\ \E c \in Chars : Ingest("text", c % Mask, 100)
  /\ rhythm' = IF idx = 0 THEN [rhythm EXCEPT ![0] = now]
               ELSE [rhythm EXCEPT ![idx % Ring] = now - rhythm[(idx - 1) % Ring]]
  /\ idx' = (idx + 1) % Wrap
  /\ UNCHANGED <<now, lastValue, lastRate>>

Distance(x, y) == IF x < y THEN y - x ELSE x - y

\* Mutated form of Remembered: every change is kept, announced or not.
RememberedAlways(v, spikes) == TRUE
\* Is reading v kept as the last value.
Remembered(v, spikes) == spikes

\* SensorEncoder::encode_sensor
EncodeSensor ==
  /\ \E s \in Sensors, v \in Readings :
       LET f == s % Fields
           changed == Distance(v, lastValue[f]) >= MinDelta
           spikes == changed /\ v > Threshold
       IN /\ changed
          /\ lastValue' = IF Remembered(v, spikes)
                          THEN [lastValue EXCEPT ![f] = v] ELSE lastValue
          /\ IF spikes THEN Ingest("sensor", SensorBase + s, v)
             ELSE UNCHANGED <<sent, heard>>
  /\ UNCHANGED <<now, lastChar, rhythm, idx, lastRate>>

\* RateEncoder::encode_analog, for a neuron in nobody's range.
EncodeAnalog ==
  /\ \E v \in Readings :
       /\ now - lastRate >= 100 \div (IF v < 1 THEN 1 ELSE v)
       /\ Ingest("rate", -1, v)
  /\ lastRate' = now
  /\ UNCHANGED <<now, lastChar, rhythm, idx, lastValue>>

\* encode_efference and encode_curiosity
EncodeSelf ==
  /\ \/ \E c \in Commands : Ingest("proprio", ProprioBase + c, 100)
     \/ Ingest("internal", InternalBase, 100)
  /\ UNCHANGED <<now, lastChar, rhythm, idx, lastValue, lastRate>>

EncNext == Tick \/ EncodeChar \/ EncodeSensor \/ EncodeAnalog \/ EncodeSelf
-----------------------------------------------------------------------------
OfField(f) == {i \in DOMAIN sent : sent[i].from = "sensor"
                                   /\ (sent[i].n - SensorBase) % Fields = f}

\* The sensor encoder announces changes of what it announced, not of what it
\* read: two spikes in a row of one field always differ, although a reading
\* that fell below the threshold came between them, or another sensor that
\* shares the field, or although the first was lost in a full queue.
AnnouncementsDiffer ==
  \A f \in 0 .. Fields - 1 : \A i, j \in OfField(f) :
    i < j /\ (\A k \in OfField(f) : k <= i \/ j <= k) =>
      Distance(sent[i].v, sent[j].v) >= MinDelta

\* A spike tells its source by its neuron, but for the one motor command
\* whose neuron is that of curiosity.
NeuronsTellSources ==
  \A i, j \in DOMAIN heard :
    heard[i].n = heard[j].n /\ heard[i].from # heard[j].from =>
      heard[i].n = InternalBase
      /\ {heard[i].from, heard[j].from} = {"proprio", "internal"}

\* The rhythm never underflows although only its second entry is an
\* interval: any two in a row add up to a time at which a character came.
RhythmHolds ==
  \A i \in 0 .. Ring - 1 : rhythm[i] >= 0 /\ rhythm[i] <= lastChar

EncodersHold == AnnouncementsDiffer /\ NeuronsTellSources /\ RhythmHolds
=============================================================================
