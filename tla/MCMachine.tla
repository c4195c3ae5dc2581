------------------------------- MODULE MCMachine -----------------------------
(* What surrounds the network: the clock and the dreams it warps, devices  *)
(* and encoders, arithmetic, telemetry, the safety monitors and the body   *)
(* model, and the slots it is saved in.  They share no variable, so a      *)
(* behaviour drives one of them.                                           *)
(*                                                                         *)
(* Rings hold a handful of entries and wrap, and arithmetic keeps eight of *)
(* its sixteen fraction bits.                                              *)
EXTENDS Persistence, Integers, Sequences, FiniteSets

CONSTANTS Fold, ClockWrap, Factors, MaxIrqs, UpdatePeriod, DreamTerm,
          DreamPause, MaxSteps,                 \* of Clock
          Plan, Outputs, FirstMotor, MaxRounds, Chars, Mask, Spacing, Ring,
          RhythmWrap, Sensors, Fields, Readings, Threshold, MinDelta, Commands,
          SensorBase, ProprioBase, InternalBase, MaxNow,
          MaxSpikes,                            \* of Devices
          Words, Bits, Contents, Sums, Slots, MaxBad, MaxMoves, RollbackAfter,
          ResetAt, MaxFlips, MaxCalls,          \* of Resilience
          Motors, Places, Feelings, Surprise, Cooldown, ManySamples,
          FewSamples, MaxSamples,               \* of Proprioception
          TraceSize, MaxEdges, Tracks, Neurons, Layer, Pauses, MaxFired,
          MaxRuns,                              \* of Telemetry
          Frac, Limit, Dim, Loads               \* of FixedPoint

\* Two sensors on each bus, and blocks of two words.
TwoBuses == <<<<"i2c", "temperature">>, <<"i2c", "pressure">>,
              <<"adc", "light">>, <<"adc", "sound">>>>
ThreeLoads == {-20000, 1000, 20000}
TwoWords == {[w \in 0 .. 1 |-> {}], [w \in 0 .. 1 |-> {0, 1}]}

ASSUME ClockAssumption ==
  /\ {Fold, ClockWrap, UpdatePeriod} \subseteq Nat \ {0}
  /\ Factors \subseteq Nat /\ {DreamTerm, DreamPause} \subseteq Nat
\* A sensor is not called None, and the neurons looked at are sensory.
ASSUME DeviceAssumption ==
  /\ Len(Plan) \in Nat /\ DOMAIN Plan = 1 .. Len(Plan)
  /\ \A k \in DOMAIN Plan : Plan[k][1] \in {"i2c", "adc"} /\ Plan[k][2] # "none"
  /\ {Outputs, FirstMotor} \subseteq Nat
\* The ranges of neurons follow each other, but for that of the commands.
ASSUME EncoderAssumption ==
  /\ {Mask, Ring, RhythmWrap, Fields} \subseteq Nat \ {0}
  /\ {SensorBase, ProprioBase, InternalBase} \subseteq Nat
  /\ Chars \cup Commands \cup Sensors \subseteq Nat /\ Readings \subseteq Int
  /\ {Spacing, MaxNow} \subseteq Nat /\ Mask <= SensorBase
  /\ \A s \in Sensors : SensorBase + s < ProprioBase
  /\ SensorBase <= ProprioBase /\ ProprioBase <= InternalBase
\* A rollback is due before a reset.
ASSUME ResilienceAssumption ==
  /\ {Words, Bits, Slots, ResetAt} \subseteq Nat \ {0}
  /\ {RollbackAfter, MaxMoves} \subseteq Nat /\ RollbackAfter < ResetAt
  /\ Contents \subseteq [0 .. Words - 1 -> SUBSET (0 .. Bits - 1)]
ASSUME BodyAssumption ==
  /\ Feelings \subseteq Int /\ {Places, Cooldown} \subseteq Nat \ {0}
  /\ {Surprise, FewSamples} \subseteq Nat
ASSUME TelemetryAssumption ==
  /\ {TraceSize, MaxEdges} \subseteq Nat \ {0} /\ Tracks \in Nat
  /\ IsFiniteSet(Neurons) /\ Neurons # {} /\ Pauses \subseteq Nat

Layered == [n \in {"n1", "n2", "n3"} |-> IF n = "n1" THEN 0 ELSE 1]

VARIABLES part,
          clockAt, irqs, flags, ticks, clockCycles, boosts, warp, clockTime,
          dreaming, last, clockCooldown, clockAsked,
          turn, wait, held, byte, busy, eoc, sensor, errors, losses, rounds,
          late, motion,
          now, lastChar, rhythm, idx, lastValue, lastRate, sent, heard,
          x, vector,
          buffer, head, tail, recording, edges, traces, traceNow, fired,
          traceSince,
          data, parity, corrected, checksum, soft, bad, failing, moves,
          synapse, alarm, answer, given, flips, run, calls,
          predicted, model, correcting, pause, corrections

C == INSTANCE Clock WITH
       Wrap <- ClockWrap, Cooldown <- DreamPause, MaxTime <- MaxSteps,
       at <- clockAt, time <- clockTime, cycles <- clockCycles,
       cooldown <- clockCooldown, asked <- clockAsked
D == INSTANCE Devices WITH Motors <- Outputs, Wrap <- RhythmWrap, MaxTime <- MaxNow
X == INSTANCE FixedPoint WITH Entries <- Loads, v <- vector
L == INSTANCE Telemetry WITH
       Size <- TraceSize,
       now <- traceNow, runs <- traces, since <- traceSince
R == INSTANCE Resilience WITH action <- answer, high <- alarm
P == INSTANCE Proprioception WITH
       Slots <- Places, active <- correcting, cooldown <- pause,
       corrected <- corrections

\* A word has a sign and a bit before its fraction, and powers of two are
\* positive, which is all that is said of them.
ASSUME WordAssumption ==
  /\ Frac \in Nat \ {0} /\ X!ONE \in Nat \ {0} /\ X!MAX \in Nat
  /\ Dim \in Nat /\ Loads \subseteq Int
\* The constants of the curves, to the accuracy their ranges ask for: ln 2 and
\* the other two factors of the polynomial of exp (in the code 0.69, 1.57 and
\* 0.59), which is below two and is shifted no further than the word is wide.
ASSUME CurveAssumption ==
  /\ Limit \in Nat /\ Limit >= 2 /\ (Limit + 2) * X!ONE <= X!MAX
  /\ X!ONE % 32 = 0 /\ X!ONE >= 64
  /\ X!LN2 \in Nat /\ X!ONE <= 2 * X!LN2 /\ 4 * X!LN2 <= 3 * X!ONE
  /\ X!LN2_2 \in Nat /\ 8 * X!LN2_2 <= 13 * X!ONE
  /\ X!LN2_3 \in Nat /\ X!LN2_3 <= X!ONE
  /\ X!PI \in Nat \ {0}
  /\ \A k \in 0 .. 2 * Limit : 2 ^ k \in Nat \ {0} /\ (k <= 2 => 2 ^ k <= 4)
  /\ \A k \in 0 .. X!Octaves(Limit * X!ONE) \div X!ONE :
       2 ^ k \in Nat \ {0} /\ 2 * X!ONE * 2 ^ k <= X!MAX + 1

clock == <<clockAt, irqs, flags, ticks, clockCycles, boosts, warp, clockTime,
           dreaming, last, clockCooldown, clockAsked>>
devices == <<turn, wait, held, byte, busy, eoc, sensor, errors, losses,
             rounds, late, motion>>
encoders == <<now, lastChar, rhythm, idx, lastValue, lastRate, sent, heard>>
arithmetic == <<x, vector>>
telemetry == <<buffer, head, tail, recording, edges, traces, traceNow, fired,
               traceSince>>
resilience == <<data, parity, corrected, checksum, soft, bad, failing, moves,
                synapse, alarm, answer, given, flips, run, calls>>
body == <<predicted, model, correcting, pause, corrections>>
machineVars == <<part, vars, clock, devices, encoders, arithmetic, telemetry,
                 resilience, body>>

MachineInit ==
  /\ part \in {"saving", "clock", "devices", "encoders", "arithmetic",
               "telemetry", "resilience", "body"}
  /\ Init /\ (part # "saving" => features = {})
  /\ C!DreamInit
  /\ D!DeviceInit
  /\ D!EncInit
  /\ X!Init
  /\ L!Init
  /\ R!ResInit
  /\ P!BodyInit

\* Only the part a behaviour drives moves.
Still ==
  /\ UNCHANGED part
  /\ part = "saving" \/ UNCHANGED vars
  /\ part = "clock" \/ UNCHANGED clock
  /\ part = "devices" \/ UNCHANGED devices
  /\ part = "encoders" \/ UNCHANGED encoders
  /\ part = "arithmetic" \/ UNCHANGED arithmetic
  /\ part = "telemetry" \/ UNCHANGED telemetry
  /\ part = "resilience" \/ UNCHANGED resilience
  /\ part = "body" \/ UNCHANGED body

MachineNext ==
  \/ part = "saving" /\ Next /\ Still
  \/ part = "clock" /\ C!DreamNext /\ Still
  \/ part = "devices" /\ D!DeviceNext /\ Still
  \/ part = "encoders" /\ D!EncNext /\ Still
  \/ part = "arithmetic" /\ X!Next /\ Still
  \/ part = "telemetry" /\ L!Next /\ Still
  \/ part = "resilience" /\ R!ResNext /\ Still
  \/ part = "body" /\ P!BodyNext /\ Still

MachineSpec == MachineInit /\ [][MachineNext]_machineVars

\* SlotsAreSound and RestoredIsNewest are Persistence's own.
\* See Clock: time is counted, and stands still in a dream.
TimeHolds ==
  part = "clock" => C!TimeIsCounted /\ C!DreamStandsStill /\ C!NeverAwake
\* See Devices and Proprioception: whose reading a spike carries,
\* and one slot and one correction of the body model at a time.
SensingHolds ==
  /\ part = "devices" => D!ReadingsAreTheirOwn
  /\ part = "encoders" => D!EncodersHold
  /\ part = "body" => P!BodyHolds
\* See FixedPoint: the curves, and what the builds agree on.
ArithmeticHolds == part = "arithmetic" => X!CurvesHold /\ X!BuildsAgree
\* See Telemetry: what the record says happened.
RecordIsTrue == part = "telemetry" => L!RecordIsTrue
\* See Resilience: what the monitors answer and repair.
MonitorsHold == R!MonitorsHold
==============================================================================
