-------------------------- MODULE LogicComponents --------------------------
(***************************************************************************)
(* The logic plugins of mylife-home-core-plugins-logic-base, -clim,        *)
(* -colors and -selectors: small machines whose actions the bindings call  *)
(* and whose states they listen to.  A behaviour is the life of one        *)
(* component, of a plugin chosen in Init.                                  *)
(*                                                                         *)
(* A state is assigned through the setter of ComponentHost, which throws   *)
(* for a value that is not of its type and ends the action there; `seen'   *)
(* is what the listeners of the component have been told during the last   *)
(* action, in order.  A configuration is any number: only the initial      *)
(* states are checked, when the component is made.                         *)
(***************************************************************************)
EXTENDS Integers, Sequences, SequencesExt, FiniteSets

CONSTANTS
  Percents,         \* percentages used as inputs and configuration
  Hues,             \* hues used as inputs and configuration
  Temperatures,     \* temperatures used as inputs
  Floats,           \* numbers used as inputs
  OutOfRange,       \* configured numbers that are no percentages, hues or colours
  UsedCount,        \* usedCount of BoolOr, BoolAnd and FloatAverage
  MaxPresses,       \* bound: presses of one input of a SmartInput
  MaxTime           \* bound: tenths of a second in the life of a SmartInput

VARIABLES
  plugin,
  st,               \* the states of the component and its private fields
  seen,             \* history: what the listeners saw during the last action
  threw,            \* history: the last action threw
  given,            \* history: the last argument taken of each input, or the last command
  now

vars == <<plugin, st, seen, threw, given, now>>

NaN == [nan |-> TRUE]       \* a number that is not one, and what FloatAverage starts from
Round(num, den) == (2 * num + den) \div (2 * den)
Lesser(a, b) == IF a < b THEN a ELSE b
Greater(a, b) == IF a > b THEN a ELSE b

\* the assignments of an action: the listeners of a state see the values that change it
Emits(old, values) ==
  FoldLeft(LAMBDA acc, v : IF v = acc.last THEN acc ELSE [last |-> v, out |-> Append(acc.out, v)],
           [last |-> old, out |-> <<>>], values).out
Tells(out) == seen' = out /\ threw' = FALSE
Throws == seen' = <<>> /\ threw' = TRUE

(***************************************************************************)
(* logic-base: ValuePercent.  The command given last is kept: "on", "off", *)
(* or "set" for a value that came otherwise; "mixed" once on and off had   *)
(* the same value (see ValueFollows).                                      *)
(***************************************************************************)
ValuePercentInit ==
  /\ \E t, n, f \in Percents :
       /\ st = [toggleThreshold |-> t, onValue |-> n, offValue |-> f, value |-> f]
       /\ given = IF n = f THEN "mixed" ELSE "off"

Command(s, c) == st' = s /\ given' = IF given = "mixed" \/ s.onValue = s.offValue THEN "mixed" ELSE c

setOnValue(n) == Command([st EXCEPT !.onValue = n, !.value = IF @ = st.onValue THEN n ELSE @], given)
setOffValue(n) == Command([st EXCEPT !.offValue = n, !.value = IF @ = st.offValue THEN n ELSE @], given)
toggleValue ==
  IF st.value < st.toggleThreshold
  THEN Command([st EXCEPT !.value = st.onValue], "on")
  ELSE Command([st EXCEPT !.value = st.offValue], "off")

ValuePercent ==
  /\ \/ \E v \in Percents : Command([st EXCEPT !.value = v], "set")              \* setValue
     \/ \E v \in Percents \cup {-1} :                                            \* setPulse
          IF v # -1 THEN Command([st EXCEPT !.value = v], "set") ELSE UNCHANGED <<st, given>>
     \/ Command([st EXCEPT !.value = st.onValue], "on")
     \/ Command([st EXCEPT !.value = st.offValue], "off")
     \/ toggleValue
     \/ \E v \in Percents : Command([st EXCEPT !.toggleThreshold = v], given)    \* setToggleThreshold
     \/ \E v \in Percents : setOnValue(v)
     \/ \E v \in Percents : setOffValue(v)
  /\ Tells(Emits(st.value, <<st'.value>>))

(***************************************************************************)
(* logic-base: BoolOr, BoolAnd and FloatAverage, with eight inputs of      *)
(* which usedCount are used.                                               *)
(***************************************************************************)
Inputs == 0..7
Used == {i \in Inputs : i < UsedCount}
Tried == {i \in Inputs : i <= UsedCount}      \* the unused inputs are all alike

orOf(state) == \E i \in Used : state[i]
andOf(state) == \A i \in Used : state[i]
averageOf(state) ==
  IF Used = {} \/ \E i \in Used : state[i] = NaN THEN NaN
  ELSE LET sum == FoldLeft(LAMBDA acc, i : acc + state[i - 1].n, 0, [i \in 1..UsedCount |-> i])
       IN [num |-> sum, den |-> UsedCount]
Number(n) == [n |-> n]

Same(a, b) == a = b
SameFloat(a, b) == a = b /\ a # NaN           \* NaN === NaN is false

SetInput(fn(_), same(_, _), i, arg) ==
  IF i >= UsedCount THEN UNCHANGED <<st, seen, threw>>
  ELSE LET state == [st.state EXCEPT ![i] = arg]
       IN /\ st' = [state |-> state, value |-> fn(state)]
          /\ Tells(IF same(st.value, fn(state)) THEN <<>> ELSE <<fn(state)>>)

Given(i, arg) == given' = [j \in Used |-> IF j = i THEN arg ELSE given[j]]
BoolOrSet(i, arg) == SetInput(orOf, Same, i, arg) /\ Given(i, arg)
BoolAndSet(i, arg) == SetInput(andOf, Same, i, arg) /\ Given(i, arg)
FloatAverageSet(i, arg) == SetInput(averageOf, SameFloat, i, arg) /\ Given(i, arg)

BoolOr == \E i \in Tried, arg \in BOOLEAN : BoolOrSet(i, arg)
BoolAnd == \E i \in Tried, arg \in BOOLEAN : BoolAndSet(i, arg)
FloatAverage == \E i \in Tried, arg \in {Number(n) : n \in Floats} \cup {NaN} : FloatAverageSet(i, arg)

(***************************************************************************)
(* logic-base: conversions.  The argument is kept in `given'.              *)
(***************************************************************************)
compute(min, max, arg) == Round((Lesser(Greater(arg, min), max) - min) * 100, max - min)

NotInteger == -2             \* 0 / 0, of no integer type
toNullablePercent(cfg, arg) ==
  IF arg = NaN THEN -1
  ELSE IF cfg.min = cfg.max THEN NotInteger
  ELSE IF cfg.min > cfg.max THEN 100 - compute(cfg.max, cfg.min, arg.n) ELSE compute(cfg.min, cfg.max, arg.n)

PercentToByteOf(p) == Round(p * 255, 100)
ByteToPercentOf(b) == Round(b * 100, 255)

Converts(type, v, arg) ==
  \/ v \in type /\ st' = [st EXCEPT !.value = v] /\ Tells(Emits(st.value, <<v>>)) /\ given' = arg
  \/ v \notin type /\ Throws /\ UNCHANGED <<st, given>>

FloatToNullablePercent ==
  \E arg \in {Number(n) : n \in Floats} \cup {NaN} : Converts(-1..100, toNullablePercent(st.cfg, arg), arg)
BinaryToPercent == \E arg \in BOOLEAN : Converts(0..100, IF arg THEN st.cfg.high ELSE st.cfg.low, arg)
PercentToBinary == \E arg \in 0..100 : Converts(BOOLEAN, arg >= st.cfg.threshold, arg)
PercentToByte == \E arg \in 0..100 : Converts(0..255, PercentToByteOf(arg), arg)
ByteToPercent == \E arg \in 0..255 : Converts(0..100, ByteToPercentOf(arg), arg)
BoolNot == \E arg \in BOOLEAN : Converts(BOOLEAN, ~arg, arg)

(***************************************************************************)
(* logic-base: pulses.  The value goes up and down within the action.      *)
(***************************************************************************)
StepRelay ==
  \E v \in {~st.value, TRUE, FALSE} : Converts(BOOLEAN, v, v)          \* action, on, off
SwitchToButton ==
  \E arg \in BOOLEAN :
    IF st.switch = arg THEN UNCHANGED <<st, seen, given, threw>>
    ELSE st' = [st EXCEPT !.switch = arg] /\ Tells(Emits(FALSE, <<TRUE, FALSE>>)) /\ given' = arg
BinaryToPulse ==
  \E arg \in BOOLEAN :
    /\ Tells([out |-> IF arg THEN "on" ELSE "off", values |-> Emits(FALSE, <<TRUE, FALSE>>)])
    /\ given' = arg /\ UNCHANGED st

(***************************************************************************)
(* logic-selectors: Percent.  Its step is the one of the configuration:    *)
(* the checked value is overwritten.                                       *)
(***************************************************************************)
configInt(v, min, max, default) == IF v >= min /\ v <= max THEN v ELSE default

changeValue(v) ==
  \/ v \in -1..100 /\ st' = [st EXCEPT !.value = -1] /\ Tells(Emits(st.value, <<v, -1>>))
  \/ v \notin -1..100 /\ Throws /\ UNCHANGED st

PercentSelector ==
  \/ \E v \in Percents : st' = [st EXCEPT !.loopback = v] /\ given' = v /\ Tells(<<>>)
  \/ changeValue(Lesser(st.loopback + st.step, 100)) /\ UNCHANGED given
  \/ changeValue(Greater(st.loopback - st.step, 0)) /\ UNCHANGED given
  \/ \E x \in DOMAIN st.values : changeValue(st.values[x]) /\ UNCHANGED given

(***************************************************************************)
(* logic-selectors: SmartInput over InputManager.  A press shorter than    *)
(* half a second is "s", a longer one "l"; 0.3 s after the last one the    *)
(* presses are the event to execute.  Time is in tenths of a second; the   *)
(* history keeps when the presses on the stack went down (first, and last   *)
(* when several sources press) and up, when the last press before them     *)
(* went up, and the events executed last.                                  *)
(***************************************************************************)
Never == MaxTime + MaxTime
ShortPress == 5
EndWait == 3

Pressed ==
  /\ Len(given.presses) < MaxPresses /\ UNCHANGED <<seen, threw>>
  /\ given' = [given EXCEPT !.first = IF st.lastDown = Never THEN now ELSE @]
down == Pressed /\ st' = [st EXCEPT !.endWait = Never, !.lastDown = now]

up ==
  IF st.lastDown = Never
  THEN /\ st' = [st EXCEPT !.endWait = Never, !.eventStack = <<>>]
       /\ given' = [given EXCEPT !.presses = <<>>, !.before = Never] /\ UNCHANGED <<seen, threw>>
  ELSE /\ st' = [st EXCEPT !.endWait = now + EndWait, !.lastDown = Never,
                           !.eventStack = Append(@, IF now - st.lastDown < ShortPress THEN "s" ELSE "l")]
       /\ given' = [given EXCEPT !.presses = Append(@, [first |-> given.first, down |-> st.lastDown, up |-> now])]
       /\ UNCHANGED <<seen, threw>>

\* the actions of the triggers that match pulse their output
executeEvents ==
  /\ st.endWait <= now
  /\ st' = [st EXCEPT !.eventStack = <<>>, !.endWait = Never]
  /\ Tells(IF st.eventStack \in DOMAIN st.config
           THEN [out |-> st.config[st.eventStack], values |-> Emits(FALSE, <<TRUE, FALSE>>)]
           ELSE <<>>)
  /\ given' = [given EXCEPT !.presses = <<>>, !.executed = [events |-> st.eventStack, presses |-> given.presses],
                            !.before = Last(given.presses).up]

SmartInput ==
  \/ (down \/ up \/ executeEvents) /\ UNCHANGED now
  \/ now < MaxTime /\ st.endWait > now /\ now' = now + 1 /\ UNCHANGED <<st, seen, given, threw>>

(***************************************************************************)
(* logic-clim.                                                             *)
(***************************************************************************)
computeMode(active, temperature, threshold) ==
  IF ~active THEN "off" ELSE IF temperature > threshold THEN "cool" ELSE "heat"

RecomputeEarly(s) ==
  LET mode == computeMode(st.active, s.temperature, s.threshold)
  IN st' = [s EXCEPT !.mode = mode] /\ Tells(Emits(st.mode, <<mode>>))
Recompute(s) ==
  LET mode == computeMode(s.active, s.temperature, s.threshold)
  IN st' = [s EXCEPT !.mode = mode] /\ Tells(Emits(st.mode, <<mode>>))

ModeSelector ==
  \/ \E t \in Temperatures : Recompute([st EXCEPT !.temperature = t]) /\ given' = [given EXCEPT !.temperature = t]
  \/ \E a \in BOOLEAN : Recompute([st EXCEPT !.active = a]) /\ given' = [given EXCEPT !.active = a]

TemperatureSelector ==
  \/ Converts(17..30, Lesser(st.value + 1, 30), "up")
  \/ Converts(17..30, Greater(st.value - 1, 17), "down")

Modes == {"cool", "dry", "fan-only", "heat", "heat-cool", "off"}
ModeToBool == \E arg \in Modes : Converts(BOOLEAN, arg = st.cfg.trueValue, arg)

(***************************************************************************)
(* logic-colors.  A hue is 0..255 for 0..360 degrees and starts at blue;   *)
(* the sextant of the wheel and the position in it are kept in 255ths.     *)
(***************************************************************************)
Abs(n) == IF n < 0 THEN -n ELSE n

hsv2rgb(h, c) ==
  LET x == Round(c * (255 - Abs((h % 510) - 255)), 255)
  IN CASE h \div 255 = 0 -> <<c, x, 0>>
       [] h \div 255 = 1 -> <<x, c, 0>>
       [] h \div 255 = 2 -> <<0, c, x>>
       [] h \div 255 = 3 -> <<0, x, c>>
       [] h \div 255 = 4 -> <<x, 0, c>>
       [] h \div 255 = 5 -> <<c, 0, x>>

computeRgb(white, hue, brightness) ==
  IF white THEN <<brightness, brightness, brightness>> ELSE hsv2rgb((hue * 6 + 4 * 255) % (6 * 255), brightness)

Recolor(s) == st' = [s EXCEPT !.rgb = computeRgb(s.white, s.hue, s.brightness)] /\ Tells(<<>>) /\ UNCHANGED given

HueToRgb ==
  \/ \E w \in BOOLEAN : Recolor([st EXCEPT !.white = w])
  \/ \E h \in 0..255 : Recolor([st EXCEPT !.hue = h])
  \/ \E b \in Percents : Recolor([st EXCEPT !.brightness = b])

\* setWhite(false) does nothing; setN leaves white, then takes the hue
HueSelector ==
  \/ st' = [st EXCEPT !.white = TRUE] /\ Tells(Emits(st.white, <<TRUE>>)) /\ given' = "white"
  \/ \E i \in DOMAIN st.hues :
       LET left == [st EXCEPT !.white = FALSE]
       IN \/ /\ st.hues[i] \in 0..255 /\ given' = i
             /\ st' = [left EXCEPT !.hue = st.hues[i]] /\ Tells(Emits(st.hue, <<st.hues[i]>>))
          \/ st.hues[i] \notin 0..255 /\ st' = left /\ Throws /\ UNCHANGED given
ColorSelector ==
  \E i \in DOMAIN st.colors :
    \/ /\ st.colors[i] \in 0..16777215 /\ given' = i
       /\ st' = [st EXCEPT !.color = st.colors[i]] /\ Tells(Emits(st.color, <<st.colors[i]>>))
    \/ st.colors[i] \notin 0..16777215 /\ Throws /\ UNCHANGED <<st, given>>

(***************************************************************************)
(* A component.                                                            *)
(***************************************************************************)
InitOf ==
  CASE plugin = "ValuePercent" -> ValuePercentInit
    [] plugin \in {"BoolOr", "BoolAnd"} ->
         st = [state |-> [i \in Used |-> FALSE], value |-> FALSE] /\ given = [i \in Used |-> FALSE]
    [] plugin = "FloatAverage" -> st = [state |-> [i \in Used |-> NaN], value |-> NaN] /\ given = [i \in Used |-> NaN]
    [] plugin = "FloatToNullablePercent" ->
         given = NaN /\ \E a, b \in Floats : st = [cfg |-> [min |-> a, max |-> b], value |-> -1]
    [] plugin = "BinaryToPercent" ->
         given = FALSE /\ \E l \in Percents, h \in Percents \cup OutOfRange : st = [cfg |-> [low |-> l, high |-> h], value |-> l]
    [] plugin = "PercentToBinary" ->
         given = -1 /\ \E t \in Percents : st = [cfg |-> [threshold |-> t], value |-> FALSE]
    [] plugin \in {"PercentToByte", "ByteToPercent"} -> st = [value |-> 0] /\ given = 0
    [] plugin \in {"StepRelay", "BoolNot"} -> st = [value |-> FALSE] /\ given = FALSE
    [] plugin = "SwitchToButton" -> st = [switch |-> FALSE, value |-> FALSE] /\ given = FALSE
    [] plugin = "BinaryToPulse" -> st = [off |-> FALSE, on |-> FALSE] /\ given = FALSE
    [] plugin = "PercentSelector" ->
         /\ given = 0
         /\ \E s, v \in Percents \cup OutOfRange :
              st = [values |-> [i \in 0..1 |-> configInt(IF i = 0 THEN v ELSE s, 0, 100, -1)], step |-> s, loopback |-> 0,
                    value |-> -1]
    [] plugin = "SmartInput" ->
         /\ st = [config |-> [w \in {<<"s">>, <<"l">>, <<"s", "s">>} |-> IF w = <<"l">> THEN 1 ELSE 0],
                  eventStack |-> <<>>, endWait |-> Never, lastDown |-> Never]
         /\ given = [presses |-> <<>>, first |-> Never, before |-> Never, executed |-> [events |-> <<>>, presses |-> <<>>]]
    [] plugin = "ModeSelector" ->
         /\ given = [active |-> FALSE, temperature |-> 17]
         /\ \E t \in Temperatures : st = [threshold |-> t, mode |-> "off", active |-> FALSE, temperature |-> 17]
    [] plugin = "TemperatureSelector" -> given = "none" /\ \E t \in Temperatures : st = [value |-> t]
    [] plugin = "ModeToBool" ->
         given = "none" /\ \E m \in Modes : st = [cfg |-> [trueValue |-> m], value |-> FALSE]
    [] plugin = "HueToRgb" ->
         st = [white |-> FALSE, hue |-> 0, brightness |-> 0, rgb |-> computeRgb(FALSE, 0, 0)] /\ given = 0
    [] plugin = "HueSelector" ->
         given = 0 /\ \E h \in [0..1 -> Hues \cup OutOfRange] : h[0] \in Hues /\ st = [hues |-> h, hue |-> h[0], white |-> FALSE]
    [] plugin = "ColorSelector" -> given = 0 /\ \E h \in [0..1 -> Hues \cup OutOfRange] : h[0] \in Hues /\ st = [colors |-> h, color |-> h[0]]

Plugins ==
  {"ValuePercent", "BoolOr", "BoolAnd", "FloatAverage", "FloatToNullablePercent", "BinaryToPercent", "PercentToBinary",
   "PercentToByte", "ByteToPercent", "StepRelay", "BoolNot", "SwitchToButton", "BinaryToPulse", "PercentSelector",
   "SmartInput", "ModeSelector", "TemperatureSelector", "ModeToBool", "HueToRgb", "HueSelector", "ColorSelector"}

Init == plugin \in Plugins /\ InitOf /\ seen = <<>> /\ threw = FALSE /\ now = 0

Next ==
  /\ UNCHANGED plugin
  /\ \/ plugin = "SmartInput" /\ SmartInput
     \/ /\ UNCHANGED now
        /\ \/ plugin = "ValuePercent" /\ ValuePercent
           \/ plugin = "BoolOr" /\ BoolOr
           \/ plugin = "BoolAnd" /\ BoolAnd
           \/ plugin = "FloatAverage" /\ FloatAverage
           \/ plugin = "FloatToNullablePercent" /\ FloatToNullablePercent
           \/ plugin = "BinaryToPercent" /\ BinaryToPercent
           \/ plugin = "PercentToBinary" /\ PercentToBinary
           \/ plugin = "PercentToByte" /\ PercentToByte
           \/ plugin = "ByteToPercent" /\ ByteToPercent
           \/ plugin = "StepRelay" /\ StepRelay
           \/ plugin = "BoolNot" /\ BoolNot
           \/ plugin = "SwitchToButton" /\ SwitchToButton
           \/ plugin = "BinaryToPulse" /\ BinaryToPulse
           \/ plugin = "PercentSelector" /\ PercentSelector
           \/ plugin = "ModeSelector" /\ ModeSelector
           \/ plugin = "TemperatureSelector" /\ TemperatureSelector
           \/ plugin = "ModeToBool" /\ ModeToBool
           \/ plugin = "HueToRgb" /\ HueToRgb
           \/ plugin = "HueSelector" /\ HueSelector
           \/ plugin = "ColorSelector" /\ ColorSelector

Spec == Init /\ [][Next]_vars

(***************************************************************************)
(* Properties.                                                             *)
(***************************************************************************)
\* The states have the types the plugins declare (State setter).
TypeOK ==
  /\ plugin \in {"ValuePercent", "BinaryToPercent", "ByteToPercent"} => st.value \in 0..100
  /\ plugin = "FloatToNullablePercent" => st.value \in -1..100
  /\ plugin = "PercentToByte" => st.value \in 0..255
  /\ plugin = "TemperatureSelector" => st.value \in 17..30
  /\ plugin \in {"BoolOr", "BoolAnd", "StepRelay", "BoolNot", "PercentToBinary", "ModeToBool"} => st.value \in BOOLEAN
  /\ plugin = "HueToRgb" => \A i \in 1..3 : st.rgb[i] \in 0..100
  /\ plugin = "HueSelector" => st.hue \in 0..255
  /\ plugin = "ModeSelector" => st.mode \in Modes

\* What a component computes is current after every action, whatever came before: the gates and the
\* average of the last value of each used input, the mode of the last activation and temperature; a
\* percentage survives PercentToByte and ByteToPercent; a converted number is the nearest percentage
\* of the way from min to max, upwards or downwards as "10 => 0%, 7.5 => 25%" of the description
\* has it, and 0 or 100 beyond them; a colour of full saturation has the brightness as its strongest
\* component, nothing as its weakest.
Between(a, b, n) == Lesser(a, b) <= n /\ n <= Greater(a, b)
DerivedCurrent ==
  /\ plugin = "BoolOr" => st.value = orOf(given)
  /\ plugin = "BoolAnd" /\ Used # {} => st.value = andOf(given)
  /\ plugin = "FloatAverage" => st.value = averageOf(given)
  /\ plugin = "ModeSelector" => st.mode = computeMode(given.active, given.temperature, st.threshold)
  /\ plugin = "PercentToByte" => ByteToPercentOf(st.value) = given
  /\ plugin = "FloatToNullablePercent" =>
       LET min == st.cfg.min
           max == st.cfg.max
       IN /\ (st.value = -1) = (given = NaN)
          /\ given # NaN =>
               IF Between(min, max, given.n)
               THEN 2 * Abs(st.value * (max - min) - 100 * (given.n - min)) <= Abs(max - min)
               ELSE st.value = IF Between(given.n, max, min) THEN 0 ELSE 100
  /\ plugin = "HueToRgb" => LET rgb == {st.rgb[i] : i \in 1..3}
                            IN /\ \A v \in rgb : v <= st.brightness
                               /\ st.brightness \in rgb /\ (~st.white => 0 \in rgb)

\* No action throws in the setter of a state, unless the configuration has a number its plugin
\* cannot use and does not check: equal bounds, a target out of its range, a step that is none.
\* The pulses of a Percent selector are over when the action is, also when it throws, and its
\* listeners see a percentage, then -1, or nothing.
OnlyMisconfiguredThrow ==
  /\ threw => \/ plugin = "FloatToNullablePercent" /\ st.cfg.min = st.cfg.max
              \/ plugin = "BinaryToPercent" /\ st.cfg.high \notin 0..100
              \/ plugin = "PercentSelector" /\ st.step \notin 1..100
              \/ plugin = "HueSelector" /\ \E i \in DOMAIN st.hues : st.hues[i] \notin 0..255
              \/ plugin = "ColorSelector" /\ \E i \in DOMAIN st.colors : st.colors[i] \notin 0..16777215
  /\ plugin = "PercentSelector" =>
       st.value = -1 /\ (seen # <<>> => Len(seen) = 2 /\ seen[1] \in 0..100 /\ seen[2] = -1)

\* After an on (off, or a toggle to it) a ValuePercent stays at the value of on (off), through changes of
\* that value, until another command: "Update value in case it is already onValue" (setOnValue).
\* Values of on and off that were equal once are told apart no more.
ValueFollows ==
  plugin = "ValuePercent" =>
    /\ given = "on" => st.value = st.onValue
    /\ given = "off" => st.value = st.offValue

\* A SmartInput executes whole inputs: the presses of an event are less than the end wait apart, the
\* press before them is at least the end wait away, and each is short or long as it lasted.
InputsWhole ==
  plugin = "SmartInput" =>
    LET whole(presses, before) ==
          /\ \A i \in 1..Len(presses) - 1 : presses[i + 1].first - presses[i].up <= EndWait
          /\ presses # <<>> /\ before # Never => presses[1].first - before >= EndWait
    IN /\ whole(given.presses, given.before)
       /\ Len(given.executed.events) = Len(given.executed.presses)
       /\ \A i \in 1..Len(given.executed.events) :
            (given.executed.events[i] = "s") = (given.executed.presses[i].up - given.executed.presses[i].down < ShortPress)
=============================================================================
