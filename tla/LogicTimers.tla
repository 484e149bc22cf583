---------------------------- MODULE LogicTimers ----------------------------
(***************************************************************************)
(* The smart timers of mylife-home-core-plugins-logic-timers: a component  *)
(* with three programs (services/program.ts).  A program is a sequence of  *)
(* steps, each of which sets an output, sets all of them, or waits; the    *)
(* init and cancel programs may not wait.  SmartTimerBinary and            *)
(* SmartTimerPercent differ by the values of the outputs only.             *)
(*                                                                         *)
(* Between two waits a program runs without interruption, except by what   *)
(* its outputs are bound to: a binding may call an action of the timer     *)
(* while an output step executes.  Time is counted in seconds; a timer     *)
(* fires late when the event loop is busy.                                 *)
(***************************************************************************)
EXTENDS Naturals, Sequences, SequencesExt, FiniteSets

CONSTANTS
  Outputs,          \* the outputs
  Values,           \* their values
  Initial,          \* the value they start with (false, 0)
  Sources,          \* [init, trigger, cancel]: the configurations to consider
  MaxActions,       \* bound: actions
  MaxTime,          \* bound: seconds
  MaxStalls,        \* bound: seconds during which the event loop is busy
  Reentrant         \* bindings may call back

VARIABLES
  source,           \* the configuration of the component
  outputs,          \* output -> value
  index,            \* currentStepIndex of triggerProgram, 0 when it is -1
  running,          \* the state running
  progress,         \* the state progress, in percents
  startTime,
  wait, tick,       \* when the timers of the wait step and of the progress are due, or Off
  alive,            \* the component exists
  threw,            \* history: "timer" (uncaught in a timer), "action", or "no"
  now, actions, stalls,
  quirks,           \* history: "reentrant": see SettledOutputs
  ended             \* history: what ran last to its end: "init", "trigger" or "cancel"

vars == <<source, outputs, index, running, progress, startTime, wait, tick, alive, threw, now, actions,
          stalls, quirks, ended>>

Off == MaxTime + MaxTime

(***************************************************************************)
(* Programs.                                                               *)
(***************************************************************************)
Out(o, v) == [op |-> "out", output |-> o, value |-> v]
All(v) == [op |-> "all", value |-> v]
Wait(n) == [op |-> "wait", delay |-> n]
Bad == [op |-> "bad"]

\* an invalid program falls back to the empty one
parse(src, canWait) ==
  IF \E i \in 1..Len(src) : src[i].op = "bad" \/ (src[i].op = "wait" /\ ~canWait) THEN <<>> ELSE src
initProgram == parse(source.init, FALSE)
triggerProgram == parse(source.trigger, TRUE)
cancelProgram == parse(source.cancel, FALSE)

totalWait == FoldLeft(LAMBDA n, s : IF s.op = "wait" THEN n + s.delay ELSE n, 0, triggerProgram)

execute(outs, s) ==
  CASE s.op = "out" -> [outs EXCEPT ![s.output] = s.value]
    [] s.op = "all" -> [o \in Outputs |-> s.value]
    [] s.op = "wait" -> outs
Run(outs, steps) == FoldLeft(execute, outs, steps)
Assigned(steps) ==
  {o \in Outputs : \E i \in 1..Len(steps) : steps[i].op = "all" \/ (steps[i].op = "out" /\ steps[i].output = o)}

Init ==
  /\ source \in Sources
  /\ outputs = Run([o \in Outputs |-> Initial], initProgram)
  /\ index = 0 /\ running = FALSE /\ progress = 0 /\ startTime = 0 /\ wait = Off /\ tick = Off
  /\ alive = TRUE /\ threw = "no" /\ now = 0 /\ actions = 0 /\ stalls = 0 /\ quirks = {} /\ ended = "init"

(***************************************************************************)
(* executeStep, from the step after i on: up to the next wait, or to the   *)
(* end, which resets the program.                                          *)
(***************************************************************************)
NextWait(i) ==
  LET waits == {j \in i + 1..Len(triggerProgram) : triggerProgram[j].op = "wait"}
  IN IF waits = {} THEN 0 ELSE CHOOSE j \in waits : \A k \in waits : j <= k
Segment(i) == SubSeq(triggerProgram, i + 1, IF NextWait(i) = 0 THEN Len(triggerProgram) ELSE NextWait(i) - 1)

resetKeepsTick(t) == index' = 0 /\ wait' = Off /\ tick' = t /\ startTime' = 0 /\ progress' = 0 /\ running' = FALSE
reset(t) == index' = 0 /\ wait' = Off /\ tick' = Off /\ startTime' = 0 /\ progress' = 0 /\ running' = FALSE

executeStep(i, outs, t) ==
  /\ outputs' = Run(outs, Segment(i))
  /\ IF NextWait(i) = 0
     THEN reset(t) /\ ended' = "trigger"
     ELSE /\ index' = NextWait(i) /\ running' = TRUE /\ wait' = now + triggerProgram[NextWait(i)].delay
          /\ tick' = t /\ UNCHANGED ended

(***************************************************************************)
(* An output step whose binding calls an action that has to interrupt the  *)
(* program: interrupt() throws, and so does the reset of every executeStep *)
(* on the stack.  The program stays on that step.                          *)
(***************************************************************************)
Reenter(i, outs, thrown) ==
  /\ Reentrant
  /\ \E k \in 1..Len(Segment(i)) :
       /\ outputs' = Run(outs, SubSeq(Segment(i), 1, k)) /\ outputs' # Run(outs, SubSeq(Segment(i), 1, k - 1))
       /\ index' = i + k
  /\ running' = TRUE /\ threw' = thrown /\ quirks' = quirks \cup {"reentrant"} /\ UNCHANGED ended
Stuck == index # 0 /\ triggerProgram[index].op # "wait"

(***************************************************************************)
(* The actions of the component, with the argument TRUE (FALSE is a        *)
(* no-op).  clear() interrupts a running program and runs cancelProgram.   *)
(***************************************************************************)
Act == alive /\ actions < MaxActions /\ actions' = actions + 1 /\ UNCHANGED <<source, now, stalls>>
Cleared == IF index # 0 THEN Run(outputs, cancelProgram) ELSE outputs

trigger ==
  /\ Act /\ UNCHANGED alive
  /\ IF Stuck THEN threw' = "action" /\ UNCHANGED <<outputs, index, running, progress, startTime, wait, tick, quirks, ended>>
     ELSE \/ /\ executeStep(0, Cleared, IF totalWait = 0 THEN Off ELSE now + 1)
             /\ progress' = 0 /\ startTime' = IF NextWait(0) = 0 THEN 0 ELSE now
             /\ UNCHANGED <<threw, quirks>>
          \/ /\ Reenter(0, Cleared, "action")
             /\ progress' = 0 /\ startTime' = now /\ wait' = Off /\ tick' = Off
cancel ==
  /\ Act /\ UNCHANGED alive
  /\ IF index = 0 THEN UNCHANGED <<outputs, index, running, progress, startTime, wait, tick, threw, quirks, ended>>
     ELSE IF Stuck THEN threw' = "action" /\ UNCHANGED <<outputs, index, running, progress, startTime, wait, tick, quirks, ended>>
     ELSE /\ outputs' = Cleared /\ reset(tick) /\ ended' = "cancel" /\ UNCHANGED <<threw, quirks>>
toggle == IF index # 0 THEN cancel ELSE trigger
destroy ==
  /\ Act /\ alive' = FALSE
  /\ IF index = 0 THEN UNCHANGED <<outputs, index, running, progress, startTime, wait, tick, threw, quirks, ended>>
     ELSE IF Stuck THEN threw' = "action" /\ UNCHANGED <<outputs, index, running, progress, startTime, wait, tick, quirks, ended>>
     ELSE /\ outputs' = Cleared /\ reset(tick) /\ ended' = "cancel" /\ UNCHANGED <<threw, quirks>>

(***************************************************************************)
(* The timers, in the order they are due (the wait, armed first, before    *)
(* the progress).                                                          *)
(***************************************************************************)
waitTimeout ==
  /\ wait <= now /\ wait <= tick
  /\ \/ executeStep(index, outputs, tick) /\ UNCHANGED <<threw, quirks>>
        /\ IF NextWait(index) = 0 THEN TRUE ELSE UNCHANGED <<progress, startTime>>
     \/ Reenter(index, outputs, "timer") /\ wait' = Off /\ UNCHANGED <<tick, progress, startTime>>
  /\ UNCHANGED <<source, alive, now, actions, stalls>>

\* Math.round; the state only takes 0 to 100
Percent == ((now - startTime) * 200 + totalWait) \div (2 * totalWait)
executeProgress ==
  /\ tick <= now /\ tick < wait
  /\ IF Percent > 100
     THEN threw' = "timer" /\ tick' = Off /\ UNCHANGED progress
     ELSE progress' = Percent /\ tick' = now + 1 /\ UNCHANGED threw
  /\ UNCHANGED <<source, outputs, index, running, startTime, wait, alive, now, actions, stalls, quirks, ended>>

\* a second passes: with a timer due, only when the event loop is busy
Pass ==
  /\ now < MaxTime /\ now' = now + 1
  /\ \/ wait > now /\ tick > now /\ UNCHANGED stalls
     \/ (wait <= now \/ tick <= now) /\ stalls < MaxStalls /\ stalls' = stalls + 1
  /\ UNCHANGED <<source, outputs, index, running, progress, startTime, wait, tick, alive, threw, actions, quirks, ended>>

Next == trigger \/ cancel \/ toggle \/ destroy \/ waitTimeout \/ executeProgress \/ Pass

Spec == Init /\ [][Next]_vars

(***************************************************************************)
(* Properties.                                                             *)
(***************************************************************************)
\* The timers of a program that does not run are off.
TypeOK ==
  /\ outputs \in [Outputs -> Values] /\ index \in 0..Len(triggerProgram)
  /\ running \in BOOLEAN /\ progress \in 0..100 /\ alive \in BOOLEAN
  /\ index = 0 => wait = Off /\ tick = Off /\ progress = 0
  /\ quirks \subseteq {"reentrant"} /\ ended \in {"init", "trigger", "cancel"}

\* A timer that runs waits in a wait step whose timer is armed; one that does not has the outputs of
\* the program that ended last (its own end, or the cancel program after an interruption), and no
\* timer of it is left, whatever the order of triggers, cancels and timers (program.ts run, reset;
\* clear).  It is otherwise when a binding of an output called the timer back: its program stays on
\* a step that has ended.
SettledOutputs ==
  quirks = {} =>
    /\ running = (index # 0)
    /\ index # 0 => triggerProgram[index].op = "wait" /\ wait # Off
    /\ index = 0 =>
         LET steps == CASE ended = "init" -> initProgram [] ended = "trigger" -> triggerProgram
                        [] ended = "cancel" -> cancelProgram
         IN \A o \in Assigned(steps) : outputs[o] = Run(outputs, steps)[o]

\* The progress that executeProgress computes is one the state takes (Range(0, 100), "Pourcentage du
\* programme accompli", smart-timer-binary.ts:66), so that no timer throws, as long as the timers are
\* not late and no binding calls the timer back; when the event loop stalls, the last progress may be
\* over 100 and its setter throws.
ProgressInRange == stalls = 0 /\ quirks = {} => threw # "timer"
=============================================================================
