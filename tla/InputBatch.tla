----------------------------- MODULE InputBatch -----------------------------
(***************************************************************************)
(* What an action batch means: how it is put together and checked          *)
(* (internal/input/actions.go, keys.go), whether somebody is asked first   *)
(* (internal/mcpserver/control_tools.go, internal/automation/service.go),  *)
(* and how long it takes to run (internal/input/executor.go).              *)
(*                                                                         *)
(* Times are milliseconds, and confirmation.required is on.  The reports   *)
(* an action sends and their fate are InputSession's, the proof of an      *)
(* answer Confirmation's.                                                  *)
(***************************************************************************)
EXTENDS Naturals, Integers, Sequences, FiniteSets, Functions

CONSTANTS
  Actions,      \* the actions a client may put into a batch
  Chords,       \* chords, to compare with those in a batch
  Ages,         \* how old the bound observation may be when the batch arrives
  Lags,         \* how long the link may take beyond the waits of an action
  MaxActions    \* limits.MaxActions

MaxActionsAssumption == MaxActions \in Nat \ {0}

MaxBatchDuration == 15000
MaxWaitDuration == 5000
MaxTotalWait == 10000
MaxKeyHold == 12000
KeyHold == 20
InterKey == 20
DoubleClickDelay == 100
MaxObservationAge == 30000
MaxText == 4096
MaxPath == 64
Slots == 6
Width == 5
Far == 32767

\* An action: [type, x, button, path, delta, keys, length, us, duration]: one
\* coordinate stands for both, a text is its length and whether the layout has
\* all of it, keys and path are sequences.
Pointed == {"move", "click", "double_click"}
Coordinates == Pointed \cup {"drag"}
Types == Coordinates \cup {"scroll", "keypress", "key_hold", "type", "wait",
                           "screenshot"}

ActionsAssumption ==
  /\ Actions \subseteq
       [type: Types, x: Int, button: STRING, path: Seq(Int), delta: Int,
        keys: Seq(STRING), length: Nat, us: BOOLEAN, duration: Int]
  /\ Chords \subseteq Seq(STRING) /\ Ages \subseteq Nat /\ Lags \subseteq Nat

--------------------------------------------------------------------------
(* Keys *)

\* Names by what they stand for; more than one may stand for the same.
Modifiers == [ctrl |-> "control", control |-> "control", shift |-> "shift",
              alt |-> "alt", cmd |-> "meta", super |-> "meta"]
Usages == [a |-> "A", KeyA |-> "A", b |-> "B", enter |-> "Enter",
           return |-> "Enter", numpad_enter |-> "NumpadEnter", f1 |-> "F1",
           f13 |-> "F13"]
Functional == {"F1", "F13"}
Committing == {"Enter", "NumpadEnter"} \cup Functional

Means(name) == IF name \in DOMAIN Modifiers THEN Modifiers[name] ELSE Usages[name]
KeysOf(chord) == {Means(n) : n \in Range(chord)} \ Range(Modifiers)
ModifiersOf(chord) == {Means(n) : n \in Range(chord)} \cap Range(Modifiers)
SameReport(c, d) == KeysOf(c) = KeysOf(d) /\ ModifiersOf(c) = ModifiersOf(d)

\* CompileKeyCombo: no key twice, under whatever names.
ChordCompiles(chord) ==
  /\ chord # <<>>
  /\ \A i, j \in DOMAIN chord :
       /\ chord[i] \in DOMAIN Modifiers \cup DOMAIN Usages
       /\ Means(chord[i]) = Means(chord[j]) => i = j
  /\ Cardinality(KeysOf(chord)) <= Slots

--------------------------------------------------------------------------
(* Compilation *)

Given(a) ==
  {f \in {"point", "button", "path", "delta", "keys", "text", "duration"} :
     CASE f = "point" -> a.x # 0
       [] f = "button" -> a.button # ""
       [] f = "path" -> a.path # <<>>
       [] f = "delta" -> a.delta # 0
       [] f = "keys" -> a.keys # <<>>
       [] f = "text" -> a.length # 0
       [] f = "duration" -> a.duration # 0}

\* The fields that belong to an action.
Fields(type) ==
  CASE type = "move" -> {"point"}
    [] type \in {"click", "double_click"} -> {"point", "button"}
    [] type = "drag" -> {"path", "button"}
    [] type = "scroll" -> {"delta"}
    [] type = "keypress" -> {"keys"}
    [] type = "key_hold" -> {"keys", "duration"}
    [] type = "type" -> {"text"}
    [] type = "wait" -> {"duration"}
    [] OTHER -> {}

Inside(x) == 0 <= x /\ x < Width
Buttons == {"", "left", "right", "middle", "back", "forward"}

\* What may be known of an action before it is run, an observation of that age
\* being bound to it.
ActionCompiles(a, age) ==
  /\ Given(a) \subseteq Fields(a.type)
  /\ a.type \in Coordinates => age <= MaxObservationAge
  /\ a.type \in Pointed => Inside(a.x)
  /\ a.type \in {"click", "double_click", "drag"} => a.button \in Buttons
  /\ a.type = "drag" => /\ Len(a.path) \in 2..MaxPath
                        /\ \A x \in Range(a.path) : Inside(x)
  /\ a.type = "scroll" => a.delta \in (-127..127) \ {0}
  /\ a.type \in {"keypress", "key_hold"} => ChordCompiles(a.keys)
  /\ a.type = "key_hold" => a.duration \in 1..MaxKeyHold
  /\ a.type = "type" => a.length \in 1..MaxText /\ a.us
  /\ a.type = "wait" => a.duration \in 1..MaxWaitDuration

\* Mutant of Cost: the pause after a key is forgotten.
CostOfHolding(a) ==
  CASE a.type = "double_click" -> DoubleClickDelay
    [] a.type = "keypress" -> KeyHold
    [] a.type = "key_hold" -> a.duration
    [] a.type = "type" -> a.length * KeyHold
    [] a.type = "wait" -> a.duration
    [] OTHER -> 0

\* What an action is estimated to take.
Cost(a) ==
  CASE a.type = "double_click" -> DoubleClickDelay
    [] a.type = "keypress" -> KeyHold + InterKey
    [] a.type = "key_hold" -> a.duration + InterKey
    [] a.type = "type" -> a.length * (KeyHold + InterKey)
    [] a.type = "wait" -> a.duration
    [] OTHER -> 0

\* compileBatch adds up what an action takes, action by action.
UpTo(b, Of(_)) ==
  LET sum[i \in 0..Len(b)] == IF i = 0 THEN 0 ELSE sum[i - 1] + Of(b[i]) IN sum
Total(b, Of(_)) == UpTo(b, Of)[Len(b)]

Waits(a) == IF a.type = "wait" THEN a.duration ELSE 0
Estimate(b) == Total(b, Cost)
TotalWait(b) == Total(b, Waits)

\* compileBatch: all of it, or nothing.
Compiles(b, age) ==
  /\ Len(b) \in 1..MaxActions
  /\ \A i \in DOMAIN b : /\ ActionCompiles(b[i], age)
                         /\ b[i].type = "screenshot" => i = Len(b)
  /\ TotalWait(b) <= MaxTotalWait
  /\ Estimate(b) <= MaxBatchDuration

\* Mutant of Scaled: the picture's width taken for its last column.
ScaledByWidth(x) == (x * Far + (Width \div 2)) \div Width

\* A pixel on the scale of the pointer reports, rounded.
Scaled(x) == (x * Far + ((Width - 1) \div 2)) \div (Width - 1)

--------------------------------------------------------------------------
(* Consent *)

\* Mutant of Sensitive: the modifiers are known by one of their names.
SensitiveByName(chord) ==
  Len(chord) >= 2 /\ ChordCompiles(chord) /\ Range(chord) \cap {"ctrl", "alt", "cmd"} # {}

\* Shift alone is ordinary typing.
Sensitive(chord) ==
  Len(chord) >= 2 /\ ChordCompiles(chord) /\ ModifiersOf(chord) \ {"shift"} # {}

\* Mutant of Requires: only the action after a text is looked at.
RequiresNext(b) ==
  \/ \E a \in Range(b) : \/ a.type = "key_hold"
                         \/ a.type = "type" /\ a.length > 256
                         \/ a.type = "keypress" /\ Sensitive(a.keys)
  \/ \E i \in 1..(Len(b) - 1) :
       /\ b[i].type = "type" /\ b[i + 1].type = "keypress"
       /\ ChordCompiles(b[i + 1].keys) /\ KeysOf(b[i + 1].keys) \cap Committing # {}

\* requiresInputCommit.
Requires(b) ==
  \/ \E a \in Range(b) : \/ a.type = "key_hold"
                         \/ a.type = "type" /\ a.length > 256
                         \/ a.type = "keypress" /\ Sensitive(a.keys)
  \/ /\ \E a \in Range(b) : a.type = "type"
     /\ \E a \in Range(b) : /\ a.type = "keypress" /\ ChordCompiles(a.keys)
                            /\ KeysOf(a.keys) \cap Committing # {}

\* Mutant of Writes: a batch need not begin with something to send.
WritesAtAll(b) == b # <<>>

\* validateAutomationBatch.
Writes(b) == \E a \in Range(b) : a.type \notin {"wait", "screenshot"}

--------------------------------------------------------------------------
(* A call *)

VARIABLES
  batch,   \* the actions
  age,     \* the age of the observation bound to them
  phase,   \* "write", "asked", "run", "done" or why it ended early
  asked,   \* somebody was asked, and agreed
  next,    \* the action to run
  waited,  \* how long the batch has waited by itself
  late,    \* how long the link has made it wait
  sent     \* it has sent something

vars == <<batch, age, phase, asked, next, waited, late, sent>>

Phases == {"write", "asked", "run", "done", "refused", "stale", "deadline"}

TypeOK ==
  /\ batch \in Seq(Actions) /\ Len(batch) <= MaxActions
  /\ age \in Ages /\ phase \in Phases /\ asked \in BOOLEAN /\ sent \in BOOLEAN
  /\ next \in 1..(Len(batch) + 1)
  /\ waited \in Nat /\ late \in Nat
  /\ phase = "run" => Compiles(batch, age) /\ Writes(batch)

Init ==
  /\ batch = <<>> /\ age \in Ages /\ phase = "write" /\ asked = FALSE
  /\ next = 1 /\ waited = 0 /\ late = 0 /\ sent = FALSE

Put(a) ==
  /\ phase = "write" /\ Len(batch) < MaxActions
  /\ batch' = Append(batch, a)
  /\ UNCHANGED <<age, phase, asked, next, waited, late, sent>>

\* The service's own look at the batch, and then the compiler's.
Begin == IF Writes(batch) /\ Compiles(batch, age) THEN "run" ELSE "refused"

\* A planned call: a batch that requires it is shown to somebody, whether or not
\* it will compile.
Submit ==
  /\ phase = "write"
  /\ phase' = IF Writes(batch) /\ Requires(batch) THEN "asked" ELSE Begin
  /\ UNCHANGED <<batch, age, asked, next, waited, late, sent>>

Agree ==
  /\ phase = "asked" /\ asked' = TRUE /\ phase' = Begin
  /\ UNCHANGED <<batch, age, next, waited, late, sent>>

Decline ==
  /\ phase = "asked" /\ phase' = "refused"
  /\ UNCHANGED <<batch, age, asked, next, waited, late, sent>>

\* How long the executor waits of itself in an action.
Lasts(a) ==
  CASE a.type = "double_click" -> DoubleClickDelay
    [] a.type = "keypress" -> KeyHold + InterKey
    [] a.type = "key_hold" -> a.duration
    [] a.type = "type" -> a.length * (KeyHold + InterKey)
    [] a.type = "wait" -> a.duration
    [] OTHER -> 0

\* Moves and clicks look again whether their observation is too old.
Run(lag) ==
  LET a == batch[next] IN
  /\ phase = "run" /\ next <= Len(batch)
  /\ age + waited + late <= MaxObservationAge \/ a.type \notin Pointed
  /\ waited' = waited + Lasts(a) /\ late' = late + lag
  /\ sent' = (sent \/ a.type \notin {"wait", "screenshot"})
  /\ IF waited' + late' > MaxBatchDuration
       THEN phase' = "deadline" /\ next' = next
       ELSE /\ next' = next + 1
            /\ phase' = IF next = Len(batch) THEN "done" ELSE "run"
  /\ UNCHANGED <<batch, age, asked>>

TooOld ==
  /\ phase = "run" /\ next <= Len(batch) /\ batch[next].type \in Pointed
  /\ age + waited + late > MaxObservationAge
  /\ phase' = "stale"
  /\ UNCHANGED <<batch, age, asked, next, waited, late, sent>>

Next ==
  \/ \E a \in Actions : Put(a)
  \/ Submit \/ Agree \/ Decline
  \/ \E lag \in Lags : Run(lag)
  \/ TooOld

Spec == Init /\ [][Next]_vars

--------------------------------------------------------------------------
(* Properties *)

\* The estimate by which a batch is let in (compileAction) covers what the
\* executor waits: a batch meets its own deadline only behind a slow link.
OnlyALinkIsLate == phase = "deadline" => late > 0

\* "Text followed by a commit key, function key, or sensitive modifier chord
\* requires confirmation regardless of length" (docs/design.md:300), and long
\* text and holds do: none of it is sent before somebody agreed.
AskedBefore ==
  sent /\ ~asked =>
    /\ \A i, j \in DOMAIN batch :
         i < j /\ batch[i].type = "type" /\ batch[j].type = "keypress" =>
           KeysOf(batch[j].keys) \cap Committing = {}
    /\ \A a \in Range(batch) : a.type # "key_hold" /\ a.length <= 256

\* "Case, separators, and aliases cannot change the confirmation requirement"
\* (docs/design.md:321): a chord with the same report asks the same.
AliasesAskAlike ==
  \A i \in DOMAIN batch, c \in Chords :
    /\ batch[i].type = "keypress" /\ ChordCompiles(batch[i].keys) /\ ChordCompiles(c)
    /\ SameReport(batch[i].keys, c)
    => (Requires(batch) <=> Requires([batch EXCEPT ![i].keys = c]))

\* A batch that is run to its end has crossed the send boundary: the service
\* need not record "completed without crossing" (service.go:274).
RunsCross == phase = "done" => sent

\* The pixels of a picture keep their order on the pointer's scale, its corners
\* on the corners.
PixelsKeepTheirPlace ==
  \A i, j \in DOMAIN batch :
    LET x == batch[i].x
        y == batch[j].x
    IN  phase = "run" /\ {batch[i].type, batch[j].type} \subseteq Pointed =>
          /\ Scaled(x) \in 0..Far
          /\ (x = 0 => Scaled(x) = 0) /\ (x = Width - 1 => Scaled(x) = Far)
          /\ (x < y => Scaled(x) < Scaled(y))

\* "Reset, hold, long text, commit actions, function keys, and sensitive chords
\* require confirmation" (docs/design.md:329).
FunctionKeysAsk ==
  sent /\ ~asked =>
    \A a \in Range(batch) :
      a.type = "keypress" => KeysOf(a.keys) \cap Functional = {}

\* "257 through 4096 scalar values: require action-time confirmation"
\* (docs/design.md:298), against "more than 4096: reject".
LongTextRuns ==
  asked /\ Len(batch) = 1 /\ batch[1].type = "type" /\ batch[1].us
    /\ batch[1].length <= MaxText => phase # "refused"
=============================================================================
