---------------------------- MODULE PolicyRules ----------------------------
(***************************************************************************)
(* Who may do what: the compiled policy (internal/policy), the narrowing   *)
(* of a configuration (internal/config/narrow.go), the settings that may   *)
(* be changed (internal/onboarding/settings.go), the tools the MCP server  *)
(* lists, and the checks the automation service makes when one is called   *)
(* (internal/app/automation.go, internal/automation/service.go).           *)
(*                                                                         *)
(* A runtime is loaded from a configuration file that meanwhile changes;   *)
(* control handles are opened and used under the runtime.  How a change    *)
(* is gated against the calls in flight is McpHost's, what a handle goes   *)
(* through ControlActor's, and the seal of a proof Confirmation's.         *)
(***************************************************************************)
EXTENDS Naturals, FiniteSets, Sequences

CONSTANTS
  Deployments,  \* configurations that load, as somebody may have written them
  Patches,      \* changes of settings somebody may ask for
  Constraints,  \* process constraints
  Requests      \* requests for a control handle

\* A configuration: [toolsets, tools, devices], the first two selections
\* [allow, deny], devices a function from aliases to [id, exposed, permissions,
\* takeover, idle, absolute].
IsSelection(s) == s = [allow |-> s.allow, deny |-> s.deny]
IsDevice(d) ==
  /\ d = [id |-> d.id, exposed |-> d.exposed, permissions |-> d.permissions,
          takeover |-> d.takeover, idle |-> d.idle, absolute |-> d.absolute]
  /\ d.exposed \in BOOLEAN /\ d.takeover \in BOOLEAN
  /\ d.idle \in Nat /\ d.absolute \in Nat
IsConfig(c) ==
  /\ c = [toolsets |-> c.toolsets, tools |-> c.tools, devices |-> c.devices]
  /\ IsSelection(c.toolsets) /\ IsSelection(c.tools)
  /\ c.devices = [a \in DOMAIN c.devices |-> c.devices[a]]
  /\ \A a \in DOMAIN c.devices : IsDevice(c.devices[a])

\* In place of an identity; none is empty (validate.go).
AnyDevice == "any"
NoDevice == "none"

\* A patch of no device has no settings of one.
ShapesAssumption ==
  /\ \A c \in Deployments :
       /\ IsConfig(c)
       /\ \A a \in DOMAIN c.devices : c.devices[a].id \notin {AnyDevice, NoDevice}
  /\ \A p \in Patches :
       /\ {p.input, p.exposed, p.deviceInput, p.takeover}
            \subseteq {"on", "off", "keep"}
       /\ p.idle \in Nat /\ (p.device = NoDevice => p.deviceInput = "keep")
  /\ \A r \in Requests : r.idle \in Nat /\ r.absolute \in Nat

--------------------------------------------------------------------------
(* The catalog *)

Toolsets == {"setup", "observe", "video", "input", "power", "media"}
DevicePermissions == Toolsets \ {"setup"}

ToolsOf == [
  setup   |-> {"setup", "setup_status", "get_config", "update_config"},
  observe |-> {"list_devices", "get_status", "get_capabilities", "get_operation"},
  video   |-> {"open_control", "get_control", "close_control", "observe",
               "capture_screen", "wait_for_signal"},
  input   |-> {"key_press", "key_combo", "type_text", "pointer_click",
               "pointer_move", "pointer_double_click", "pointer_drag",
               "pointer_scroll", "release_input", "run_actions"},
  power   |-> {"get_power_state", "power_action", "wake"},
  media   |-> {}]
Tools == UNION {ToolsOf[s] : s \in Toolsets}
Toolset(t) == CHOOSE s \in Toolsets : t \in ToolsOf[s]
DeviceScoped == Tools \ (ToolsOf["setup"] \cup {"list_devices"})

--------------------------------------------------------------------------
(* The policy of a configuration *)

\* An empty list of what is allowed allows everything.
Admits(selection, name) ==
  /\ name \notin selection.deny
  /\ selection.allow = {} \/ name \in selection.allow
Selected(t, s) == Admits(s.toolsets, Toolset(t)) /\ Admits(s.tools, t)

Exposed(c) == {a \in DOMAIN c.devices : c.devices[a].exposed}
IdsOf(c) == {c.devices[a].id : a \in DOMAIN c.devices}
DeviceOf(c, d) == c.devices[CHOOSE a \in Exposed(c) : c.devices[a].id = d]

\* Evaluate.  Without a device it asks whether any exposed one is permitted.
\* Nobody narrows it by a scope or makes it check what a device can do.
Allowed(c, t, d) ==
  /\ Selected(t, c)
  /\ t \in DeviceScoped =>
       \E a \in Exposed(c) :
         /\ d = AnyDevice \/ c.devices[a].id = d
         /\ Toolset(t) \in c.devices[a].permissions

ValidSelection(s) == s.allow \cup s.deny \subseteq Toolsets
Valid(c) ==
  /\ ValidSelection(c.toolsets)
  /\ \A a \in DOMAIN c.devices : LET d == c.devices[a] IN
       /\ d.permissions \subseteq DevicePermissions
       /\ 0 < d.idle /\ d.idle <= d.absolute

\* Compile.
Compiles(c) ==
  /\ Valid(c)
  /\ c.tools.allow \cup c.tools.deny \subseteq Tools
  /\ \A a, b \in Exposed(c) : c.devices[a].id = c.devices[b].id => a = b

--------------------------------------------------------------------------
(* Narrow *)

\* Constraints: [toolsetsAllow, toolsetsDeny, toolsAllow, toolsDeny,
\* devicesAllow, devicesDeny, permissions, noTakeover], where permissions is a
\* function from some aliases.
Exceeds(selection, allow) ==
  \E v \in allow :
    v \in selection.deny \/ (selection.allow # {} /\ v \notin selection.allow)

\* Mutant of NarrowSelection: what is denied is taken off the list of what is
\* allowed.
NarrowSelectionByRemoval(selection, allow, deny) ==
  [allow |-> (IF allow = {} THEN selection.allow ELSE allow) \ deny,
   deny |-> selection.deny]

NarrowSelection(selection, allow, deny) ==
  [allow |-> IF allow = {} THEN selection.allow ELSE allow,
   deny |-> selection.deny \cup deny]

NarrowDevice(c, k, a) ==
  LET d == c.devices[a] IN
  [d EXCEPT
    !.exposed = @ /\ (k.devicesAllow = {} \/ a \in k.devicesAllow)
                  /\ a \notin k.devicesDeny,
    !.permissions = IF a \in DOMAIN k.permissions THEN k.permissions[a] ELSE @,
    !.takeover = @ /\ a \notin k.noTakeover]

Narrow(c, k) ==
  [c EXCEPT
    !.toolsets = NarrowSelection(@, k.toolsetsAllow, k.toolsetsDeny),
    !.tools = NarrowSelection(@, k.toolsAllow, k.toolsDeny),
    !.devices = [a \in DOMAIN c.devices |-> NarrowDevice(c, k, a)]]

NarrowFails(c, k) ==
  \/ Exceeds(c.toolsets, k.toolsetsAllow) \/ Exceeds(c.tools, k.toolsAllow)
  \/ ~(k.devicesAllow \subseteq Exposed(c))
  \/ ~(k.devicesDeny \cup DOMAIN k.permissions \cup k.noTakeover
         \subseteq DOMAIN c.devices)
  \/ \E a \in DOMAIN k.permissions \cap DOMAIN c.devices :
       ~(k.permissions[a] \subseteq c.devices[a].permissions)
  \/ ~Valid(Narrow(c, k))

--------------------------------------------------------------------------
(* Settings *)

\* A patch: [input, device, exposed, deviceInput, takeover, idle], the device an
\* id or NoDevice, idle a duration or 0, the others "on", "off" or "keep".
Turn(now, change) == IF change = "keep" THEN now ELSE change = "on"

\* Mutant of WithInput: nothing stays denied when input is turned on.
WithInputUndenied(selection, change) ==
  CASE change = "on" ->
         [allow |-> IF selection.allow = {} THEN {}
                    ELSE selection.allow \cup {"input"},
          deny |-> {}]
    [] change = "off" -> [selection EXCEPT !.deny = @ \cup {"input"}]
    [] OTHER -> selection

WithInput(selection, change) ==
  CASE change = "on" ->
         [allow |-> IF selection.allow = {} THEN {}
                    ELSE selection.allow \cup {"input"},
          deny |-> selection.deny \ {"input"}]
    [] change = "off" -> [selection EXCEPT !.deny = @ \cup {"input"}]
    [] OTHER -> selection

ApplyDevice(d, p) ==
  [d EXCEPT
    !.exposed = Turn(@, p.exposed),
    !.permissions = CASE p.deviceInput = "on" -> @ \cup {"input"}
                      [] p.deviceInput = "off" -> @ \ {"input"}
                      [] OTHER -> @,
    !.takeover = Turn(@, p.takeover),
    !.idle = IF p.idle = 0 THEN @ ELSE p.idle]

\* A patch names a device by its id, which more than one alias may have.
Applied(c, p) ==
  [c EXCEPT
    !.toolsets = WithInput(@, p.input),
    !.devices = [a \in DOMAIN c.devices |->
      IF c.devices[a].id # p.device THEN c.devices[a]
      ELSE ApplyDevice(c.devices[a], p)]]

ApplyFails(c, p) ==
  \/ p.device = NoDevice /\ p.input = "keep"
  \/ /\ p.device # NoDevice
     /\ \/ p.device \notin IdsOf(c)
        \/ /\ p.exposed = "keep" /\ p.deviceInput = "keep"
           /\ p.takeover = "keep" /\ p.idle = 0
        \/ /\ p.deviceInput = "on"
           /\ ~Admits(WithInput(c.toolsets, p.input), "input")
  \/ ~Valid(Applied(c, p))

--------------------------------------------------------------------------
(* The process *)

VARIABLES
  deployed,  \* the configuration as it was found
  config,    \* the configuration file
  granted,   \* what somebody has turned on since: "input", or a device's input
  runtime,   \* the configuration in force
  handles,   \* the control handle of each device
  last       \* the last call that was let through

vars == <<deployed, config, granted, runtime, handles, last>>

Capabilities == {"video", "input", "power"}
CapabilityTool(capability) ==
  CASE capability = "video" -> "observe"
    [] capability = "input" -> "run_actions"
    [] capability = "power" -> "get_power_state"

NoHandle == [capabilities |-> {}, idle |-> 0, absolute |-> 0]
NoCall == [tool |-> "none", device |-> NoDevice, effects |-> {}]
Ids == IdsOf(deployed)

TypeOK ==
  /\ {deployed, runtime} \subseteq {c \in {deployed, runtime} : Compiles(c)}
  /\ Valid(config) /\ IdsOf(config) = Ids /\ IdsOf(runtime) = Ids
  /\ granted \subseteq Ids \cup {"input"}
  /\ \A d \in Ids : /\ handles[d].capabilities \subseteq Capabilities
                    /\ handles[d].idle <= handles[d].absolute
  /\ last = NoCall \/ (last.tool \in Tools /\ last.device \in Ids
                       /\ last.effects \subseteq Capabilities)

Init ==
  /\ deployed \in {c \in Deployments : Compiles(c)}
  /\ config = deployed /\ runtime = deployed /\ granted = {}
  /\ handles = [d \in Ids |-> NoHandle]
  /\ last = NoCall

\* A settings update, from the command line or through the server, checked
\* against the file it changes.
Update(p) ==
  /\ Compiles(config) /\ Allowed(config, "update_config", AnyDevice)
  /\ ~ApplyFails(config, p)
  /\ config' = Applied(config, p)
  /\ granted' = granted \cup (IF p.input = "on" THEN {"input"} ELSE {})
                        \cup (IF p.deviceInput = "on" THEN {p.device} ELSE {})
  /\ UNCHANGED <<deployed, runtime, handles, last>>

\* Mutant of Quiet: the controls are not asked.
QuietAlways == TRUE

Quiet == \A d \in Ids : handles[d] = NoHandle

\* A file that does not load leaves the runtime as it is.
Activate ==
  /\ config # runtime /\ Compiles(config) /\ Quiet
  /\ runtime' = config /\ last' = NoCall
  /\ UNCHANGED <<deployed, config, granted, handles>>

\* applySessionPolicy: what a request asks for, if the device grants it.
WithDefaults(c, r) ==
  LET d == DeviceOf(c, r.device) IN
  {q \in {[capabilities |-> r.capabilities,
           idle |-> IF r.idle = 0 THEN d.idle ELSE r.idle,
           absolute |-> IF r.absolute = 0 THEN d.absolute ELSE r.absolute]} :
     q.idle <= d.idle /\ q.absolute <= d.absolute}

\* The tool open_control is let through, and a tool for each capability.
OpenControl(r) ==
  /\ r.device \in Ids /\ handles[r.device] = NoHandle /\ r.capabilities # {}
  /\ \E a \in Exposed(runtime) : runtime.devices[a].id = r.device
  /\ Allowed(runtime, "open_control", r.device)
  /\ \A x \in r.capabilities :
       x \in Capabilities /\ Allowed(runtime, CapabilityTool(x), r.device)
  /\ DeviceOf(runtime, r.device).takeover
  /\ \E q \in WithDefaults(runtime, r) :
       q.idle <= q.absolute /\ handles' = [handles EXCEPT ![r.device] = q]
  /\ UNCHANGED <<deployed, config, granted, runtime, last>>

CloseControl(d) ==
  /\ handles[d] # NoHandle
  /\ handles' = [handles EXCEPT ![d] = NoHandle] /\ last' = NoCall
  /\ UNCHANGED <<deployed, config, granted, runtime>>

\* The tools the server registers, of those it has handlers for.
Handlers ==
  {"get_control", "observe", "capture_screen", "get_power_state", "power_action"}
    \cup (ToolsOf["input"] \ {"release_input"})

\* Mutant of Listed: every tool that has a handler is registered.
ListedAll == Handlers

Listed == {t \in Handlers : Allowed(runtime, t, AnyDevice)}

\* The tool under which the service lets the call of a handler through.
RunsAs(t) ==
  CASE t \in ToolsOf["input"] \ {"release_input"} -> "run_actions"
    [] t = "capture_screen" -> "observe"
    [] OTHER -> t

\* What a call does of its own, and what it may do besides: look after the
\* input, wake before the picture, ask for the power extension.
Purpose(t) ==
  CASE t \in ToolsOf["input"] -> {"input"}
    [] t \in {"observe", "capture_screen"} -> {"video"}
    [] t \in {"get_power_state", "power_action"} -> {"power"}
    [] OTHER -> {}
Besides(t, d) ==
  LET able(x) == x \in handles[d].capabilities
  IN  (IF t \in ToolsOf["input"] /\ able("video")
            /\ Allowed(runtime, "observe", d) THEN {"video"} ELSE {})
      \cup (IF t \in {"observe", "capture_screen"} /\ able("input")
              /\ Allowed(runtime, "run_actions", d) THEN {"input"} ELSE {})
      \cup (IF t = "get_control" /\ able("video") THEN {"video"} ELSE {})

Call(t, d) ==
  /\ t \in Listed /\ handles[d] # NoHandle
  /\ Allowed(runtime, RunsAs(t), d)
  /\ Purpose(t) \subseteq handles[d].capabilities
  /\ \E more \in SUBSET Besides(t, d) :
       last' = [tool |-> t, device |-> d, effects |-> Purpose(t) \cup more]
  /\ UNCHANGED <<deployed, config, granted, runtime, handles>>

Next ==
  \/ \E p \in Patches : Update(p)
  \/ Activate
  \/ \E r \in Requests : OpenControl(r)
  \/ \E d \in Ids : CloseControl(d) \/ \E t \in Handlers : Call(t, d)

Spec == Init /\ [][Next]_vars

--------------------------------------------------------------------------
(* Properties *)

\* "Process constraints can never grant a capability absent from the
\* deployment configuration" (narrow.go): also where an empty list means
\* everything, and whatever the settings have become.
NarrowingOnlyNarrows ==
  \A k \in Constraints : ~NarrowFails(runtime, k) =>
    LET narrowed == Narrow(runtime, k) IN
    /\ \A t \in Tools, d \in Ids \cup {AnyDevice} :
         Allowed(narrowed, t, d) => Allowed(runtime, t, d)
    /\ \A a \in Exposed(narrowed) :
         narrowed.devices[a].takeover => runtime.devices[a].takeover

\* A handle is worth what the policy in force says, however the settings were
\* changed while it was open: a change waits for the handles to close.
HandlesWithinPolicy ==
  \A d \in Ids : handles[d] # NoHandle =>
    /\ \A x \in handles[d].capabilities :
         Allowed(runtime, CapabilityTool(x), d)
    /\ LET device == DeviceOf(runtime, d) IN
         /\ device.takeover
         /\ handles[d].idle <= device.idle /\ handles[d].absolute <= device.absolute

\* "One compiled policy for both discovery and execution": a call that was let
\* through may be made under its own name on its own device, although the
\* service asks under another name; and all it did, it may do.
CallsWithinPolicy ==
  last # NoCall =>
    /\ Allowed(runtime, last.tool, last.device)
    /\ last.effects \subseteq handles[last.device].capabilities

\* Settings turn on input and nothing else, and input only where somebody
\* asked for it by name: globally, and for the device (docs/design.md:475).
OnlyInputGranted ==
  \A t \in Tools, d \in Ids : Allowed(runtime, t, d) =>
    /\ Admits(deployed.tools, t)
    /\ \/ Admits(deployed.toolsets, Toolset(t))
       \/ Toolset(t) = "input" /\ "input" \in granted
    /\ t \in DeviceScoped =>
         \/ \E a \in DOMAIN deployed.devices :
              /\ deployed.devices[a].id = d
              /\ Toolset(t) \in deployed.devices[a].permissions
         \/ Toolset(t) = "input" /\ d \in granted

\* "After controls close, the next request activates the saved revision"
\* (docs/design.md:206): what the settings save can be loaded.
SavedActivates == Compiles(config)

\* "Tool discovery and direct execution enforce the same compiled policy"
\* (docs/design.md:578): a tool the server lists can be used on some device.
ListedWorks ==
  \A t \in Listed : \E d \in Ids : Allowed(runtime, RunsAs(t), d)
=============================================================================
