---------------------------- MODULE ClientProofs -----------------------------
(***************************************************************************)
(* Proofs about what a client may do and what it is asked first: the       *)
(* policy in force, the handles and the calls under it, the settings that  *)
(* change it and the constraints that narrow it (PolicyRules), and batches *)
(* of input (InputBatch).  Each is proved for its own specification and    *)
(* carries over to ClientSpec, which moves one of them and leaves the      *)
(* others alone.                                                           *)
(***************************************************************************)
EXTENDS MCClient, TLAPS

Handle == [capabilities: SUBSET Capabilities, idle: Nat, absolute: Nat]

PolicyTyped ==
  /\ IsConfig(deployed) /\ IsConfig(config) /\ IsConfig(runtime)
  /\ \A a \in DOMAIN deployed.devices :
       deployed.devices[a].id \notin {AnyDevice, NoDevice}
  /\ handles \in [Ids -> Handle]

\* What the settings can make of a configuration: the same tools and devices,
\* input where somebody asked for it, and nothing else that was not there.
Widens(c, f, grants) ==
  /\ f.tools = c.tools
  /\ \A s \in Toolsets : Admits(f.toolsets, s) =>
       Admits(c.toolsets, s) \/ (s = "input" /\ "input" \in grants)
  /\ DOMAIN f.devices = DOMAIN c.devices
  /\ \A a \in DOMAIN c.devices :
       /\ f.devices[a].id = c.devices[a].id
       /\ f.devices[a].permissions \subseteq c.devices[a].permissions
            \cup (IF c.devices[a].id \in grants THEN {"input"} ELSE {})

PolicyInv ==
  /\ PolicyTyped
  /\ TypeOK
  /\ HandlesWithinPolicy
  /\ CallsWithinPolicy
  /\ Widens(deployed, config, granted)
  /\ Widens(deployed, runtime, granted)

------------------------------------------------------------------------------
(* The catalog *)

\* A tool is of one toolset.
LEMMA Disjoint ==
  ASSUME NEW s \in Toolsets, NEW r \in Toolsets, NEW t \in ToolsOf[s],
         t \in ToolsOf[r]
  PROVE  s = r
  <1>1. CASE s = "setup"
    BY <1>1 DEF Toolsets, ToolsOf
  <1>2. CASE s = "observe"
    BY <1>2 DEF Toolsets, ToolsOf
  <1>3. CASE s = "video"
    BY <1>3 DEF Toolsets, ToolsOf
  <1>4. CASE s = "input"
    BY <1>4 DEF Toolsets, ToolsOf
  <1>5. CASE s = "power"
    BY <1>5 DEF Toolsets, ToolsOf
  <1>6. CASE s = "media"
    BY <1>6 DEF Toolsets, ToolsOf
  <1> QED
    BY <1>1, <1>2, <1>3, <1>4, <1>5, <1>6 DEF Toolsets

LEMMA OfToolset ==
  ASSUME NEW s \in Toolsets, NEW t \in ToolsOf[s]
  PROVE  Toolset(t) = s /\ t \in Tools
  <1>1. Toolset(t) \in Toolsets /\ t \in ToolsOf[Toolset(t)]
    BY DEF Toolset
  <1> QED
    BY <1>1, Disjoint DEF Tools

LEMMA ToolsetsOfTools ==
  ASSUME NEW t \in Tools
  PROVE  Toolset(t) \in Toolsets /\ t \in ToolsOf[Toolset(t)]
  <1>1. PICK s \in Toolsets : t \in ToolsOf[s]
    BY DEF Tools
  <1> QED
    BY <1>1, OfToolset

\* A call is let through under a tool of its own toolset, about its own device.
LEMMA RunsAlike ==
  ASSUME NEW t \in Handlers
  PROVE  /\ t \in Tools /\ RunsAs(t) \in Tools
         /\ Toolset(RunsAs(t)) = Toolset(t) /\ RunsAs(t) \in DeviceScoped
         /\ Purpose(t) \subseteq Capabilities
  <1>1. CASE t \in ToolsOf["input"] \ {"release_input"}
    <2>1. /\ t \in ToolsOf["input"] /\ "run_actions" \in ToolsOf["input"]
          /\ "input" \in Toolsets
      BY <1>1 DEF ToolsOf, Toolsets
    <2>2. RunsAs(t) = "run_actions" /\ Purpose(t) = {"input"}
      <3>1. t \notin {"observe", "capture_screen", "get_power_state", "power_action"}
        BY <1>1 DEF ToolsOf
      <3> QED
        BY <1>1, <3>1 DEF RunsAs, Purpose
    <2>3. "run_actions" \notin ToolsOf["setup"] \cup {"list_devices"}
      BY DEF ToolsOf
    <2> QED
      BY <2>1, <2>2, <2>3, OfToolset DEF DeviceScoped, Capabilities
  <1>2. CASE t \in {"get_control", "observe", "capture_screen"}
    <2>1. /\ t \in ToolsOf["video"] /\ "observe" \in ToolsOf["video"]
          /\ "get_control" \in ToolsOf["video"] /\ "video" \in Toolsets
      BY <1>2 DEF ToolsOf, Toolsets
    <2>2. t \notin ToolsOf["input"]
      BY <1>2 DEF ToolsOf
    <2>3. RunsAs(t) \in {"observe", "get_control"} /\ Purpose(t) \subseteq {"video"}
      BY <1>2, <2>2 DEF RunsAs, Purpose
    <2>4. {"observe", "get_control"} \cap (ToolsOf["setup"] \cup {"list_devices"}) = {}
      BY DEF ToolsOf
    <2> QED
      BY <2>1, <2>3, <2>4, OfToolset DEF DeviceScoped, Capabilities
  <1>3. CASE t \in {"get_power_state", "power_action"}
    <2>1. t \in ToolsOf["power"] /\ "power" \in Toolsets
      BY <1>3 DEF ToolsOf, Toolsets
    <2>2. t \notin ToolsOf["input"]
      BY <1>3 DEF ToolsOf
    <2>3. RunsAs(t) = t /\ Purpose(t) = {"power"}
      BY <1>3, <2>2 DEF RunsAs, Purpose
    <2>4. t \notin ToolsOf["setup"] \cup {"list_devices"}
      BY <1>3 DEF ToolsOf
    <2> QED
      BY <2>1, <2>3, <2>4, OfToolset DEF DeviceScoped, Capabilities
  <1> QED
    BY <1>1, <1>2, <1>3 DEF Handlers

------------------------------------------------------------------------------
(* Narrowing *)

\* What a narrowed selection admits, the selection admits: also where an empty
\* list means everything.
LEMMA SelectionNarrows ==
  ASSUME NEW selection, NEW allow, NEW deny, NEW name,
         ~Exceeds(selection, allow),
         Admits(NarrowSelection(selection, allow, deny), name)
  PROVE  Admits(selection, name)
  BY DEF Exceeds, Admits, NarrowSelection

\* A narrowed device is exposed and taken over only if it was, with no
\* permission it had not.
LEMMA DeviceNarrows ==
  ASSUME NEW c, IsConfig(c), NEW k \in Constraints, ~NarrowFails(c, k),
         NEW a \in DOMAIN c.devices
  PROVE  /\ NarrowDevice(c, k, a).id = c.devices[a].id
         /\ NarrowDevice(c, k, a).exposed => c.devices[a].exposed
         /\ NarrowDevice(c, k, a).takeover => c.devices[a].takeover
         /\ NarrowDevice(c, k, a).permissions \subseteq c.devices[a].permissions
  <1>1. IsDevice(c.devices[a])
    BY DEF IsConfig
  <1>2. a \in DOMAIN k.permissions =>
          k.permissions[a] \subseteq c.devices[a].permissions
    BY DEF NarrowFails
  <1> QED
    BY <1>1, <1>2 DEF NarrowDevice, IsDevice

LEMMA Narrowed ==
  ASSUME NEW c, IsConfig(c), NEW k \in Constraints
  PROVE  /\ Narrow(c, k).toolsets =
              NarrowSelection(c.toolsets, k.toolsetsAllow, k.toolsetsDeny)
         /\ Narrow(c, k).tools =
              NarrowSelection(c.tools, k.toolsAllow, k.toolsDeny)
         /\ Narrow(c, k).devices =
              [a \in DOMAIN c.devices |-> NarrowDevice(c, k, a)]
  BY DEF IsConfig, Narrow

\* What a narrowed configuration allows, the configuration allows.
LEMMA NarrowingNarrows ==
  ASSUME NEW c, IsConfig(c), NEW k \in Constraints, ~NarrowFails(c, k)
  PROVE  /\ \A t, d : Allowed(Narrow(c, k), t, d) => Allowed(c, t, d)
         /\ \A a \in Exposed(Narrow(c, k)) :
              Narrow(c, k).devices[a].takeover => c.devices[a].takeover
  <1>1. PICK n : n = Narrow(c, k)
    OBVIOUS
  <1>2. /\ n.toolsets = NarrowSelection(c.toolsets, k.toolsetsAllow, k.toolsetsDeny)
        /\ n.tools = NarrowSelection(c.tools, k.toolsAllow, k.toolsDeny)
        /\ n.devices = [a \in DOMAIN c.devices |-> NarrowDevice(c, k, a)]
    BY <1>1, Narrowed
  <1>3. DOMAIN n.devices = DOMAIN c.devices
    BY <1>2
  <1>4. \A a \in DOMAIN c.devices :
          /\ n.devices[a].id = c.devices[a].id
          /\ n.devices[a].exposed => c.devices[a].exposed
          /\ n.devices[a].takeover => c.devices[a].takeover
          /\ n.devices[a].permissions \subseteq c.devices[a].permissions
    BY <1>2, DeviceNarrows
  <1>5. ~Exceeds(c.toolsets, k.toolsetsAllow) /\ ~Exceeds(c.tools, k.toolsAllow)
    BY DEF NarrowFails
  <1>6. ASSUME NEW t, Selected(t, n)
        PROVE  Selected(t, c)
    BY <1>2, <1>5, <1>6, SelectionNarrows DEF Selected
  <1>7. ASSUME NEW t, NEW d, Allowed(n, t, d)
        PROVE  Allowed(c, t, d)
    BY <1>3, <1>4, <1>6, <1>7 DEF Allowed, Exposed
  <1> QED
    BY <1>1, <1>3, <1>4, <1>7 DEF Exposed

------------------------------------------------------------------------------
(* Settings *)

\* A change turns on nothing but input, and that only if it says so.
LEMMA InputWidens ==
  ASSUME NEW selection, IsSelection(selection), NEW change \in {"on", "off", "keep"}
  PROVE  /\ IsSelection(WithInput(selection, change))
         /\ \A s : Admits(WithInput(selection, change), s) =>
              Admits(selection, s) \/ (s = "input" /\ change = "on")
  <1>1. CASE change = "on"
    <2>1. PICK x : x = IF selection.allow = {} THEN {}
                       ELSE selection.allow \cup {"input"}
      OBVIOUS
    <2>2. PICK y : y = selection.deny \ {"input"}
      OBVIOUS
    <2>3. WithInput(selection, change) = [allow |-> x, deny |-> y]
      BY <1>1, <2>1, <2>2 DEF WithInput
    <2> QED
      BY <1>1, <2>1, <2>2, <2>3 DEF Admits, IsSelection
  <1>2. CASE change = "off"
    <2>1. PICK y : y = selection.deny \cup {"input"}
      OBVIOUS
    <2>2. [selection EXCEPT !.deny = y] = [allow |-> selection.allow, deny |-> y]
      BY DEF IsSelection
    <2>3. WithInput(selection, change) = [selection EXCEPT !.deny = y]
      BY <1>2, <2>1 DEF WithInput
    <2> QED
      BY <2>1, <2>2, <2>3 DEF Admits, IsSelection
  <1>3. CASE change = "keep"
    BY <1>3 DEF WithInput
  <1> QED
    BY <1>1, <1>2, <1>3

\* The settings of a device: only its permission of input can be added.
LEMMA DeviceWidens ==
  ASSUME NEW d, IsDevice(d), NEW p \in Patches
  PROVE  /\ IsDevice(ApplyDevice(d, p)) /\ ApplyDevice(d, p).id = d.id
         /\ ApplyDevice(d, p).permissions \subseteq d.permissions
              \cup (IF p.deviceInput = "on" THEN {"input"} ELSE {})
  <1>1. /\ p.deviceInput \in {"on", "off", "keep"} /\ p.idle \in Nat
    BY ClientAssumption DEF ClientAssumption, ShapesAssumption
  <1>2. PICK e : e = Turn(d.exposed, p.exposed)
    OBVIOUS
  <1>3. PICK t : t = Turn(d.takeover, p.takeover)
    OBVIOUS
  <1>4. PICK i : i = IF p.idle = 0 THEN d.idle ELSE p.idle
    OBVIOUS
  <1>5. e \in BOOLEAN /\ t \in BOOLEAN /\ i \in Nat
    BY <1>1, <1>2, <1>3, <1>4 DEF Turn, IsDevice
  <1>6. PICK m : m = CASE p.deviceInput = "on" -> d.permissions \cup {"input"}
                       [] p.deviceInput = "off" -> d.permissions \ {"input"}
                       [] OTHER -> d.permissions
    OBVIOUS
  <1>7. m \subseteq d.permissions
              \cup (IF p.deviceInput = "on" THEN {"input"} ELSE {})
    BY <1>1, <1>6
  <1>8. PICK x : x = [id |-> d.id, exposed |-> e, permissions |-> m,
                      takeover |-> t, idle |-> i, absolute |-> d.absolute]
    OBVIOUS
  <1>9. /\ x.id = d.id /\ x.exposed = e /\ x.permissions = m /\ x.takeover = t
        /\ x.idle = i /\ x.absolute = d.absolute
    BY <1>8
  <1>10. IsDevice(x)
    BY <1>5, <1>8, <1>9 DEF IsDevice
  <1>11. ApplyDevice(d, p) = x
    <2>1. ApplyDevice(d, p) =
            [d EXCEPT !.exposed = e, !.permissions = m, !.takeover = t, !.idle = i]
      BY <1>2, <1>3, <1>4, <1>6 DEF IsDevice, ApplyDevice
    <2> QED
      BY <1>8, <2>1 DEF IsDevice
  <1> QED
    BY <1>7, <1>9, <1>10, <1>11

LEMMA SettingsWiden ==
  ASSUME NEW c, IsConfig(c), NEW p \in Patches
  PROVE  /\ IsConfig(Applied(c, p))
         /\ Applied(c, p).tools = c.tools
         /\ \A s : Admits(Applied(c, p).toolsets, s) =>
              Admits(c.toolsets, s) \/ (s = "input" /\ p.input = "on")
         /\ DOMAIN Applied(c, p).devices = DOMAIN c.devices
         /\ \A a \in DOMAIN c.devices :
              /\ Applied(c, p).devices[a].id = c.devices[a].id
              /\ Applied(c, p).devices[a].permissions \subseteq
                   c.devices[a].permissions
                     \cup (IF p.deviceInput = "on" /\ c.devices[a].id = p.device
                             THEN {"input"} ELSE {})
  <1>1. p.input \in {"on", "off", "keep"}
    BY ClientAssumption DEF ClientAssumption, ShapesAssumption
  <1>2. PICK w : w = WithInput(c.toolsets, p.input)
    OBVIOUS
  <1>3. IsSelection(w) /\ \A s : Admits(w, s) =>
          Admits(c.toolsets, s) \/ (s = "input" /\ p.input = "on")
    BY <1>1, <1>2, InputWidens DEF IsConfig
  <1> DEFINE Set(a) == IF c.devices[a].id # p.device THEN c.devices[a]
                       ELSE ApplyDevice(c.devices[a], p)
  <1>4. ASSUME NEW a \in DOMAIN c.devices
        PROVE  /\ IsDevice(Set(a)) /\ Set(a).id = c.devices[a].id
               /\ Set(a).permissions \subseteq c.devices[a].permissions
                    \cup (IF p.deviceInput = "on" /\ c.devices[a].id = p.device
                            THEN {"input"} ELSE {})
    <2>1. IsDevice(c.devices[a])
      BY DEF IsConfig
    <2>2. CASE c.devices[a].id # p.device
      BY <2>1, <2>2
    <2>3. CASE c.devices[a].id = p.device
      BY <2>1, <2>3, DeviceWidens
    <2> QED
      BY <2>2, <2>3
  <1> HIDE DEF Set
  <1>5. PICK f : f = [a \in DOMAIN c.devices |-> Set(a)]
    OBVIOUS
  <1>6. Applied(c, p) = [toolsets |-> w, tools |-> c.tools, devices |-> f]
    <2>1. Applied(c, p) = [c EXCEPT !.toolsets = w, !.devices = f]
      BY <1>2, <1>5 DEF Applied, Set, IsConfig
    <2> QED
      BY <2>1 DEF IsConfig
  <1> QED
    BY <1>3, <1>4, <1>5, <1>6 DEF IsConfig

------------------------------------------------------------------------------
(* The process *)

\* What is turned on stays granted.
LEMMA WidensMore ==
  ASSUME NEW c, NEW f, NEW grants, NEW more, grants \subseteq more,
         Widens(c, f, grants)
  PROVE  Widens(c, f, more)
  BY DEF Widens

LEMMA WidensIds ==
  ASSUME NEW c, NEW f, NEW grants, Widens(c, f, grants)
  PROVE  IdsOf(f) = IdsOf(c)
  BY DEF Widens, IdsOf

LEMMA PolicyParts ==
  ASSUME PolicyInv
  PROVE  /\ PolicyTyped /\ TypeOK /\ HandlesWithinPolicy /\ CallsWithinPolicy
         /\ Widens(deployed, config, granted) /\ Widens(deployed, runtime, granted)
         /\ IsConfig(deployed) /\ IsConfig(config) /\ IsConfig(runtime)
         /\ handles \in [Ids -> Handle]
         /\ Compiles(deployed) /\ Compiles(runtime) /\ Valid(config)
         /\ IdsOf(config) = Ids /\ IdsOf(runtime) = Ids
         /\ granted \subseteq Ids \cup {"input"}
  BY DEF PolicyInv, PolicyTyped, TypeOK

LEMMA UpdateKeeps ==
  ASSUME PolicyInv, NEW p \in Patches, Update(p)
  PROVE  PolicyInv'
  <1>1. /\ config' = Applied(config, p) /\ ~ApplyFails(config, p)
        /\ granted' = granted \cup (IF p.input = "on" THEN {"input"} ELSE {})
                      \cup (IF p.deviceInput = "on" THEN {p.device} ELSE {})
        /\ UNCHANGED <<deployed, runtime, handles, last>>
    BY DEF Update
  <1>2. PICK n : n = Applied(config, p)
    OBVIOUS
  <1>3. /\ IsConfig(n) /\ n.tools = config.tools
        /\ \A s : Admits(n.toolsets, s) =>
             Admits(config.toolsets, s) \/ (s = "input" /\ p.input = "on")
        /\ DOMAIN n.devices = DOMAIN config.devices
        /\ \A a \in DOMAIN config.devices :
             /\ n.devices[a].id = config.devices[a].id
             /\ n.devices[a].permissions \subseteq config.devices[a].permissions
                  \cup (IF p.deviceInput = "on" /\ config.devices[a].id = p.device
                          THEN {"input"} ELSE {})
    BY <1>2, PolicyParts, SettingsWiden, ZenonT(40)
  <1>4. Widens(deployed, n, granted')
    BY <1>1, <1>3, PolicyParts DEF Widens
  <1>5. Widens(deployed, runtime, granted')
    BY <1>1, PolicyParts, WidensMore
  <1>6. Ids' = Ids
    BY <1>1 DEF Ids
  <1>7. granted' \subseteq Ids \cup {"input"}
    <2>1. p.deviceInput = "on" => p.device \in Ids
      <3>1. p.deviceInput = "on" => p.device # NoDevice
        BY ClientAssumption DEF ClientAssumption, ShapesAssumption
      <3> QED
        BY <1>1, <3>1, PolicyParts DEF ApplyFails
    <2> QED
      BY <1>1, <2>1, PolicyParts
  <1>8. Valid(n)
    BY <1>1, <1>2 DEF ApplyFails
  <1>9. TypeOK'
    <2>1. IdsOf(n) = Ids
      BY <1>4, WidensIds DEF Ids
    <2> QED
      BY <1>1, <1>2, <1>6, <1>7, <1>8, <2>1, PolicyParts DEF TypeOK
  <1>10. PolicyTyped'
    BY <1>1, <1>2, <1>3, <1>6, PolicyParts DEF PolicyTyped
  <1>11. HandlesWithinPolicy'
    BY <1>1, <1>6, PolicyParts DEF HandlesWithinPolicy
  <1>12. CallsWithinPolicy'
    BY <1>1, PolicyParts DEF CallsWithinPolicy
  <1> QED
    BY <1>1, <1>2, <1>4, <1>5, <1>9, <1>10, <1>11, <1>12 DEF PolicyInv

LEMMA ActivateKeeps ==
  ASSUME PolicyInv, Activate
  PROVE  PolicyInv'
  <1>1. /\ runtime' = config /\ last' = NoCall /\ Compiles(config) /\ Quiet
        /\ UNCHANGED <<deployed, config, granted, handles>>
    BY DEF Activate
  <1>2. Ids' = Ids
    BY <1>1 DEF Ids
  <1>3. TypeOK'
    BY <1>1, <1>2, PolicyParts DEF TypeOK
  <1>4. PolicyTyped'
    BY <1>1, <1>2, PolicyParts DEF PolicyTyped
  <1>5. HandlesWithinPolicy'
    BY <1>1, <1>2 DEF HandlesWithinPolicy, Quiet
  <1>6. CallsWithinPolicy'
    BY <1>1 DEF CallsWithinPolicy
  <1> QED
    BY <1>1, <1>3, <1>4, <1>5, <1>6, PolicyParts DEF PolicyInv

LEMMA OpenControlKeeps ==
  ASSUME PolicyInv, NEW r \in Requests, OpenControl(r)
  PROVE  PolicyInv'
  <1>1. /\ r.device \in Ids /\ handles[r.device] = NoHandle
        /\ r.capabilities # {} /\ DeviceOf(runtime, r.device).takeover
        /\ \A x \in r.capabilities :
             x \in Capabilities /\ Allowed(runtime, CapabilityTool(x), r.device)
        /\ UNCHANGED <<deployed, config, granted, runtime, last>>
    BY DEF OpenControl
  <1>2. PICK q \in WithDefaults(runtime, r) :
          q.idle <= q.absolute /\ handles' = [handles EXCEPT ![r.device] = q]
    BY DEF OpenControl
  <1>3. PICK d : d = DeviceOf(runtime, r.device)
    OBVIOUS
  <1>4. PICK i : i = IF r.idle = 0 THEN d.idle ELSE r.idle
    OBVIOUS
  <1>5. PICK l : l = IF r.absolute = 0 THEN d.absolute ELSE r.absolute
    OBVIOUS
  <1>6. /\ q = [capabilities |-> r.capabilities, idle |-> i, absolute |-> l]
        /\ q.idle <= d.idle /\ q.absolute <= d.absolute
    BY <1>2, <1>3, <1>4, <1>5 DEF WithDefaults
  <1>7. IsDevice(d)
    <2>1. \E a \in Exposed(runtime) : runtime.devices[a].id = r.device
      BY DEF OpenControl
    <2>2. PICK a \in Exposed(runtime) : d = runtime.devices[a]
      BY <1>3, <2>1 DEF DeviceOf
    <2> QED
      BY <2>2, PolicyParts DEF IsConfig, Exposed
  <1>8. q \in Handle
    <2>1. r.idle \in Nat /\ r.absolute \in Nat
      BY ClientAssumption DEF ClientAssumption, ShapesAssumption
    <2>2. i \in Nat /\ l \in Nat
      BY <1>4, <1>5, <1>7, <2>1 DEF IsDevice
    <2> QED
      BY <1>1, <1>6, <2>2 DEF Handle
  <1>9. /\ handles' \in [Ids -> Handle] /\ handles'[r.device] = q
        /\ \A x \in Ids \ {r.device} : handles'[x] = handles[x]
    BY <1>1, <1>2, <1>8, PolicyParts
  <1>10. Ids' = Ids
    BY <1>1 DEF Ids
  <1>11. TypeOK'
    BY <1>1, <1>2, <1>8, <1>9, <1>10, PolicyParts DEF TypeOK, Handle
  <1>12. PolicyTyped'
    BY <1>1, <1>9, <1>10, PolicyParts DEF PolicyTyped
  <1>13. HandlesWithinPolicy'
    BY <1>1, <1>3, <1>6, <1>9, <1>10, PolicyParts DEF HandlesWithinPolicy
  <1>14. CallsWithinPolicy'
    <2>1. ASSUME last # NoCall
          PROVE  last.effects \subseteq handles'[last.device].capabilities
      <3>1. /\ last.device \in Ids
            /\ last.effects \subseteq handles[last.device].capabilities
        BY <2>1, PolicyParts DEF CallsWithinPolicy, TypeOK
      <3>2. CASE last.device = r.device
        BY <1>1, <3>1, <3>2 DEF NoHandle
      <3> QED
        BY <1>9, <3>1, <3>2
    <2> QED
      BY <1>1, <2>1, PolicyParts DEF CallsWithinPolicy
  <1> QED
    BY <1>1, <1>11, <1>12, <1>13, <1>14, PolicyParts DEF PolicyInv

LEMMA CloseControlKeeps ==
  ASSUME PolicyInv, NEW d \in Ids, CloseControl(d)
  PROVE  PolicyInv'
  <1>1. /\ handles' = [handles EXCEPT ![d] = NoHandle] /\ last' = NoCall
        /\ UNCHANGED <<deployed, config, granted, runtime>>
    BY DEF CloseControl
  <1>2. Ids' = Ids
    BY <1>1 DEF Ids
  <1>3. NoHandle \in Handle
    BY DEF NoHandle, Handle
  <1>4. /\ handles' \in [Ids -> Handle] /\ handles'[d] = NoHandle
        /\ \A x \in Ids \ {d} : handles'[x] = handles[x]
    BY <1>1, <1>3, PolicyParts
  <1>5. TypeOK'
    <2>1. NoHandle.capabilities = {} /\ NoHandle.idle = 0 /\ NoHandle.absolute = 0
      BY DEF NoHandle
    <2> QED
      BY <1>1, <1>2, <1>4, <2>1, PolicyParts DEF TypeOK
  <1>6. PolicyTyped'
    BY <1>1, <1>2, <1>4, PolicyParts DEF PolicyTyped
  <1>7. HandlesWithinPolicy'
    BY <1>1, <1>2, <1>4, PolicyParts DEF HandlesWithinPolicy
  <1>8. CallsWithinPolicy'
    BY <1>1 DEF CallsWithinPolicy
  <1> QED
    BY <1>1, <1>5, <1>6, <1>7, <1>8, PolicyParts DEF PolicyInv

\* What a call may do besides its purpose, its handle is able to do.
LEMMA BesidesAble ==
  ASSUME NEW t, NEW d
  PROVE  Besides(t, d) \subseteq handles[d].capabilities
  BY DEF Besides

LEMMA CallKeeps ==
  ASSUME PolicyInv, NEW d \in Ids, NEW t \in Handlers, Call(t, d)
  PROVE  PolicyInv'
  <1>1. /\ Allowed(runtime, t, AnyDevice) /\ Allowed(runtime, RunsAs(t), d)
        /\ Purpose(t) \subseteq handles[d].capabilities
        /\ UNCHANGED <<deployed, config, granted, runtime, handles>>
    BY DEF Call, Listed
  <1>2. PICK more \in SUBSET Besides(t, d) :
          last' = [tool |-> t, device |-> d, effects |-> Purpose(t) \cup more]
    BY DEF Call
  <1>3. /\ last'.tool = t /\ last'.device = d
        /\ last'.effects \subseteq handles[d].capabilities
    BY <1>1, <1>2, BesidesAble
  <1>4. Allowed(runtime, t, d)
    BY <1>1, RunsAlike DEF Allowed
  <1>5. Ids' = Ids
    BY <1>1 DEF Ids
  <1>6. handles[d].capabilities \subseteq Capabilities
    BY PolicyParts DEF TypeOK
  <1>7. TypeOK'
    BY <1>1, <1>3, <1>5, <1>6, PolicyParts, RunsAlike DEF TypeOK
  <1>8. PolicyTyped'
    BY <1>1, <1>5, PolicyParts DEF PolicyTyped
  <1>9. HandlesWithinPolicy'
    BY <1>1, <1>5, PolicyParts DEF HandlesWithinPolicy
  <1>10. CallsWithinPolicy'
    BY <1>1, <1>3, <1>4 DEF CallsWithinPolicy
  <1> QED
    BY <1>1, <1>7, <1>8, <1>9, <1>10, PolicyParts DEF PolicyInv

LEMMA PolicyInvHolds == Spec => []PolicyInv
  <1>1. Init => PolicyInv
    <2> SUFFICES ASSUME Init
                 PROVE  PolicyInv
      OBVIOUS
    <2>1. /\ deployed \in Deployments /\ Compiles(deployed)
          /\ config = deployed /\ runtime = deployed /\ granted = {}
          /\ handles = [d \in Ids |-> NoHandle] /\ last = NoCall
      BY DEF Init
    <2>2. /\ IsConfig(deployed)
          /\ \A a \in DOMAIN deployed.devices :
               deployed.devices[a].id \notin {AnyDevice, NoDevice}
      BY <2>1, ClientAssumption DEF ClientAssumption, ShapesAssumption
    <2>3. NoHandle \in Handle
      BY DEF NoHandle, Handle
    <2>4. PolicyTyped
      BY <2>1, <2>2, <2>3 DEF PolicyTyped
    <2>5. TypeOK
      <3>1. Valid(deployed) /\ Compiles(deployed)
        BY <2>1 DEF Compiles
      <3>2. \A d \in Ids : /\ handles[d].capabilities \subseteq Capabilities
                           /\ handles[d].idle <= handles[d].absolute
        BY <2>1 DEF NoHandle
      <3> QED
        BY <2>1, <3>1, <3>2 DEF TypeOK, Ids
    <2>6. HandlesWithinPolicy /\ CallsWithinPolicy
      BY <2>1 DEF HandlesWithinPolicy, CallsWithinPolicy
    <2>7. Widens(deployed, deployed, granted)
      BY DEF Widens
    <2> QED
      BY <2>1, <2>4, <2>5, <2>6, <2>7 DEF PolicyInv
  <1>2. PolicyInv /\ [Next]_vars => PolicyInv'
    <2> SUFFICES ASSUME PolicyInv, [Next]_vars
                 PROVE  PolicyInv'
      OBVIOUS
    <2>1. CASE UNCHANGED vars
      <3>1. /\ UNCHANGED <<deployed, config, granted, runtime, handles, last>>
            /\ Ids' = Ids
        BY <2>1 DEF vars, Ids
      <3> QED
        BY <3>1
           DEF PolicyInv, PolicyTyped, TypeOK, HandlesWithinPolicy, CallsWithinPolicy
    <2>2. ASSUME NEW p \in Patches, Update(p)
          PROVE  PolicyInv'
      BY <2>2, UpdateKeeps
    <2>3. ASSUME NEW r \in Requests, OpenControl(r)
          PROVE  PolicyInv'
      BY <2>3, OpenControlKeeps
    <2>4. ASSUME NEW d \in Ids,
                 CloseControl(d) \/ \E t \in Handlers : Call(t, d)
          PROVE  PolicyInv'
      BY <2>4, CloseControlKeeps, CallKeeps
    <2> QED
      BY <2>1, <2>2, <2>3, <2>4, ActivateKeeps DEF Next
  <1> QED
    BY <1>1, <1>2, PTL DEF Spec

------------------------------------------------------------------------------
(* The theorems *)

LEMMA GrantedOnly ==
  ASSUME PolicyInv
  PROVE  OnlyInputGranted
  <1> SUFFICES ASSUME NEW t \in Tools, NEW d \in Ids, Allowed(runtime, t, d)
               PROVE  /\ Admits(deployed.tools, t)
                      /\ \/ Admits(deployed.toolsets, Toolset(t))
                         \/ Toolset(t) = "input" /\ "input" \in granted
                      /\ t \in DeviceScoped =>
                           \/ \E a \in DOMAIN deployed.devices :
                                /\ deployed.devices[a].id = d
                                /\ Toolset(t) \in deployed.devices[a].permissions
                           \/ Toolset(t) = "input" /\ d \in granted
    BY DEF OnlyInputGranted
  <1>1. Widens(deployed, runtime, granted)
    BY PolicyParts
  <1>2. Admits(deployed.tools, t) /\ Admits(runtime.toolsets, Toolset(t))
    BY <1>1 DEF Allowed, Selected, Widens
  <1>3. \/ Admits(deployed.toolsets, Toolset(t))
        \/ Toolset(t) = "input" /\ "input" \in granted
    BY <1>1, <1>2, ToolsetsOfTools DEF Widens
  <1>4. ASSUME t \in DeviceScoped
        PROVE  \/ \E a \in DOMAIN deployed.devices :
                    /\ deployed.devices[a].id = d
                    /\ Toolset(t) \in deployed.devices[a].permissions
               \/ Toolset(t) = "input" /\ d \in granted
    <2>1. d # AnyDevice
      BY PolicyParts DEF PolicyTyped, Ids, IdsOf
    <2>2. PICK a \in Exposed(runtime) :
            runtime.devices[a].id = d /\ Toolset(t) \in runtime.devices[a].permissions
      BY <1>4, <2>1 DEF Allowed
    <2>3. a \in DOMAIN deployed.devices /\ deployed.devices[a].id = d
      BY <1>1, <2>2 DEF Widens, Exposed
    <2>4. runtime.devices[a].permissions \subseteq deployed.devices[a].permissions
            \cup (IF d \in granted THEN {"input"} ELSE {})
      BY <1>1, <2>3 DEF Widens
    <2> QED
      BY <2>2, <2>3, <2>4
  <1> QED
    BY <1>2, <1>3, <1>4

LEMMA PolicySound ==
  ASSUME PolicyInv
  PROVE  /\ TypeOK /\ HandlesWithinPolicy /\ CallsWithinPolicy
         /\ NarrowingOnlyNarrows /\ OnlyInputGranted
  <1>1. NarrowingOnlyNarrows
    BY NarrowingNarrows, PolicyParts DEF NarrowingOnlyNarrows
  <1> QED
    BY <1>1, GrantedOnly, PolicyParts

\* The policy by itself, for all configurations, patches, constraints and
\* requests of these shapes: handles and calls stay within the policy in force,
\* constraints only narrow it, and settings grant nothing but the input that was
\* asked for (policy.go, narrow.go, settings.go, automation.go).
THEOREM PolicyHolds ==
  Spec => [](/\ HandlesWithinPolicy /\ CallsWithinPolicy
             /\ NarrowingOnlyNarrows /\ OnlyInputGranted)
  BY PolicyInvHolds, PolicySound, PTL

\* In the composition the policy moves as it does alone.
LEMMA HasPolicy == ClientSpec => Spec
  <1>1. ClientInit => Init
    BY DEF ClientInit
  <1>2. [ClientNext]_clientVars => [Next]_vars
    BY DEF ClientNext, clientVars, vars, Next
  <1> QED
    BY <1>1, <1>2, PTL DEF ClientSpec, Spec

\* A handle is worth no more than the policy in force, and a call does no more
\* than its handle and the policy allow (policy.go, automation.go, service.go).
THEOREM ClientsWithinPolicy == ClientSpec => []WithinPolicy
  <1>1. PolicyInv => WithinPolicy
    BY PolicySound DEF WithinPolicy
  <1> QED
    BY <1>1, HasPolicy, PolicyInvHolds, PTL

\* Constraints only narrow the policy, and settings turn on nothing but input
\* (narrow.go, settings.go).
THEOREM PoliciesOnlyNarrow == ClientSpec => []OnlyNarrowed
  <1>1. PolicyInv => OnlyNarrowed
    BY PolicySound DEF OnlyNarrowed
  <1> QED
    BY <1>1, HasPolicy, PolicyInvHolds, PTL

(***************************************************************************)
(* InputBatch                                                              *)
(***************************************************************************)

Ran == {"run", "done", "stale", "deadline"}

\* What is run was let in, and agreed to if it has to be; nothing else is sent.
Consented ==
  /\ phase \in Ran => /\ B!Compiles(batch, age)
                      /\ asked \/ ~B!Requires(batch)
  /\ begun => phase \in Ran

BatchInv == B!TypeOK /\ Consented

\* What compileBatch has added up after each action.
IsSums(s, b) ==
  s = [i \in 0 .. Len(b) |-> IF i = 0 THEN 0 ELSE s[i - 1] + B!Cost(b[i])]

\* A batch has these sums, and no other; they grow if no action costs less than
\* nothing.
Summed(b, s) ==
  /\ IsSums(s, b)
  /\ \A q : IsSums(q, b) => q = s
  /\ (\A i \in DOMAIN b : B!Cost(b[i]) \in Nat) =>
       \A i, j \in 0 .. Len(b) : s[i] \in Nat /\ (i <= j => s[i] <= s[j])

\* A batch that runs has waited for what the actions behind it are estimated to
\* take.
OnTime ==
  /\ phase \in {"write", "asked"} => next = 1 /\ waited = 0
  /\ phase = "run" => waited = B!UpTo(batch, B!Cost)[next - 1]
  /\ phase = "deadline" => late > 0

TimeInv == BatchInv /\ Summed(batch, B!UpTo(batch, B!Cost)) /\ OnTime

\* A batch is run from its start; what was run has been sent; a batch that is
\* done is run to its end, and writes.
Crossing ==
  /\ phase \in {"write", "asked"} => next = 1
  /\ phase \in {"run", "done"} =>
       \A i \in 1 .. (next - 1) :
         batch[i].type \notin {"wait", "screenshot"} => begun
  /\ phase = "done" => next = Len(batch) + 1 /\ T!Writes(batch)

TouchInv == T!TypeOK /\ Crossing

------------------------------------------------------------------------------

LEMMA BatchShapes ==
  /\ MaxActions \in Nat \ {0}
  /\ B!ActionsAssumption /\ T!ActionsAssumption
  BY ClientAssumption DEF ClientAssumption, B!MaxActionsAssumption

\* An action that may be run lasts some time.
LEMMA ActionsLast ==
  /\ \A a, w : B!ActionCompiles(a, w) => B!Lasts(a) \in Nat
  /\ \A a, w : T!ActionCompiles(a, w) => T!Lasts(a) \in Nat
  <1>1. ASSUME NEW a, NEW w, B!ActionCompiles(a, w)
        PROVE  B!Lasts(a) \in Nat
    <2>1. /\ a.type = "key_hold" => a.duration \in Nat
          /\ a.type = "wait" => a.duration \in Nat
          /\ a.type = "type" => a.length \in Nat
      <3>1. /\ a.type = "key_hold" => a.duration \in 1 .. B!MaxKeyHold
            /\ a.type = "wait" => a.duration \in 1 .. B!MaxWaitDuration
            /\ a.type = "type" => a.length \in 1 .. B!MaxText
        BY <1>1, Zenon DEF B!ActionCompiles
      <3>2. /\ 1 .. B!MaxKeyHold \subseteq Nat /\ 1 .. B!MaxText \subseteq Nat
            /\ 1 .. B!MaxWaitDuration \subseteq Nat
        BY DEF B!MaxKeyHold, B!MaxText, B!MaxWaitDuration
      <3> QED
        BY <3>1, <3>2, Zenon
    <2>2. a.type = "type" => a.length * 40 \in Nat
      BY <2>1
    <2> QED
      BY <2>1, <2>2 DEF B!Lasts, B!DoubleClickDelay, B!KeyHold, B!InterKey
  <1>2. ASSUME NEW a, NEW w, T!ActionCompiles(a, w)
        PROVE  T!Lasts(a) \in Nat
    <2>1. /\ a.type = "key_hold" => a.duration \in Nat
          /\ a.type = "wait" => a.duration \in Nat
          /\ a.type = "type" => a.length \in Nat
      <3>1. /\ a.type = "key_hold" => a.duration \in 1 .. T!MaxKeyHold
            /\ a.type = "wait" => a.duration \in 1 .. T!MaxWaitDuration
            /\ a.type = "type" => a.length \in 1 .. T!MaxText
        BY <1>2, Zenon DEF T!ActionCompiles
      <3>2. /\ 1 .. T!MaxKeyHold \subseteq Nat /\ 1 .. T!MaxText \subseteq Nat
            /\ 1 .. T!MaxWaitDuration \subseteq Nat
        BY DEF T!MaxKeyHold, T!MaxText, T!MaxWaitDuration
      <3> QED
        BY <3>1, <3>2, Zenon
    <2>2. a.type = "type" => a.length * 40 \in Nat
      BY <2>1
    <2> QED
      BY <2>1, <2>2 DEF T!Lasts, T!DoubleClickDelay, T!KeyHold, T!InterKey
  <1> QED
    BY <1>1, <1>2

LEMMA BatchStep ==
  ASSUME BatchInv, B!Next
  PROVE  BatchInv'
  <1>0. /\ batch \in Seq(Actions) /\ Len(batch) <= MaxActions /\ Len(batch) \in Nat
        /\ age \in {0} /\ phase \in B!Phases /\ asked \in BOOLEAN
        /\ begun \in BOOLEAN /\ next \in 1 .. (Len(batch) + 1)
        /\ waited \in Nat /\ late \in Nat
        /\ phase = "run" => B!Compiles(batch, age) /\ B!Writes(batch)
    BY DEF BatchInv, B!TypeOK
  <1>1. ASSUME NEW a \in Actions, B!Put(a)
        PROVE  BatchInv'
    <2>1. /\ phase = "write" /\ Len(batch) < MaxActions
          /\ batch' = Append(batch, a)
          /\ UNCHANGED <<age, phase, asked, next, waited, late, begun>>
      BY <1>1 DEF B!Put
    <2>2. batch' \in Seq(Actions) /\ Len(batch') = Len(batch) + 1
      BY <1>0, <2>1
    <2>3. Len(batch') <= MaxActions /\ next \in 1 .. (Len(batch') + 1)
      BY <1>0, <2>1, <2>2, BatchShapes
    <2> QED
      BY <1>0, <2>1, <2>2, <2>3 DEF BatchInv, B!TypeOK, Consented, Ran
  <1>2. ASSUME B!Begin \in {"run", "refused"}, phase' = B!Begin,
               UNCHANGED <<batch, age, next, waited, late, begun>>,
               asked' \in BOOLEAN, ~begun,
               B!Writes(batch) => asked' \/ ~B!Requires(batch)
        PROVE  BatchInv'
    <2>1. phase' = "run" => B!Compiles(batch, age) /\ B!Writes(batch)
      BY <1>2 DEF B!Begin
    <2>2. B!TypeOK'
      BY <1>0, <1>2, <2>1 DEF B!TypeOK, B!Phases
    <2>3. Consented'
      BY <1>2, <2>1 DEF Consented, Ran
    <2> QED
      BY <2>2, <2>3 DEF BatchInv
  <1>3. B!Begin \in {"run", "refused"}
    BY DEF B!Begin
  <1>4. ASSUME phase' \in B!Phases \ {"run"}, phase \notin Ran,
               phase' \notin Ran,
               UNCHANGED <<batch, age, asked, next, waited, late, begun>>
        PROVE  BatchInv'
    BY <1>0, <1>4 DEF BatchInv, B!TypeOK, Consented
  <1>5. CASE B!Submit
    <2>1. /\ phase = "write" /\ ~begun
          /\ UNCHANGED <<batch, age, asked, next, waited, late, begun>>
          /\ phase' = IF B!Writes(batch) /\ B!Requires(batch) THEN "asked" ELSE B!Begin
      BY <1>5 DEF B!Submit, BatchInv, Consented, Ran
    <2>2. CASE B!Writes(batch) /\ B!Requires(batch)
      BY <1>4, <2>1, <2>2 DEF B!Phases, Ran
    <2>3. CASE ~(B!Writes(batch) /\ B!Requires(batch))
      BY <1>0, <1>2, <1>3, <2>1, <2>3
    <2> QED
      BY <2>2, <2>3
  <1>6. CASE B!Agree
    <2>1. /\ phase = "asked" /\ asked' = TRUE /\ phase' = B!Begin /\ ~begun
          /\ UNCHANGED <<batch, age, next, waited, late, begun>>
      BY <1>6 DEF B!Agree, BatchInv, Consented, Ran
    <2> QED
      BY <1>2, <1>3, <2>1
  <1>7. CASE B!Decline
    <2>1. /\ phase = "asked" /\ phase' = "refused"
          /\ UNCHANGED <<batch, age, asked, next, waited, late, begun>>
      BY <1>7 DEF B!Decline
    <2> QED
      BY <1>4, <2>1 DEF B!Phases, Ran
  <1>8. ASSUME NEW lag \in {0, 1, 4000}, B!Run(lag)
        PROVE  BatchInv'
    <2>1. /\ phase = "run" /\ next <= Len(batch)
          /\ waited' = waited + B!Lasts(batch[next]) /\ late' = late + lag
          /\ UNCHANGED <<batch, age, asked>>
          /\ begun' \in BOOLEAN
          /\ \/ phase' = "deadline" /\ next' = next
             \/ next' = next + 1 /\ phase' \in {"done", "run"}
      BY <1>0, <1>8 DEF B!Run
    <2>2. B!ActionCompiles(batch[next], age)
      BY <1>0, <2>1 DEF B!Compiles
    <2>3. waited' \in Nat /\ late' \in Nat
      BY <1>0, <2>1, <2>2, ActionsLast
    <2>4. next' \in 1 .. (Len(batch) + 1)
      BY <1>0, <2>1
    <2>5. B!TypeOK'
      BY <1>0, <2>1, <2>3, <2>4 DEF B!TypeOK, B!Phases
    <2>6. Consented'
      BY <2>1 DEF BatchInv, Consented, Ran
    <2> QED
      BY <2>5, <2>6 DEF BatchInv
  <1>9. CASE B!TooOld
    <2>1. /\ phase = "run" /\ phase' = "stale"
          /\ UNCHANGED <<batch, age, asked, next, waited, late, begun>>
      BY <1>9 DEF B!TooOld
    <2> QED
      BY <1>0, <2>1 DEF BatchInv, B!TypeOK, B!Phases, Consented, Ran
  <1> QED
    BY <1>1, <1>5, <1>6, <1>7, <1>8, <1>9 DEF B!Next

LEMMA BatchStarts ==
  ASSUME B!Init
  PROVE  BatchInv
  <1>1. /\ batch = <<>> /\ age \in {0} /\ phase = "write" /\ asked = FALSE
        /\ next = 1 /\ waited = 0 /\ late = 0 /\ begun = FALSE
    BY DEF B!Init
  <1>2. /\ batch \in Seq(Actions) /\ Len(batch) <= MaxActions
        /\ next \in 1 .. (Len(batch) + 1)
    BY <1>1, BatchShapes
  <1>3. B!TypeOK
    BY <1>1, <1>2 DEF B!TypeOK, B!Phases
  <1> QED
    BY <1>1, <1>3 DEF BatchInv, Consented, Ran

LEMMA BatchMoves ==
  ASSUME BatchInv, [B!Next]_(B!vars)
  PROVE  BatchInv'
  <1>1. CASE UNCHANGED B!vars
    BY <1>1 DEF B!vars, BatchInv, B!TypeOK, Consented
  <1> QED
    BY <1>1, BatchStep

LEMMA SumsAreThese ==
  ASSUME NEW b, NEW s, Summed(b, s)
  PROVE  B!UpTo(b, B!Cost) = s
  <1>1. IsSums(s, b) /\ \A q : IsSums(q, b) => q = s
    BY DEF Summed
  <1>2. B!UpTo(b, B!Cost) = CHOOSE q : IsSums(q, b)
    BY DEF B!UpTo, IsSums
  <1> QED
    BY <1>1, <1>2

\* One action more has one sum more.
LEMMA OneMore ==
  ASSUME NEW b \in Seq(Actions), NEW a \in Actions, NEW s, Summed(b, s)
  PROVE  \E t : Summed(Append(b, a), t)
  <1> DEFINE n == Len(b)
             c == Append(b, a)
             t == [i \in 0 .. n + 1 |-> IF i <= n THEN s[i] ELSE s[n] + B!Cost(a)]
  <1>1. /\ n \in Nat /\ Len(c) = n + 1 /\ c[n + 1] = a
        /\ \A i \in 1 .. n : c[i] = b[i]
        /\ DOMAIN b = 1 .. n /\ DOMAIN c = 1 .. n + 1
    OBVIOUS
  <1>2. s = [i \in 0 .. n |-> IF i = 0 THEN 0 ELSE s[i - 1] + B!Cost(b[i])]
    BY DEF Summed, IsSums
  <1>3. s[0] = 0 /\ \A i \in 1 .. n : s[i] = s[i - 1] + B!Cost(b[i])
    BY <1>1, <1>2
  <1> HIDE DEF n, c
  <1>4. \A i \in 0 .. n : t[i] = s[i]
    BY <1>1
  <1>5. t[n + 1] = s[n] + B!Cost(a)
    BY <1>1
  <1>6. DOMAIN t = 0 .. n + 1
    OBVIOUS
  <1>t. t = [i \in 0 .. n + 1 |-> t[i]]
    OBVIOUS
  <1> HIDE DEF t
  <1>7. ASSUME NEW i \in 0 .. n + 1
        PROVE  t[i] = IF i = 0 THEN 0 ELSE t[i - 1] + B!Cost(c[i])
    <2>1. CASE i = 0
      BY <1>1, <1>3, <1>4, <2>1
    <2>2. CASE i \in 1 .. n
      <3>1. i \in 0 .. n /\ i - 1 \in 0 .. n
        BY <1>1, <2>2
      <3>2. t[i] = s[i] /\ t[i - 1] = s[i - 1] /\ c[i] = b[i] /\ i # 0
        BY <1>1, <1>4, <2>2, <3>1
      <3> QED
        BY <1>3, <2>2, <3>2
    <2>3. CASE i = n + 1
      <3>1. n \in 0 .. n /\ i - 1 = n /\ i # 0
        BY <1>1, <2>3
      <3> QED
        BY <1>1, <1>4, <1>5, <2>3, <3>1
    <2> QED
      BY <1>1, <2>1, <2>2, <2>3
  <1>8. t = [i \in 0 .. n + 1 |-> IF i = 0 THEN 0 ELSE t[i - 1] + B!Cost(c[i])]
    BY <1>7, <1>t
  <1>9. IsSums(t, c)
    BY <1>1, <1>8 DEF IsSums
  <1>10. ASSUME NEW q, IsSums(q, c)
         PROVE  q = t
    <2>1. q = [i \in 0 .. n + 1 |-> IF i = 0 THEN 0 ELSE q[i - 1] + B!Cost(c[i])]
      BY <1>1, <1>10 DEF IsSums
    <2>2. q[0] = 0 /\ \A i \in 1 .. n + 1 : q[i] = q[i - 1] + B!Cost(c[i])
      BY <1>1, <2>1
    <2> DEFINE r == [i \in 0 .. n |-> q[i]]
    <2>3. \A i \in 0 .. n : r[i] = q[i]
      OBVIOUS
    <2>r. r = [i \in 0 .. n |-> r[i]]
      OBVIOUS
    <2> HIDE DEF r
    <2>4. ASSUME NEW i \in 0 .. n
          PROVE  r[i] = IF i = 0 THEN 0 ELSE r[i - 1] + B!Cost(b[i])
      <3>1. CASE i = 0
        BY <2>2, <2>3, <3>1
      <3>2. CASE i # 0
        <4>1. i - 1 \in 0 .. n /\ i \in 1 .. n /\ i \in 1 .. n + 1
          BY <1>1, <3>2
        <4>2. r[i] = q[i] /\ r[i - 1] = q[i - 1] /\ c[i] = b[i]
          BY <1>1, <2>3, <4>1
        <4> QED
          BY <2>2, <3>2, <4>1, <4>2
      <3> QED
        BY <3>1, <3>2
    <2>5. r = [i \in 0 .. n |-> IF i = 0 THEN 0 ELSE r[i - 1] + B!Cost(b[i])]
      BY <2>4, <2>r
    <2>6. r = s
      BY <1>1, <2>5 DEF IsSums, Summed, n
    <2>7. \A i \in 0 .. n : q[i] = t[i]
      BY <1>4, <2>3, <2>6
    <2>8. q[n + 1] = t[n + 1]
      <3>1. n + 1 \in 1 .. n + 1 /\ n + 1 - 1 = n /\ n \in 0 .. n
        BY <1>1
      <3>2. q[n + 1] = q[n] + B!Cost(c[n + 1])
        BY <2>2, <3>1
      <3> QED
        BY <1>1, <1>4, <1>5, <2>7, <3>1, <3>2
    <2>9. \A i \in 0 .. n + 1 : i \in 0 .. n \/ i = n + 1
      BY <1>1
    <2>10. \A i \in 0 .. n + 1 : q[i] = t[i]
      BY <2>7, <2>8, <2>9, Zenon
    <2>11. q = [i \in 0 .. n + 1 |-> q[i]]
      BY <2>1
    <2> QED
      BY <1>t, <2>10, <2>11
  <1>11. ASSUME \A i \in DOMAIN c : B!Cost(c[i]) \in Nat,
                NEW i \in 0 .. Len(c), NEW j \in 0 .. Len(c)
         PROVE  t[i] \in Nat /\ (i <= j => t[i] <= t[j])
    <2>1. \A k \in DOMAIN b : B!Cost(b[k]) \in Nat
      <3>1. ASSUME NEW k \in 1 .. n
            PROVE  B!Cost(b[k]) \in Nat
        <4>1. k \in 1 .. n + 1 /\ c[k] = b[k]
          BY <1>1
        <4> QED
          BY <1>1, <1>11, <4>1
      <3> QED
        BY <1>1, <3>1
    <2>2. \A k, l \in 0 .. n : s[k] \in Nat /\ (k <= l => s[k] <= s[l])
      BY <1>1, <2>1 DEF Summed, n
    <2>3. B!Cost(a) \in Nat
      <3>1. n + 1 \in 1 .. n + 1
        BY <1>1
      <3> QED
        BY <1>1, <1>11, <3>1
    <2>4. t[n + 1] \in Nat /\ \A k \in 0 .. n : s[k] <= t[n + 1]
      <3>1. n \in 0 .. n /\ \A k \in 0 .. n : k <= n
        BY <1>1
      <3>2. s[n] \in Nat /\ \A k \in 0 .. n : s[k] \in Nat /\ s[k] <= s[n]
        BY <2>2, <3>1
      <3> HIDE DEF t
      <3> QED
        BY <1>5, <2>3, <3>2
    <2>5. (i \in 0 .. n \/ i = n + 1) /\ (j \in 0 .. n \/ j = n + 1)
      BY <1>1
    <2>6. CASE i \in 0 .. n /\ j \in 0 .. n
      BY <1>4, <2>2, <2>6
    <2>7. CASE i \in 0 .. n /\ j = n + 1
      BY <1>4, <2>2, <2>4, <2>7
    <2>8. CASE i = n + 1
      <3>1. i <= j => j = n + 1
        BY <1>1, <2>5, <2>8
      <3> QED
        BY <2>4, <2>8, <3>1
    <2> QED
      BY <2>5, <2>6, <2>7, <2>8
  <1>12. Summed(c, t)
    BY <1>9, <1>10, <1>11 DEF Summed
  <1> QED
    BY <1>12 DEF c

\* What an action is let in with is what the executor waits for it.
LEMMA EstimatedAsRun ==
  \A a : B!Cost(a) = B!Lasts(a)
  BY DEF B!Cost, B!Lasts

LEMMA TimeStarts ==
  ASSUME B!Init
  PROVE  TimeInv
  <1>1. batch = <<>> /\ phase = "write" /\ next = 1 /\ waited = 0
    BY DEF B!Init
  <1> DEFINE s == [i \in 0 .. 0 |-> 0]
  <1>2. ASSUME NEW q
        PROVE  IsSums(q, <<>>) <=> q = s
    <2>1. IsSums(q, <<>>) <=>
            q = [i \in 0 .. 0 |-> IF i = 0 THEN 0 ELSE q[i - 1] + B!Cost(<<>>[i])]
      BY DEF IsSums
    <2>2. \A i \in 0 .. 0 : i = 0
      OBVIOUS
    <2>3. [i \in 0 .. 0 |-> IF i = 0 THEN 0 ELSE q[i - 1] + B!Cost(<<>>[i])] = s
      BY <2>2
    <2> QED
      BY <2>1, <2>3
  <1>3. \A i, j \in 0 .. Len(<<>>) : s[i] \in Nat /\ (i <= j => s[i] <= s[j])
    OBVIOUS
  <1>4. Summed(<<>>, s)
    BY <1>2, <1>3 DEF Summed
  <1> QED
    BY <1>1, <1>4, SumsAreThese, BatchStarts DEF TimeInv, OnTime

LEMMA TimeMoves ==
  ASSUME TimeInv, [B!Next]_(B!vars)
  PROVE  TimeInv'
  <1>0. BatchInv'
    BY BatchMoves DEF TimeInv
  <1>1. ASSUME UNCHANGED batch, OnTime'
        PROVE  TimeInv'
    <2>1. B!UpTo(batch', B!Cost) = B!UpTo(batch, B!Cost)
      BY <1>1
    <2>2. Summed(batch', B!UpTo(batch', B!Cost))
      BY <1>1, <2>1 DEF TimeInv
    <2> QED
      BY <1>0, <1>1, <2>2 DEF TimeInv
  <1>2. ASSUME NEW a \in Actions, B!Put(a)
        PROVE  TimeInv'
    <2>1. /\ phase = "write" /\ batch' = Append(batch, a)
          /\ UNCHANGED <<phase, next, waited, late>>
      BY <1>2 DEF B!Put
    <2>2. batch \in Seq(Actions)
      BY DEF TimeInv, BatchInv, B!TypeOK
    <2>3. PICK t : Summed(Append(batch, a), t)
      BY <2>2, OneMore DEF TimeInv
    <2>4. Summed(batch', B!UpTo(batch', B!Cost))
      BY <2>1, <2>3, SumsAreThese
    <2>5. OnTime'
      BY <2>1 DEF TimeInv, OnTime
    <2> QED
      BY <1>0, <2>4, <2>5 DEF TimeInv
  <1>3. ASSUME phase \in {"write", "asked"}, phase' \in {"asked", "run", "refused"},
               UNCHANGED <<batch, next, waited, late>>
        PROVE  TimeInv'
    <2>1. next = 1 /\ waited = 0
      BY <1>3 DEF TimeInv, OnTime
    <2>2. B!UpTo(batch, B!Cost)[0] = 0
      <3> DEFINE s == B!UpTo(batch, B!Cost)
      <3>1. s = [i \in 0 .. Len(batch) |-> IF i = 0 THEN 0 ELSE s[i - 1] + B!Cost(batch[i])]
        BY DEF TimeInv, Summed, IsSums
      <3>2. 0 \in 0 .. Len(batch)
        BY DEF TimeInv, BatchInv, B!TypeOK
      <3> HIDE DEF s
      <3>3. s[0] = 0
        BY <3>1, <3>2
      <3> QED
        BY <3>3 DEF s
    <2>3. B!UpTo(batch, B!Cost)' = B!UpTo(batch, B!Cost)
      BY <1>3 DEF B!UpTo
    <2>4. phase' = "run" => waited' = B!UpTo(batch, B!Cost)'[next' - 1]
      BY <1>3, <2>1, <2>2, <2>3
    <2> QED
      BY <1>1, <1>3, <2>1, <2>4 DEF OnTime
  <1>4. CASE B!Submit \/ B!Agree \/ B!Decline
    BY <1>3, <1>4, Zenon DEF B!Submit, B!Agree, B!Decline, B!Begin
  <1>5. ASSUME NEW lag \in {0, 1, 4000}, B!Run(lag)
        PROVE  TimeInv'
    <2> DEFINE s == B!UpTo(batch, B!Cost)
               cost == B!Lasts(batch[next])
    <2>1. /\ phase = "run" /\ next <= Len(batch)
          /\ waited' = waited + cost /\ late' = late + lag
          /\ UNCHANGED <<batch, age>>
          /\ IF waited' + late' > 15000
               THEN phase' = "deadline" /\ next' = next
               ELSE next' = next + 1 /\ phase' \in {"done", "run"}
      BY <1>5 DEF B!Run, B!MaxBatchDuration
    <2>2. /\ batch \in Seq(Actions) /\ Len(batch) \in Nat
          /\ next \in 1 .. (Len(batch) + 1) /\ waited \in Nat /\ late \in Nat
          /\ B!Compiles(batch, age)
      BY <2>1 DEF TimeInv, BatchInv, B!TypeOK
    <2>3. next \in 1 .. Len(batch) /\ next - 1 \in 0 .. Len(batch)
          /\ next \in 0 .. Len(batch) /\ Len(batch) \in 0 .. Len(batch)
      BY <2>1, <2>2
    <2>4. \A i \in DOMAIN batch : B!Cost(batch[i]) \in Nat
      BY <2>2, ActionsLast, EstimatedAsRun DEF B!Compiles
    <2>5. s[Len(batch)] <= 15000
      BY <2>2 DEF B!Compiles, B!Estimate, B!Total, B!MaxBatchDuration
    <2>6. Summed(batch, s) /\ waited = s[next - 1]
      BY <2>1 DEF TimeInv, OnTime
    <2> HIDE DEF s
    <2>7. s[next] = s[next - 1] + cost
      <3>1. s = [i \in 0 .. Len(batch) |-> IF i = 0 THEN 0 ELSE s[i - 1] + B!Cost(batch[i])]
        BY <2>6 DEF Summed, IsSums
      <3>2. s[next] = s[next - 1] + B!Cost(batch[next])
        BY <2>3, <3>1
      <3> QED
        BY <3>2, EstimatedAsRun
    <2>8. s[next] \in Nat /\ s[Len(batch)] \in Nat /\ s[next] <= s[Len(batch)]
      BY <2>1, <2>3, <2>4, <2>6 DEF Summed
    <2>9. waited' = s[next] /\ waited' <= 15000 /\ waited' \in Nat
      BY <2>1, <2>5, <2>6, <2>7, <2>8
    <2>10. late' \in Nat
      BY <2>1, <2>2
    <2>11. CASE waited' + late' > 15000
      <3>1. late' > 0 /\ phase' = "deadline"
        BY <2>1, <2>9, <2>10, <2>11
      <3> QED
        BY <1>1, <2>1, <3>1 DEF OnTime
    <2>12. CASE ~(waited' + late' > 15000)
      <3>1. next' = next + 1 /\ phase' \in {"done", "run"}
        BY <2>1, <2>12
      <3>2. next' - 1 = next
        BY <2>2, <3>1
      <3>3. B!UpTo(batch, B!Cost)' = s
        BY <2>1 DEF B!UpTo, s
      <3> QED
        BY <1>1, <2>1, <2>9, <3>1, <3>2, <3>3 DEF OnTime
    <2> QED
      BY <2>11, <2>12
  <1>6. CASE B!TooOld
    <2>1. phase' = "stale" /\ UNCHANGED batch
      BY <1>6 DEF B!TooOld
    <2> QED
      BY <1>1, <2>1 DEF OnTime
  <1>7. CASE UNCHANGED B!vars
    <2>1. UNCHANGED <<batch, phase, next, waited, late>>
      BY <1>7 DEF B!vars
    <2>2. B!UpTo(batch, B!Cost)' = B!UpTo(batch, B!Cost)
      BY <2>1 DEF B!UpTo
    <2> QED
      BY <1>1, <2>1, <2>2 DEF TimeInv, OnTime
  <1> QED
    BY <1>2, <1>4, <1>5, <1>6, <1>7 DEF B!Next

LEMMA TimeInvHolds == B!Spec => []TimeInv
  BY TimeStarts, TimeMoves, PTL DEF B!Spec

\* Only a text has a length.
LEMMA TextOnly ==
  ASSUME NEW a, NEW w, B!ActionCompiles(a, w), a.type # "type"
  PROVE  a.length = 0
  <1>1. "text" \notin B!Fields(a.type)
    BY DEF B!Fields
  <1>2. "text" \notin B!Given(a)
    BY <1>1, Zenon DEF B!ActionCompiles
  <1> QED
    BY <1>2 DEF B!Given

LEMMA AskedFirst ==
  ASSUME BatchInv
  PROVE  B!AskedBefore
  <1> SUFFICES ASSUME begun, ~asked
               PROVE  /\ \A i, j \in DOMAIN batch :
                           i < j /\ batch[i].type = "type"
                             /\ batch[j].type = "keypress" =>
                             B!KeysOf(batch[j].keys) \cap B!Committing = {}
                      /\ \A a \in B!Range(batch) :
                           a.type # "key_hold" /\ a.length <= 256
    BY DEF B!AskedBefore
  <1>1. ~B!Requires(batch) /\ B!Compiles(batch, age)
    BY DEF BatchInv, Consented
  <1>2. \A i \in DOMAIN batch :
          batch[i] \in B!Range(batch) /\ B!ActionCompiles(batch[i], age)
    BY <1>1 DEF B!Compiles, B!Range
  <1>3. ASSUME NEW i \in DOMAIN batch, NEW j \in DOMAIN batch,
               batch[i].type = "type", batch[j].type = "keypress"
        PROVE  B!KeysOf(batch[j].keys) \cap B!Committing = {}
    <2>1. B!ChordCompiles(batch[j].keys)
      BY <1>2, <1>3, Zenon DEF B!ActionCompiles
    <2> QED
      BY <1>1, <1>2, <1>3, <2>1, Zenon DEF B!Requires
  <1>4. ASSUME NEW a \in B!Range(batch)
        PROVE  a.type # "key_hold" /\ a.length <= 256
    <2>1. a.type # "key_hold" /\ ~(a.type = "type" /\ a.length > 256)
      BY <1>1, Zenon DEF B!Requires
    <2>2. B!ActionCompiles(a, age)
      BY <1>2 DEF B!Range
    <2>3. CASE a.type = "type"
      <3>1. a.length \in 1 .. B!MaxText
        BY <2>2, <2>3, Zenon DEF B!ActionCompiles
      <3> QED
        <4>1. 1 .. B!MaxText \subseteq Nat
          BY DEF B!MaxText
        <4>2. a.length \in Nat
          BY <3>1, <4>1, Zenon
        <4> QED
          BY <2>1, <2>3, <4>2
    <2>4. CASE a.type # "type"
      BY <2>1, <2>2, <2>4, TextOnly
    <2> QED
      BY <2>3, <2>4
  <1> QED
    BY <1>3, <1>4

\* A chord that compiles has as many names as meanings: as long as it has two,
\* another with the same report has.
LEMMA LongAlike ==
  ASSUME NEW c \in Seq(STRING), NEW d \in Seq(STRING),
         B!ChordCompiles(c), B!SameReport(c, d), Len(c) >= 2
  PROVE  Len(d) >= 2
  <1>1. 1 \in DOMAIN c /\ 2 \in DOMAIN c
    OBVIOUS
  <1>2. B!Means(c[1]) # B!Means(c[2])
    BY <1>1 DEF B!ChordCompiles
  <1>3. ASSUME NEW i \in {1, 2}
        PROVE  \E k \in DOMAIN d : B!Means(d[k]) = B!Means(c[i])
    <2>1. B!Means(c[i]) \in {B!Means(n) : n \in B!Range(c)}
      BY <1>1 DEF B!Range
    <2>2. {B!Means(n) : n \in B!Range(c)} \subseteq {B!Means(n) : n \in B!Range(d)}
      BY DEF B!SameReport, B!KeysOf, B!ModifiersOf
    <2> QED
      BY <2>1, <2>2 DEF B!Range
  <1>4. PICK k \in DOMAIN d : B!Means(d[k]) = B!Means(c[1])
    BY <1>3
  <1>5. PICK l \in DOMAIN d : B!Means(d[l]) = B!Means(c[2])
    BY <1>3
  <1>6. k # l
    BY <1>2, <1>4, <1>5
  <1> QED
    BY <1>6

LEMMA SensitiveAlike ==
  ASSUME NEW c \in Seq(STRING), NEW d \in Seq(STRING),
         B!ChordCompiles(c), B!ChordCompiles(d), B!SameReport(c, d)
  PROVE  B!Sensitive(c) <=> B!Sensitive(d)
  <1>1. B!SameReport(d, c)
    BY DEF B!SameReport
  <1>2. Len(c) >= 2 <=> Len(d) >= 2
    BY <1>1, LongAlike
  <1> QED
    BY <1>2 DEF B!Sensitive, B!SameReport

LEMMA AskedAlike ==
  ASSUME BatchInv
  PROVE  B!AliasesAskAlike
  <1> SUFFICES ASSUME NEW i \in DOMAIN batch, NEW c \in Chords,
                      batch[i].type = "keypress", B!ChordCompiles(batch[i].keys),
                      B!ChordCompiles(c), B!SameReport(batch[i].keys, c)
               PROVE  B!Requires(batch) <=> B!Requires([batch EXCEPT ![i].keys = c])
    BY DEF B!AliasesAskAlike
  <1>1. PICK b : b = [batch EXCEPT ![i].keys = c]
    OBVIOUS
  <1>2. /\ batch[i] \in Actions /\ c \in Seq(STRING)
        /\ \A a \in Actions : a.keys \in Seq(STRING)
        /\ batch \in Seq(Actions) /\ Len(batch) \in Nat
    <2>1. batch \in Seq(Actions) /\ Len(batch) \in Nat
      BY DEF BatchInv, B!TypeOK
    <2>2. \A a \in Actions : a.keys \in Seq(STRING)
      BY BatchShapes DEF B!ActionsAssumption
    <2>3. c \in Seq(STRING)
      BY BatchShapes DEF B!ActionsAssumption
    <2> QED
      BY <2>1, <2>2, <2>3
  <1>3. PICK e : e = [batch[i] EXCEPT !.keys = c]
    OBVIOUS
  <1>4. /\ e.type = batch[i].type /\ e.length = batch[i].length /\ e.keys = c
    BY <1>2, <1>3, BatchShapes DEF B!ActionsAssumption
  <1>5. /\ DOMAIN b = DOMAIN batch /\ b[i] = e
        /\ \A j \in DOMAIN batch \ {i} : b[j] = batch[j]
    BY <1>1, <1>2, <1>3
  <1>6. /\ B!KeysOf(batch[i].keys) = B!KeysOf(c)
        /\ B!Sensitive(batch[i].keys) <=> B!Sensitive(c)
    BY <1>2, SensitiveAlike DEF B!SameReport
  <1>7. ASSUME NEW j \in DOMAIN batch
        PROVE  /\ b[j].type = batch[j].type /\ b[j].length = batch[j].length
               /\ b[j].type = "keypress" =>
                    /\ B!Sensitive(b[j].keys) <=> B!Sensitive(batch[j].keys)
                    /\ B!ChordCompiles(b[j].keys) <=> B!ChordCompiles(batch[j].keys)
                    /\ B!KeysOf(b[j].keys) = B!KeysOf(batch[j].keys)
    BY <1>4, <1>5, <1>6
  <1>8. /\ B!Range(b) = {b[j] : j \in DOMAIN batch}
        /\ B!Range(batch) = {batch[j] : j \in DOMAIN batch}
    BY <1>5 DEF B!Range
  <1> DEFINE Alone(a) == \/ a.type = "key_hold"
                         \/ a.type = "type" /\ a.length > 256
                         \/ a.type = "keypress" /\ B!Sensitive(a.keys)
             Commits(a) == /\ a.type = "keypress" /\ B!ChordCompiles(a.keys)
                           /\ B!KeysOf(a.keys) \cap B!Committing # {}
  <1>9. \A j \in DOMAIN batch : /\ Alone(b[j]) <=> Alone(batch[j])
                                /\ Commits(b[j]) <=> Commits(batch[j])
    BY <1>7
  <1>10. /\ B!Requires(b) <=> \/ \E j \in DOMAIN batch : Alone(b[j])
                              \/ /\ \E j \in DOMAIN batch : b[j].type = "type"
                                 /\ \E j \in DOMAIN batch : Commits(b[j])
         /\ B!Requires(batch) <=>
              \/ \E j \in DOMAIN batch : Alone(batch[j])
              \/ /\ \E j \in DOMAIN batch : batch[j].type = "type"
                 /\ \E j \in DOMAIN batch : Commits(batch[j])
    <2>1. ASSUME NEW f
          PROVE  B!Requires(f) <=>
                   \/ \E a \in B!Range(f) : Alone(a)
                   \/ /\ \E a \in B!Range(f) : a.type = "type"
                      /\ \E a \in B!Range(f) : Commits(a)
      BY DEF B!Requires
    <2> HIDE DEF Alone, Commits
    <2> QED
      BY <1>8, <2>1
  <1> HIDE DEF Alone, Commits
  <1> QED
    BY <1>1, <1>7, <1>9, <1>10

------------------------------------------------------------------------------

LEMMA SendingBegins ==
  ASSUME begun' = (begun \/ batch[next].type \notin {"wait", "screenshot"})
  PROVE  /\ begun => begun'
         /\ batch[next].type \notin {"wait", "screenshot"} => begun'
  OBVIOUS

LEMMA TouchStep ==
  ASSUME TouchInv, T!Next
  PROVE  TouchInv'
  <1>0. /\ batch \in Seq(Touches) /\ Len(batch) <= MaxActions /\ Len(batch) \in Nat
        /\ age \in {0, 24999, 30000, 30001} /\ phase \in T!Phases
        /\ asked \in BOOLEAN /\ begun \in BOOLEAN
        /\ next \in 1 .. (Len(batch) + 1) /\ waited \in Nat /\ late \in Nat
        /\ phase = "run" => T!Compiles(batch, age) /\ T!Writes(batch)
        /\ phase \in {"write", "asked"} => next = 1
    BY DEF TouchInv, T!TypeOK, Crossing
  <1>1. ASSUME NEW a \in Touches, T!Put(a)
        PROVE  TouchInv'
    <2>1. /\ phase = "write" /\ Len(batch) < MaxActions
          /\ batch' = Append(batch, a)
          /\ UNCHANGED <<age, phase, asked, next, waited, late, begun>>
      BY <1>1 DEF T!Put
    <2>2. batch' \in Seq(Touches) /\ Len(batch') = Len(batch) + 1
      BY <1>0, <2>1
    <2>3. Len(batch') <= MaxActions /\ next \in 1 .. (Len(batch') + 1)
      BY <1>0, <2>1, <2>2, BatchShapes
    <2>4. T!TypeOK'
      BY <1>0, <2>1, <2>2, <2>3 DEF T!TypeOK
    <2>5. Crossing'
      BY <1>0, <2>1 DEF Crossing
    <2> QED
      BY <2>4, <2>5 DEF TouchInv
  <1>2. ASSUME phase' = T!Begin, phase \in {"write", "asked"}, next = 1,
               UNCHANGED <<batch, age, next, waited, late, begun>>,
               asked' \in BOOLEAN
        PROVE  TouchInv'
    <2>1. /\ phase' \in {"run", "refused"}
          /\ phase' = "run" => T!Compiles(batch, age) /\ T!Writes(batch)
      BY <1>2 DEF T!Begin
    <2>2. T!TypeOK'
      BY <1>0, <1>2, <2>1 DEF T!TypeOK, T!Phases
    <2>3. Crossing'
      <3>1. 1 .. (next' - 1) = {}
        BY <1>2
      <3> QED
        BY <2>1, <3>1 DEF Crossing
    <2> QED
      BY <2>2, <2>3 DEF TouchInv
  <1>3. ASSUME phase' \in T!Phases \ {"run", "done"},
               next = 1 \/ phase' \notin {"write", "asked"},
               UNCHANGED <<batch, age, asked, next, waited, late, begun>>
        PROVE  TouchInv'
    <2>1. T!TypeOK'
      BY <1>0, <1>3 DEF T!TypeOK
    <2>2. Crossing'
      BY <1>3 DEF Crossing
    <2> QED
      BY <2>1, <2>2 DEF TouchInv
  <1>4. CASE T!Submit
    <2>1. /\ phase = "write"
          /\ UNCHANGED <<batch, age, asked, next, waited, late, begun>>
          /\ phase' = IF T!Writes(batch) /\ T!Requires(batch) THEN "asked" ELSE T!Begin
      BY <1>4 DEF T!Submit
    <2>2. CASE T!Writes(batch) /\ T!Requires(batch)
      BY <1>0, <1>3, <2>1, <2>2 DEF T!Phases
    <2>3. CASE ~(T!Writes(batch) /\ T!Requires(batch))
      BY <1>0, <1>2, <2>1, <2>3
    <2> QED
      BY <2>2, <2>3
  <1>5. CASE T!Agree
    <2>1. /\ phase = "asked" /\ asked' = TRUE /\ phase' = T!Begin
          /\ UNCHANGED <<batch, age, next, waited, late, begun>>
      BY <1>5 DEF T!Agree
    <2> QED
      BY <1>0, <1>2, <2>1
  <1>6. CASE T!Decline
    BY <1>3, <1>6 DEF T!Decline, T!Phases
  <1>7. CASE T!TooOld
    BY <1>3, <1>7 DEF T!TooOld, T!Phases
  <1>8. ASSUME NEW lag \in {0, 4000}, T!Run(lag)
        PROVE  TouchInv'
    <2>1. /\ phase = "run" /\ next <= Len(batch)
          /\ waited' = waited + T!Lasts(batch[next]) /\ late' = late + lag
          /\ UNCHANGED <<batch, age, asked>>
          /\ begun' = (begun \/ batch[next].type \notin {"wait", "screenshot"})
          /\ \/ phase' = "deadline" /\ next' = next
             \/ /\ next' = next + 1
                /\ phase' = IF next = Len(batch) THEN "done" ELSE "run"
      BY <1>8 DEF T!Run
    <2>2. T!ActionCompiles(batch[next], age)
      BY <1>0, <2>1 DEF T!Compiles
    <2>3. waited' \in Nat /\ late' \in Nat
      BY <1>0, <2>1, <2>2, ActionsLast
    <2>4. next' \in 1 .. (Len(batch) + 1) /\ begun' \in BOOLEAN
      BY <1>0, <2>1
    <2>5. T!TypeOK'
      BY <1>0, <2>1, <2>3, <2>4 DEF T!TypeOK, T!Phases
    <2>6. /\ begun => begun'
          /\ batch[next].type \notin {"wait", "screenshot"} => begun'
      <3>1. begun' = (begun \/ batch[next].type \notin {"wait", "screenshot"})
        BY <2>1
      <3> QED
        BY <3>1, SendingBegins
    <2>7. ASSUME phase' # "deadline", NEW i \in 1 .. (next' - 1),
                 batch[i].type \notin {"wait", "screenshot"}
          PROVE  begun'
      <3>1. CASE i = next
        BY <2>7, <2>6, <3>1
      <3>2. CASE i # next
        <4>1. i \in 1 .. (next - 1)
          BY <1>0, <2>1, <2>7, <3>2
        <4>2. begun
          BY <2>1, <2>7, <4>1 DEF TouchInv, Crossing
        <4> QED
          BY <2>6, <4>2
      <3> QED
        BY <3>1, <3>2
    <2>8. Crossing'
      BY <1>0, <2>1, <2>7 DEF Crossing, T!Writes
    <2> QED
      BY <2>5, <2>8 DEF TouchInv
  <1> QED
    BY <1>1, <1>4, <1>5, <1>6, <1>7, <1>8 DEF T!Next

LEMMA TouchStarts ==
  ASSUME T!Init
  PROVE  TouchInv
  <1>1. /\ batch = <<>> /\ age \in {0, 24999, 30000, 30001} /\ phase = "write"
        /\ asked = FALSE /\ next = 1 /\ waited = 0 /\ late = 0 /\ begun = FALSE
    BY DEF T!Init
  <1>2. /\ batch \in Seq(Touches) /\ Len(batch) <= MaxActions
        /\ next \in 1 .. (Len(batch) + 1)
    BY <1>1, BatchShapes
  <1>3. T!TypeOK
    <2>1. age \in {0, 24999, 30000, 30001} /\ phase \in T!Phases
      BY <1>1 DEF T!Phases
    <2>2. waited \in Nat /\ late \in Nat
      BY <1>1
    <2>3. asked \in BOOLEAN /\ begun \in BOOLEAN
      <3>1. asked = FALSE
        BY <1>1
      <3>2. begun = FALSE
        BY <1>1
      <3>3. asked \in BOOLEAN
        BY <3>1
      <3>4. begun \in BOOLEAN
        BY <3>2
      <3> QED
        BY <3>3, <3>4
    <2>4. phase # "run"
      BY <1>1
    <2> QED
      BY <1>2, <2>1, <2>2, <2>3, <2>4 DEF T!TypeOK
  <1> QED
    BY <1>1, <1>3 DEF TouchInv, Crossing

LEMMA TouchMoves ==
  ASSUME TouchInv, [T!Next]_(T!vars)
  PROVE  TouchInv'
  <1>1. CASE UNCHANGED T!vars
    BY <1>1 DEF T!vars, TouchInv, T!TypeOK, Crossing
  <1> QED
    BY <1>1, TouchStep

LEMMA TouchInvHolds == T!Spec => []TouchInv
  BY TouchStarts, TouchMoves, PTL DEF T!Spec

\* The scale of the pointer keeps the order of the pixels, from corner to corner.
LEMMA ScaleKeepsOrder ==
  ASSUME NEW x \in 0 .. 4, NEW y \in 0 .. 4
  PROVE  /\ T!Scaled(x) \in 0 .. T!Far
         /\ x = 0 => T!Scaled(x) = 0
         /\ x = T!Width - 1 => T!Scaled(x) = T!Far
         /\ x < y => T!Scaled(x) < T!Scaled(y)
  BY SMTT(90) DEF T!Scaled, T!Far, T!Width

LEMMA TouchesSound ==
  ASSUME TouchInv
  PROVE  T!TypeOK /\ T!RunsCross /\ T!PixelsKeepTheirPlace
  <1>1. T!RunsCross
    <2> SUFFICES ASSUME phase = "done"
                 PROVE  begun
      BY DEF T!RunsCross
    <2>1. next = Len(batch) + 1 /\ T!Writes(batch) /\ batch \in Seq(Touches)
      BY DEF TouchInv, Crossing, T!TypeOK
    <2>2. PICK i \in 1 .. Len(batch) : batch[i].type \notin {"wait", "screenshot"}
      BY <2>1 DEF T!Writes, T!Range
    <2>3. i \in 1 .. (next - 1)
      BY <2>1, <2>2
    <2> QED
      BY <2>2, <2>3 DEF TouchInv, Crossing
  <1>2. T!PixelsKeepTheirPlace
    <2> SUFFICES ASSUME phase = "run", NEW i \in DOMAIN batch, NEW j \in DOMAIN batch,
                        {batch[i].type, batch[j].type} \subseteq T!Pointed
                 PROVE  /\ T!Scaled(batch[i].x) \in 0 .. T!Far
                        /\ batch[i].x = 0 => T!Scaled(batch[i].x) = 0
                        /\ batch[i].x = T!Width - 1 => T!Scaled(batch[i].x) = T!Far
                        /\ batch[i].x < batch[j].x =>
                             T!Scaled(batch[i].x) < T!Scaled(batch[j].x)
      BY DEF T!PixelsKeepTheirPlace
    <2>1. batch \in Seq(Touches) /\ T!Compiles(batch, age)
      BY DEF TouchInv, T!TypeOK
    <2>2. ASSUME NEW k \in {i, j}
          PROVE  batch[k].x \in 0 .. 4
      <3>1. T!ActionCompiles(batch[k], age) /\ batch[k].type \in T!Pointed
        BY <2>1 DEF T!Compiles
      <3>2. T!Inside(batch[k].x)
        BY <3>1, Zenon DEF T!ActionCompiles
      <3>3. batch[k] \in Touches
        BY <2>1
      <3>4. batch[k].x \in Int
        BY <3>3, BatchShapes DEF T!ActionsAssumption
      <3> QED
        BY <3>2, <3>4 DEF T!Inside, T!Width
    <2> QED
      BY <2>2, ScaleKeepsOrder
  <1> QED
    BY <1>1, <1>2 DEF TouchInv

------------------------------------------------------------------------------
(* The theorems *)

\* A batch by itself, of any actions: nothing that commits is sent before
\* somebody agreed, and other names for the same keys ask the same (actions.go,
\* keys.go, control_tools.go, service.go).
THEOREM CommitsAreAsked ==
  B!Spec => [](B!AskedBefore /\ B!AliasesAskAlike)
  <1>1. TimeInv => B!AskedBefore /\ B!AliasesAskAlike
    BY AskedFirst, AskedAlike DEF TimeInv
  <1> QED
    BY <1>1, TimeInvHolds, PTL

\* A batch by itself, of any actions and any length: it meets its deadline only
\* behind a link that has made it wait (compileBatch of actions.go, executor.go).
THEOREM EstimatesHold ==
  B!Spec => []B!OnlyALinkIsLate
  <1>1. TimeInv => B!OnlyALinkIsLate
    BY DEF TimeInv, OnTime, B!OnlyALinkIsLate
  <1> QED
    BY <1>1, TimeInvHolds, PTL

\* A batch of pointer actions by itself, with observations of any of the ages: one
\* that is done has sent something, and the pixels keep their place (service.go,
\* actions.go).
THEOREM TouchesLand ==
  T!Spec => [](T!RunsCross /\ T!PixelsKeepTheirPlace)
  BY TouchInvHolds, TouchesSound, PTL

\* In the composition either kind of batch is run as it is alone, if it is moved.
BatchIfMoved == part = "batch" => TimeInv
TouchIfMoved == part = "touch" => TouchInv

LEMMA BatchesHold == ClientSpec => [](BatchIfMoved /\ TouchIfMoved)
  <1>1. ClientInit => BatchIfMoved /\ TouchIfMoved
    <2>1. ASSUME ClientInit, part = "batch"
          PROVE  TimeInv
      BY <2>1, TimeStarts DEF ClientInit
    <2>2. ASSUME ClientInit, part = "touch"
          PROVE  TouchInv
      BY <2>2, TouchStarts DEF ClientInit
    <2> QED
      BY <2>1, <2>2 DEF BatchIfMoved, TouchIfMoved
  <1>2. ASSUME BatchIfMoved, TouchIfMoved, [ClientNext]_clientVars
        PROVE  BatchIfMoved' /\ TouchIfMoved'
    <2>1. part' = part
      BY <1>2 DEF ClientNext, clientVars
    <2>2. ASSUME part = "batch"
          PROVE  TimeInv'
      <3>1. [B!Next]_(B!vars)
        BY <1>2, <2>2 DEF ClientNext, clientVars, batchVars, B!vars
      <3> QED
        BY <1>2, <2>2, <3>1, TimeMoves DEF BatchIfMoved
    <2>3. ASSUME part = "touch"
          PROVE  TouchInv'
      <3>1. [T!Next]_(T!vars)
        BY <1>2, <2>3 DEF ClientNext, clientVars, batchVars, T!vars
      <3> QED
        BY <1>2, <2>3, <3>1, TouchMoves DEF TouchIfMoved
    <2> QED
      BY <2>1, <2>2, <2>3 DEF BatchIfMoved, TouchIfMoved
  <1> QED
    BY <1>1, <1>2, PTL DEF ClientSpec

\* No commit, hold or long text is sent before somebody agreed, whatever its keys
\* are called; a batch that ends has sent something, and its pixels keep their
\* place (service.go, control_tools.go, actions.go).
THEOREM BatchesAreSafe == ClientSpec => []BatchesSafe
  <1>1. BatchIfMoved /\ TouchIfMoved => BatchesSafe
    BY AskedFirst, AskedAlike, TouchesSound
       DEF BatchIfMoved, TouchIfMoved, BatchesSafe, BatchInv, TimeInv
  <1> QED
    BY <1>1, BatchesHold, PTL

\* A batch that was let in ends within its estimate unless the link is slow
\* (compileBatch of actions.go, executor.go).
THEOREM EstimatesCover == ClientSpec => []BatchInTime
  <1>1. BatchIfMoved => BatchInTime
    BY DEF BatchIfMoved, BatchInTime, TimeInv, OnTime, B!OnlyALinkIsLate
  <1> QED
    BY <1>1, BatchesHold, PTL
=============================================================================
