-------------------------------- MODULE Cases --------------------------------
(***************************************************************************)
(* What the users of the command line and of the MCP server do in the runs:*)
(* policies and their changes (for PolicyRules), batches (InputBatch) and  *)
(* command lines (CliCommand).                                             *)
(***************************************************************************)
EXTENDS Integers

(* Policies: selections with and without a list of what is allowed, one or *)
(* two devices, one of which has two addresses.                            *)

Select(allow, deny) == [allow |-> allow, deny |-> deny]
Device(id, exposed, permissions, takeover) ==
  [id |-> id, exposed |-> exposed, permissions |-> permissions,
   takeover |-> takeover, idle |-> 2, absolute |-> 3]

Readable == {"observe", "video", "power"}
OneDevice == [a |-> Device("A", TRUE, Readable, TRUE)]
TwoDevices == [a |-> Device("A", TRUE, Readable \cup {"input"}, TRUE),
               b |-> Device("B", FALSE, {"observe", "video", "input"}, TRUE)]
TwoAddresses == [a |-> Device("A", TRUE, {"observe", "video", "input"}, TRUE),
                 b |-> Device("A", FALSE, Readable, TRUE)]

Configs(toolsets, tools, devices) ==
  {[toolsets |-> x, tools |-> y, devices |-> z] :
     x \in toolsets, y \in tools, z \in devices}

AllDeployments ==
  Configs({Select({}, {}), Select({"setup", "observe", "video", "power"}, {}),
           Select({}, {"power"})},
          {Select({}, {}), Select({}, {"key_press", "power_action"})},
          {OneDevice, TwoDevices, TwoAddresses})
UsedDeployments ==
  Configs({Select({}, {})}, {Select({}, {}), Select({}, {"key_press", "power_action"})},
          {TwoDevices})
    \cup Configs({Select({"setup", "observe", "video", "power"}, {})},
                 {Select({}, {})}, {OneDevice})
    \cup Configs({Select({}, {})}, {Select({}, {})}, {TwoAddresses})

Keep == [input |-> "keep", device |-> "none", exposed |-> "keep",
         deviceInput |-> "keep", takeover |-> "keep", idle |-> 0]
Turns == {"on", "off"}
SettingsPatches ==
  {[Keep EXCEPT !.input = x] : x \in Turns}
    \cup {[Keep EXCEPT !.device = d, !.exposed = x] : d \in {"A", "B"}, x \in Turns}
    \cup {[Keep EXCEPT !.device = d, !.deviceInput = x, !.input = y] :
            d \in {"A"}, x \in Turns, y \in {"on", "keep"}}
    \cup {[Keep EXCEPT !.device = "A", !.takeover = "off"],
          [Keep EXCEPT !.device = "A", !.idle = 4]}

NoConstraint ==
  [toolsetsAllow |-> {}, toolsetsDeny |-> {}, toolsAllow |-> {}, toolsDeny |-> {},
   devicesAllow |-> {}, devicesDeny |-> {}, permissions |-> [a \in {} |-> {}],
   noTakeover |-> {}]
ProcessConstraints ==
  {[NoConstraint EXCEPT !.toolsetsAllow = x, !.toolsetsDeny = y, !.toolsDeny = z] :
     x \in SUBSET {"video", "input"}, y \in SUBSET {"video", "setup"},
     z \in {{}, {"observe"}}}
    \cup {[NoConstraint EXCEPT !.toolsAllow = {"observe", "open_control"},
             !.devicesAllow = x, !.devicesDeny = y, !.permissions = z] :
            x \in {{}, {"a"}}, y \in {{}, {"b"}},
            z \in {[a \in {} |-> {}], [a |-> {"video"}], [a |-> {"input"}]}}

ControlRequests ==
  {[device |-> d, capabilities |-> x, idle |-> i, absolute |-> 4 * i] :
     d \in {"A", "B"}, x \in {{"video", "input"}, {"power", "video"}}, i \in {0, 1}}

--------------------------------------------------------------------------
(* Batches: actions at the limits, chords under several names, and the     *)
(* actions of the pointer.                                                 *)

Blank == [type |-> "screenshot", x |-> 0, button |-> "", path |-> <<>>, delta |-> 0,
          keys |-> <<>>, length |-> 0, us |-> TRUE, duration |-> 0]
At(type, x) == [Blank EXCEPT !.type = type, !.x = x]
Keypress(keys) == [Blank EXCEPT !.type = "keypress", !.keys = keys]
Text(length) == [Blank EXCEPT !.type = "type", !.length = length]
WaitFor(duration) == [Blank EXCEPT !.type = "wait", !.duration = duration]

EquivalentChords == {<<"ctrl", "a">>, <<"control", "KeyA">>, <<"shift", "a">>, <<"shift", "KeyA">>,
             <<"cmd", "b">>, <<"super", "b">>, <<"enter">>, <<"return">>, <<"f13">>,
             <<"ctrl", "control">>, <<"a", "KeyA">>, <<"alt">>}

Typed == {Keypress(c) : c \in {<<"control", "KeyA">>, <<"shift", "a">>, <<"return">>,
                               <<"f13">>, <<"a", "KeyA">>}}
           \cup {Text(n) : n \in {1, 256, 257, 374, 375, 376}}
Waiting == {WaitFor(5000), WaitFor(5001)}
             \cup {[Blank EXCEPT !.type = "key_hold", !.keys = <<"a">>, !.duration = d] :
                     d \in {12000, 12001}}
LimitActions == Typed \cup Waiting \cup {Blank, At("double_click", 4)}

Pointing == {At(t, x) : t \in {"move", "click"}, x \in {0, 1, 4, 5}}
              \cup {[Blank EXCEPT !.type = "drag", !.path = p, !.button = b] :
                      p \in {<<0>>, <<0, 4>>}, b \in {"", "wheel"}}
              \cup {[Blank EXCEPT !.type = "scroll", !.delta = d] : d \in {-128, 127}}
              \cup {[At("move", 1) EXCEPT !.duration = 1], Blank, WaitFor(5000)}

--------------------------------------------------------------------------
(* Every command, with and without prompts, pictures and wakes.            *)

Line(kind, aims, wakes, asks) ==
  [kind |-> kind, aims |-> aims, wakes |-> wakes, asks |-> asks]
CommandLines ==
  {Line(k, FALSE, FALSE, a) : k \in {"power", "release"}, a \in BOOLEAN}
  \cup {Line("read", FALSE, FALSE, FALSE)}
  \cup {Line("run", FALSE, FALSE, a) : a \in BOOLEAN}
  \cup {Line(k, TRUE, w, a) : k \in {"run", "screenshot"}, w, a \in BOOLEAN}
=============================================================================
