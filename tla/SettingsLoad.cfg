\* The policies of ClientSafety: one deployment has a device with two aliases, one
\* of them hidden.
SPECIFICATION ClientSpec
CONSTANTS
  Deployments <- AllDeployments
  Used <- UsedDeployments
  Patches <- SettingsPatches
  Constraints <- ProcessConstraints
  Requests <- ControlRequests
  Actions <- LimitActions
  Touches <- Pointing
  Chords <- EquivalentChords
  MaxActions = 3
INVARIANT
  SavedActivates
\* The run is about a state, not about an end.
CHECK_DEADLOCK FALSE
