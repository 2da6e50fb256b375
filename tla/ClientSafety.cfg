\* Four deployments used, eighteen narrowed; batches of three.
SPECIFICATION ClientSpec
CONSTANTS
  Deployments <- AllDeployments
  Used <- UsedDeployments
  Patches <- SettingsPatches
  Constraints <- ProcessConstraints
  Requests <- ControlRequests
  Actions <- LimitActions
  Touches <- Pointing
  Chords <- EquivalentChords
  MaxActions = 3
INVARIANTS
  WithinPolicy
  OnlyNarrowed
  
  
\* A policy may deny every tool, and a batch ends.
CHECK_DEADLOCK FALSE
