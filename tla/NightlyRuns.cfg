CONSTANTS
  NumProjects = 2
  MaxNights = 3
  MaxKills = 2
SPECIFICATION Spec
INVARIANTS
  LiveIsTraceable
  SeasonedProjectsRender
PROPERTIES
  DeploysTonightsRun
  NeverGoesBack
CHECK_DEADLOCK FALSE
