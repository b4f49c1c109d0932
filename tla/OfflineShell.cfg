\* Two tabs, two versions, on a host that rewrites missing paths.
SPECIFICATION FairSpec
CONSTANTS
  Tabs = {t1, t2}
  MaxVersion = 2
  Rewrites = TRUE
INVARIANTS
  ControlledTabsAreAnswered
  RunsItsOwnCode
  DeployedAssetIsGenuine
PROPERTY ReadyAgain
CHECK_DEADLOCK FALSE
