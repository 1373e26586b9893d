SPECIFICATION FairSpec
CONSTANTS
  Builds = {TRUE, FALSE}
  Retries = 1
  Flashed = {"ramdisk"}
  Reasons = {"normal", "recovery", "power_key", "factory", "fota"}
  Starts = {{"alarm1"}, {"alarm2"}, {"adpin"}, {"keyon"}, {"adpin", "keyon"}}
  MaxFaults = 2
  MaxBoots = 3
CHECK_DEADLOCK FALSE
INVARIANTS
  Safety
  RebootGoesOn
PROPERTIES
  RecoveryIsReached
  BootEnds
