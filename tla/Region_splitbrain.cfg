\* Two regions boot for the first time, no stall and no stop: is there one primary?
SPECIFICATION Spec
CONSTANTS
  eu = eu
  us = us
  t1 = t1
  t2 = t2
  t3 = t3
  Regions = {eu, us}
  NoRegion = NoRegion
  Ticks = {t1, t2, t3}
  RegionOf <- MCRegionOf
  MaxFaults = 0
INVARIANTS OnePrimaryAlways
