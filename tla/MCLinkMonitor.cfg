CONSTANTS
  eth0 = eth0
  wlan0 = wlan0
  lo = lo
  Device <- MCDevice
  Ethernet = {eth0, wlan0}
  Wireless = {wlan0}
  MaxEvents = 4
SPECIFICATION Spec
INVARIANTS TypeOK SettledAgrees
PROPERTY GoingDownThenDown
CHECK_DEADLOCK FALSE
