\* The mock connector with one or two workers and up to two controllers, and a browser.
SPECIFICATION MCSpec
CONSTANTS
  d1 = d1  c1 = c1  c2 = c2  b1 = b1  S = S  T = T
  NoSecret = NoSecret  NoCookie = NoCookie  Nobody = Nobody
  Secrets = {S, T}
  FleetSecret = S
  Devices = {d1}
  MaxPerDevice = 2
  Controllers = {c1, c2}
  Browsers = {b1}
  AuthConfigs <- MCConfigs
  Fleets <- MCFleets
  DefaultTTL = 4
  MaxNow = 4
  MaxReloads = 1
  MaxDrops = 1
CHECK_DEADLOCK FALSE
INVARIANTS  CookieMirrorsToken
PROPERTIES FleetEnds ControllersServed
