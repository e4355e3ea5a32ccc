SPECIFICATION WifiSpec
CONSTANTS
    Ssid = {s1, s2}
    NoSsid = NoSsid
    MaxWifi = 3
INVARIANTS
    WifiTypeOK
    WifiTakesEffect
PROPERTIES
    NoneIsKilled
