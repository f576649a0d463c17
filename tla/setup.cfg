SPECIFICATION MCSpec
CONSTANTS
    Keys = {lang, login_wp, desk_wp}
    Lang = lang
    Values = {0, 1}
    Default = 0
    Bad = 9
    MaxFaults = 2
    cafe = cafe
    kiosk = kiosk
    odd = odd
    mangled = mangled
    HostNets <- MCHostNets
    Frames <- MCFrames
    MaxFrames = 3
    KNames = {kiosk, Kscrap}
    NoName = NoName
    Remnants = {scrap, Kscrap}
    TableMax = 2
    CheckStep = 2
    CheckSteps = 2
    Ticks = {0, 1}
    MaxWifiFaults = 1
    NPorts = 3
    USB_MAX_DEV = 2
    MaxBulk = 2
    MaxUsbFaults = 1
INVARIANTS SettingsKept NetworkTable VerdictIsTrue UsbSound
