------------------------------- MODULE MCSetup ------------------------------
(* What a session sets up or finds: the preferences, the wireless network    *)
(* and the devices on the bus.  The three share nothing, so a behaviour      *)
(* follows one of them.                                                      *)
EXTENDS Prefs, Wifi, Usb

CONSTANTS cafe, kiosk, odd, mangled

VARIABLE subject    \* "prefs", "wifi" or "usb"

\* `odd` reaches the guest as another name (cut to WLAN_SSID_MAX bytes, or with
\* letters the wire does not carry); several access points share the name cafe.
MCHostNets == {[name |-> odd, ssid |-> mangled, quality |-> 1, sec |-> WPA],
               [name |-> kiosk, ssid |-> kiosk, quality |-> 2, sec |-> OPEN]}

MCFrames == {[ssid |-> cafe, quality |-> 1, sec |-> OPEN, beacon |-> TRUE],
             [ssid |-> cafe, quality |-> 1, sec |-> WPA, beacon |-> TRUE],
             [ssid |-> kiosk, quality |-> 1, sec |-> OPEN, beacon |-> TRUE],
             [ssid |-> odd, quality |-> 1, sec |-> OPEN, beacon |-> TRUE],
             [ssid |-> NoName, quality |-> 1, sec |-> OPEN, beacon |-> TRUE],
             [ssid |-> cafe, quality |-> 2, sec |-> WPA, beacon |-> FALSE]}

MCInit ==
    /\ subject \in {"prefs", "wifi", "usb"}
    /\ Init /\ WifiInit /\ UsbInit
    /\ subject # "usb" => plugged = [p \in AllPorts |-> "none"]

\* The bound on transfers is used up, or there is no device.
UsbRests == at = "up" /\ call = NoCall

MCNext ==
    \/ subject = "prefs" /\ Next /\ UNCHANGED <<wifiVars, usbVars, subject>>
    \/ subject = "wifi" /\ WifiNext /\ UNCHANGED <<vars, usbVars, subject>>
    \/ subject = "usb" /\ UsbNext /\ UNCHANGED <<vars, wifiVars, subject>>
    \/ subject = "usb" /\ UsbRests /\ UNCHANGED <<vars, wifiVars, usbVars, subject>>
MCSpec == MCInit /\ [][MCNext]_<<vars, wifiVars, usbVars, subject>>
=============================================================================
