\* A frame usb_bulk reports as sent is dropped by the device: every transfer
\* begins with DATA0 (drivers/usb/ehci.c:274).
SPECIFICATION UsbSpec
CONSTANTS
    NPorts = 1
    USB_MAX_DEV = 1
    MaxBulk = 2
    MaxUsbFaults = 0
INVARIANT SentIsTaken
CHECK_DEADLOCK FALSE
