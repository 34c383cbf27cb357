CONSTANTS
    alice = alice
    bob = bob
    mic = mic
    camera = camera
    window = window
    Peers = {alice, bob}
    Senders = {mic, camera}
    Receivers = {window}
    Owner <- Owners
    SenderOrder <- SendersInOrder
    Video = {camera, window}
    Keys = {k1, k2}
    Spis = {1, 2}
    AnySsrc = AnySsrc
    NoBundle = NoBundle
    Plain = Plain
    MaxInstalls = 1
    MaxFrames = 1
    MaxFailures = 1
SPECIFICATION Spec
SYMMETRY Symmetry
CHECK_DEADLOCK FALSE
INVARIANT InnerLayerStaysSealed
