CONSTANTS
    h1 = h1
    h2 = h2
    home = home
    nowhere = nowhere
    f1 = f1
    f2 = f2
    boot = boot
    Holder <- MCHolder
    Slots = {1, 2}
    Home = home
    Nowhere = nowhere
    Handler = {f1}
    Boot = boot
    MaxPresses = 3
SPECIFICATION PlacementSpec
INVARIANTS
    StopTravels
SYMMETRY MCSymmetry
CHECK_DEADLOCK FALSE
