\* What the up-to-date check promises, over three launches.
SPECIFICATION Spec
CONSTANTS
    usa = usa
    eu = eu
    gfx = gfx
    misc = misc
    Roms = {usa}
    Paks = {gfx}
    NJson = 1
    MaxLaunches = 3
INVARIANT CurrentIsComplete
CHECK_DEADLOCK FALSE
