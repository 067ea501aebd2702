\* Two launches with any ROM, mode and --force; the process may end anywhere.
SPECIFICATION FairSpec
CONSTANTS
    usa = usa
    eu = eu
    gfx = gfx
    misc = misc
    Roms = {usa, eu}
    Paks = {gfx, misc}
    NJson = 2
    MaxLaunches = 2
INVARIANTS TypeOK BuiltIsComplete StampIsComplete
PROPERTY BuildEnds
CHECK_DEADLOCK FALSE
