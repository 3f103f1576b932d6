SPECIFICATION Spec
CONSTANTS
    Items = {i1, i2}
    Jobs = {j1, j2, j3}
    None = None
    Unattended = {i1}
    MaxConcurrent = 1
    MaxRunsPerDay = 2
    MaxReopens = 1
    MaxHangs = 1
    MaxFaults = 1
    MaxCrashes = 1
SYMMETRY JobSymmetry
PROPERTIES
    StallStopsAgent
