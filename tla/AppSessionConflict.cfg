SPECIFICATION Spec
CONSTANTS
    Sessions = {s1, s2}
    Models = {metal, cpu}
    MaxAttempts = 2
    None = None
SYMMETRY MCSymmetry
PROPERTY ConflictMeansBusy
