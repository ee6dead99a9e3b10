SPECIFICATION Spec
CONSTANTS
    Managers = {1, 2}
    Conditions <- MCConditions
    Ambients <- MCAmbients
    Concentrations <- MCConcentrations
    MaxTime = 1
INVARIANTS ValidIffFit FlagSaysWhy
