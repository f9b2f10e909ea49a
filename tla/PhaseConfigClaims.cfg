\* A statement the code does not keep, with a counterexample.
SPECIFICATION Spec
CONSTANTS
    Default <- MCDefault
    Inputs  <- MCInputs
    Toggles <- MCToggles
    Ramp = 2
    NoFile = NoFile
    Malformed = Malformed
PROPERTY RefusedCallChangesNothing
