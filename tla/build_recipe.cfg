\* The recipe on Linux, macOS and Windows under Conan 1 and Conan 2.
CONSTANTS
    OSes <- MCOSes
    ConanMajors <- MCConanMajors
SPECIFICATION Spec
INVARIANT TypeOK
INVARIANT DepOptionsTargetRequired
INVARIANT ArrowBuildCoherent
CHECK_DEADLOCK FALSE
