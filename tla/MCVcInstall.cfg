SPECIFICATION Spec
CONSTANTS
    h1 = h1
    h2 = h2
    Worlds <- MCWorlds
INVARIANTS
    StampMeansInstalled
PROPERTIES
    Recovers
