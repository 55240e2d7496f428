SPECIFICATION FairSpec
CONSTANTS
    WANs = {1, 2, 3, 4}
    Steady = {1, 2}
    TriesUp = 1
    Probes = {"bad", "good"}
    Nobody = Nobody
PROPERTY SteadyReturn
