\* Bridge: three channels and three commands; a one-dimensional cloud of seven
\* voxels; messages with up to seven letters and two items.  Lidar: four
\* points, a map of three, a window and a topic of two messages.  Video: three
\* images, four samples.  Greeter: a reset of three ticks.  Looking: a circle
\* of twelve units of which five are in view, turns that go two units too
\* far, two corrections.
CONSTANTS
    MaxChannels = 3
    MaxCommands = 3
    Voxel <- MCVoxel
    Place <- MCPlace
    Ratio = 2
    Radius = 5
    MaxPoints = 5
    PublishPoints = 3
    MaxSweep = 2
    MaxText = 7
    MaxItems = 2
    Spot <- MCSpot
    MapPoints = 3
    Leaf = 2
    Near = 1
    Far = 2
    Enough = 2
    MaxClouds = 2
    Depth = 2
    MaxBatch = 2
    MaxImages = 3
    MaxSamples = 4
    Reset = 3
    ConfirmPolls = 2
    History = 2
    Circle = 12
    Width = 2
    Step = 2
    Over = 2
    Deadzone = 0
    Tolerance = 1
    MaxCorrections = 2
    Needed = 2
    InFlight = 1
    Missed = Missed
SPECIFICATION MCSpec
CHECK_DEADLOCK FALSE
INVARIANTS
    InOrder
    FieldsWhereWritten
    KeepsTheNearest
    SavedUnlessChanged
    GapFree
    SweepSeesAll
    PointsAtSomething
    SaysItFaces
PROPERTIES
    OnePerVisit
    StableView
    ViewIsRecent
