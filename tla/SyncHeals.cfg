SPECIFICATION FairSpec
CONSTANTS
    i1 = i1
    i2 = i2
    A = A
    B = B
    task1 = task1
    e1 = e1
    e2 = e2
    r1 = r1
    a = a
    b = b
    c1 = c1
    c2 = c2
    bad = bad
    None = None
    Instance <- TwoInstances
    Model <- OneModel
    ModelOf <- AllInOne
    TaskOf <- SameTask
    Title <- TwoTitles
    Cycle <- OneCycle
    Unestimable <- NoCycle
    Editor <- OneEditor
    Resyncer <- OneResyncer
    Exclusive = FALSE
    MaxTask = 6
    MaxRuns = 0
    MaxEdits = 2
    MaxDrift = 1
    MaxFaults = 0
PROPERTIES
    ResyncHeals
