\* The pages of both applications on two rows, with answers in any order or not at all,
\* changes made elsewhere, and clicks while requests are in progress.
SPECIFICATION FairSpec
CONSTANTS
    o1 = o1
    o2 = o2
    None = None
    Rows = {o1, o2}
    Periods = {"may", "june"}
    Stores = {"s1", "s2"}
    MaxChanges = 3
    MaxClicks = 2
    MaxLoads = 3
INVARIANTS TypeOK OwnWorkShown ShownIsAsked
PROPERTIES NeverOlder FilterAnswered LoaderEnds ActionEnds
