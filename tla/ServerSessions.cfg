SPECIFICATION FairSpec
CONSTANTS
    Conns = {c1, c2}
    Slots = {1, 2, 3}
    MaxCommands = 4
INVARIANTS TypeOK WorkIsKept NoLeakedRuntime AttachmentsAgree
PROPERTIES ImplementsContract NothingHangs
CHECK_DEADLOCK FALSE
