SPECIFICATION Spec
CONSTANT MaxSectors = 1
INVARIANT CompletionIsOwn
