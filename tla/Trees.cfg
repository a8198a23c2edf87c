SPECIFICATION Spec
CONSTANT MaxNode = 8
INVARIANTS OrderKept RedBlackRules LookupsRight
