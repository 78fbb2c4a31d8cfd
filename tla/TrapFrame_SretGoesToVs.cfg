SPECIFICATION Spec
CONSTANT MaxDepth = 5
INVARIANTS SretGoesToVs
