\* Deeper than any nesting that the code allows while no trap hits a way out.
SPECIFICATION Spec
CONSTANT MaxDepth = 6
INVARIANTS IntactUnlessHit ScratchTellsMode FramesBounded FramesChained
