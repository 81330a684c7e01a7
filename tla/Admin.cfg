CONSTANTS
  Actors = {a1, a2}
  Fps = {"old", "new"}
  Methods = {"ja3", "ja4"}
  MethodOf <- MCMethodOf
  Old = {"old"}
SPECIFICATION Spec
SYMMETRY Symmetric
INVARIANT MarkerTellsFormat
INVARIANT MethodTellsKeys
INVARIANT LabelSurvives
