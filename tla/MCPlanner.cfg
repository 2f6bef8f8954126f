SPECIFICATION Spec
CONSTANTS
  Participants = {p1}
  Places = {x, y}
  Options = {o1, o2}
  Areas = {a, b}
  None = None
  MaxRequests = 2
  MaxDetails = 2
INVARIANT PanelIsOfSelection
INVARIANT OnlyLatestCalculation
INVARIANT ResultIsForInputs
SYMMETRY MCSymmetry
