SPECIFICATION Spec
CONSTANTS
  Participants = {p1}
  Places = {x, y}
  Options = {o1}
  Areas = {a, b}
  None = None
  MaxRequests = 2
  MaxDetails = 2
PROPERTY ChangedInputsStopCalculation
