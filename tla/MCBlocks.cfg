SPECIFICATION Spec
CONSTANTS
  Group = 2
  MaxBytes = 4
  MaxString = 40
  Column = {"c1", "c2"}
  Kind <- MCKinds
  Block = {"b1", "b2"}
  Strings <- MCStrings
  Parameters <- MCParameters
  Revisions = {51902, 51903, 54454, 54459}
  MaxRows = 3
INVARIANTS RowCountHolds BlocksReadBack ParametersReadBack
