CONSTANTS
  Clients = {c1, c2}
  MaxAdds = 2
  MaxFaults = 1
SPECIFICATION Spec
SYMMETRY Symmetry
INVARIANTS TypeOK WorkersAreOwned RowsAreServed PasswordsAreTheirOwn StatusIsCurrent
