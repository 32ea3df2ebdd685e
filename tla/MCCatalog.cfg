\* Every authoring route; wholes of up to two children, with and without a
\* module, at positions that differ or repeat.
CONSTANTS
  NULL = NULL
  make = make
  add = add
  show = show
  other = other
  t1 = t1
  t2 = t2
  Names = {"1", "2", "belts"}
  Calls = {make, add, show, other}
  Tenants = {t1, t2}
  TenantOf <- MCTenantOf
  Programs <- MCPrograms
SPECIFICATION TxSpec
INVARIANTS
  ShownWhole
  OwnersExist
\* The calls end.
CHECK_DEADLOCK FALSE
