SPECIFICATION Spec
CONSTANTS
  ref_capacity = 4
  Values = {v1, v2}
  UNDEFINED = UNDEFINED
INVARIANTS HeldRefsResolve FullOnlyWhenAllHeld RefcountExact DestroyReleasesAll
