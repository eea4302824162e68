\* An unbind fails after the adapter has removed the binding.
CONSTANTS
  Bindings = {b1, b2}
  Goroutines = {g1, g2}
  None = None
  InstanceDeleted = TRUE
  Retries = 1
SPECIFICATION Spec
INVARIANT BoundIsAlwaysUsable
