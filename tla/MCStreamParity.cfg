\* Three steps, two of which cannot share a batch, over four ids: two may be
\* removed while others stay live, so that reuse has a smallest one to choose
\* and id order differs from the order of appends.
SPECIFICATION Spec
CONSTANTS
  Steps = {a, b, c}
  Clashes = {{b, c}}
  MaxIds = 4
  Emptied = Emptied
  Free = Free
INVARIANTS
  SameEntries
  SameFreshId
  SameBatches
PROPERTIES
  CachedKeepsPromise
  RecipeKeepsPromise
