\* One reuse of the id is enough.
CONSTANTS TIMEOUT = 1  MaxReuse = 1
SPECIFICATION Spec
INVARIANTS OnlyParentSignalled
