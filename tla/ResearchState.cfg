\* Two notes on one transcript of two generations, three changes, of which the
\* projector takes one at a time and keeps one.
SPECIFICATION Spec
CONSTANTS
  Notes = {n1, n2}
  Docs = {d1}
  Texts = {x1, x2}
  Sources = {s1}
  Bodies = {b1}
  Labels = {l1}
  Clients = {desktop}
  BatchSize = 1
  Retained = 1
  MaxChanges = 3
  None = None
SYMMETRY AnyNames
ACTION_CONSTRAINT ReadersWait
INVARIANT SearchIsCurrent
PROPERTIES
  EditsWhatWasSeen
  CitationsAreKept
