\* Every activation history of seven sensors.
SPECIFICATION Spec
CONSTANT Size = 7
INVARIANTS TypeOK MemmoveInBounds PlaceFound
PROPERTIES ImplementsActiveSet
