CONSTANT Pings = {1, 2, 3}
SPECIFICATION Spec
INVARIANTS TypeOK PingedAddressAnswers
