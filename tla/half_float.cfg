SPECIFICATION HalfSpec
CONSTANT Fractions = {0, 1, 2, 3, 341, 511, 512, 513, 1023}
INVARIANT HalfExact
CHECK_DEADLOCK FALSE
