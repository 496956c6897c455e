SPECIFICATION Spec
CONSTANT PowerMayFail = FALSE
PROPERTY
    HandshakeClearsGoTo
