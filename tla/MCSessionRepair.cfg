SPECIFICATION Spec
CONSTANT MaxTokens = 2
PROPERTIES RePairingUnlocks
