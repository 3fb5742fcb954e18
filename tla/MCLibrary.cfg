CONSTANTS
  Contexts <- MCContexts
  SecretKeys <- MCSecretKeys
  Strategies <- MCStrategies
  Plaintexts <- MCPlaintexts
  Constants <- MCConstants
  Operations <- MCOperations
  MaxOps <- MCMaxOps
SPECIFICATION Spec
\* A sequence of operations ends.
CHECK_DEADLOCK FALSE
INVARIANTS
  DecryptsRight NoiseBounded PartsAgree MatricesSwitch NextMatrixLeads
PROPERTIES
  Relinearized
