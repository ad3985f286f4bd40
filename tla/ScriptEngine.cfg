SPECIFICATION Spec
CONSTANTS
  ByteBits = 3
  int64ByteCap = 2
  maxScriptNumLen = 1
  maxBigNumLen = 3
  Tx <- MCTx
  HashLen = 1
  Crypto <- MCCrypto
  maxAssetGroupIndex = 3
  Lock <- MCLock
  maxModexpOperandLen = 1
  maxECPairingCount = 1
  MaxSatoshi = 20
  Curve <- MCCurve
  Effect <- OpcodeEffect
  Tokens <- ControlTokens
  ProgramScript <- MCProgram
  Scripts <- AllScripts
  SigScripts <- BothSig
  Witnesses <- ControlWitnesses
  TxWitnesses <- ControlTxWitnesses
  limits <- ControlLimits
  requestInputBudget = 2
  MaxInt = 3
  MaxStackSize = 3
  MaxScriptElementSize = 3
  maxCombinedStackByteSize = 2
  SmallIntMax = 2
  DirectMax = 1
  PushData1Max = 2
  PushData2Max = 3
  NumInputs = 3
  MaxOps = 6
INVARIANTS CondStackIsConsensus InputCannotExhaustRequest RequestWorkCapped
CHECK_DEADLOCK FALSE
