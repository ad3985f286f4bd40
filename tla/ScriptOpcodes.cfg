SPECIFICATION Spec
CONSTANTS
  ByteBits = 3
  int64ByteCap = 2
  maxScriptNumLen = 1
  maxBigNumLen = 3
  Tx <- MCTx
  HashLen = 1
  Crypto <- MCCrypto
  maxAssetGroupIndex = 3
  Lock <- MCLock
  maxModexpOperandLen = 1
  maxECPairingCount = 1
  MaxSatoshi = 20
  Curve <- MCCurve
  Effect <- OpcodeEffect
  Tokens <- OpcodeTokens
  ProgramScript <- MCProgram
  Scripts <- OpcodeScripts
  SigScripts <- NoSigScript
  Witnesses <- OpcodeStacks
  TxWitnesses <- OnlyNoWitness
  limits <- NoLimits
  requestInputBudget = 2
  MaxInt = 15
  MaxStackSize = 8
  MaxScriptElementSize = 3
  maxCombinedStackByteSize = 10
  SmallIntMax = 2
  DirectMax = 1
  PushData1Max = 2
  PushData2Max = 3
  NumInputs = 1
  MaxOps = 2
INVARIANTS NumericExact EncodingCanonical StackTransformations AssetViewsAgree
PROPERTY ElementsStayBounded
CHECK_DEADLOCK FALSE
