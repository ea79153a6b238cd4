SPECIFICATION Spec
CONSTANTS
  Tokens = {"a", "e"}
  Eog = "e"
  MaxCtx = 6
  MinNgram = 1
  MaxNgram = 2
  MaxPrompt = 3
  MaxNew = 3
  MaxTurns = 2
  Setups <- MCSetups
INVARIANTS TypeOK KeepsMirror LogitsFromHistory
