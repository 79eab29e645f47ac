SPECIFICATION Spec
CONSTANTS a = a
          b = b
          f1 = f1
          f2 = f2
          Files <- TwoFiles
          Blocks <- TwoBlocks
          Nul = nul
          Sectors = 2
          MaxFiles = 2
          Texts <- ShortTexts
          Default <- Defaults
          Watched <- OneFile
          Unsure = unsure
INVARIANTS EmptyFileSurvives
