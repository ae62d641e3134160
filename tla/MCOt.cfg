SPECIFICATION Spec
CONSTANTS
  Sids <- MCOne
  Base <- MCBase
  Letters <- MCLetters
  Document <- MCDocument
  Proposals <- MCProposals
  Accepted <- MCAccepted
  Moves <- MCMoves
  Ties = FALSE
  MaxEdits = 2
  MaxAccepts = 2
INVARIANTS
  SitesAgree
  DeletesNamed
  DoesAsMeant
  MovesGoBack
