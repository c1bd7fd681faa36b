SPECIFICATION Spec
CONSTANTS
  c1 = c1
  c2 = c2
  Kinds = {"ioi", "advert", "allocation", "rfq_request"}
  Callers = {c1, c2}
  MaxIds = 4
  MaxCount = 1
SYMMETRY CallerSymmetry
INVARIANTS ChainsAgree TermsFollowId
CHECK_DEADLOCK FALSE
