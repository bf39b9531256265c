SPECIFICATION Spec
CONSTANTS
  Turns = {t1, t2}
  Sessions = {s1, s2}
  Tools = {"product_search_tool", "create_order_tool", "task_dispatch"}
  Carts = {"variant", "other"}
  Items <- MCItems
  Findings <- MCFindings
  Conclusions <- MCConclusions
  NoSku = "none"
  NoCart = "nothing"
  Threshold = 2
  Window = 2
  MaxCalls = 3
  MaxEvictions = 1
SYMMETRY Symmetry
INVARIANT OrdersAsShown
INVARIANT NoSilentTwin
INVARIANT RefusalsHaveEvidence
CHECK_DEADLOCK FALSE
