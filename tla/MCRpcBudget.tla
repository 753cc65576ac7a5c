---------------------------- MODULE MCRpcBudget -----------------------------
(* A budget of a few credits and one request of each kind that the checks tell *)
(* apart, one of them larger than every budget.                                *)
EXTENDS RpcBudget

Call(m, k, c, why, live, cost) ==
  [method |-> m, kind |-> k, category |-> c, reason |-> why, live |-> live, cost |-> cost]

McRequests ==
  {Call("getBlockhash", "JsonRpc", "Blockhash", "ExecutionBlockhash", TRUE, 2),
   Call("getBlockhash", "JsonRpc", "Blockhash", "ColdStart", FALSE, 1),
   Call("getBlockhash", "JsonRpc", "Blockhash", "ColdStart", TRUE, 1),
   Call("getBlockhash", "JsonRpc", "Emergency", "EmergencyReconciliation", TRUE, 7),
   Call("getBlockhash", "JsonRpc", "HolderScan", "ColdStart", FALSE, 1),
   Call("getBlockhash", "HttpExternal", "Unknown", "ColdStart", FALSE, 0),
   Call("getBlockhash", "GrpcStream", "MarketData", "ExecutionBlockhash", TRUE, 3)}

McMethodLimit == [m \in {"getBlockhash"} |-> 3]
=============================================================================
