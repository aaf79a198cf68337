----------------------------- MODULE MCPricing -----------------------------
(***************************************************************************)
(* A tracked bare-vendor id and a dated id that reaches its row by the     *)
(* suffix rules.                                                           *)
(***************************************************************************)
EXTENDS Pricing

Id(ns, name, tail) == [ns |-> ns, name |-> name, tail |-> tail]
PricedRecords ==
  {[id |-> Id("", "new", tail), host |-> NoHost, ts |-> 1, window |-> 1] : tail \in {"", "-date"}}
NoModels == {}
TrackedIds == {Id("v", "new", "")}
Hosts == [t \in TrackedIds |-> "H"]
HostRows == {<<Id("v", "new", ""), "H">>}
NoFamilies == <<>>
FirstHistories == {<<[from |-> 0, rate |-> 1, schedule |-> NoSchedule]>>}
=============================================================================
