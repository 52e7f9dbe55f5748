-------------------------- MODULE MCSequenceLane --------------------------
(* A handful of requests, some with one number or one id in common.        *)
EXTENDS SequenceLane

R(id, number, kind) == [id |-> id, number |-> number, kind |-> kind]

Mixed ==
  {R("a", 0, "async"), R("b", 0, "sync"), R("c", 1, "async"),
   R("a", 1, "sync"), R("d", 2, "sync")}
=============================================================================
