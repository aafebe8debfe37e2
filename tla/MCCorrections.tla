---------------------------- MODULE MCCorrections ----------------------------
(* GraphCorrections on four entities: ann knows bob and works at one of two
   organisations, which may turn out to be one. *)
EXTENDS GraphCorrections

CONSTANTS ann, bob, acme, apex, worksAt, knows

MCInitial ==
  [ents |-> Ent,
   rows |-> <<[t |-> <<ann, worksAt, acme>>, from |-> 1, ended |-> FALSE, verdict |-> "",
               by |-> NoRow, derived |-> FALSE],
              [t |-> <<bob, knows, acme>>, from |-> 1, ended |-> FALSE, verdict |-> "",
               by |-> NoRow, derived |-> FALSE]>>,
   next |-> 3, pairs |-> {}, org |-> [e \in Ent |-> Blank], locked |-> {},
   hidden |-> [e \in Ent |-> 0]]

MCRequests ==
  {[op |-> "reject", t |-> <<bob, knows, acme>>],
   [op |-> "reject", t |-> <<ann, worksAt, acme>>],
   [op |-> "assert", t |-> <<ann, worksAt, bob>>, from |-> 2],
   [op |-> "assert", t |-> <<bob, knows, acme>>, from |-> 1],
   [op |-> "assert", t |-> <<bob, knows, apex>>, from |-> 1],
   [op |-> "assert", t |-> <<ann, knows, apex>>, from |-> 1],
   [op |-> "merge", pair |-> {acme, apex}],
   [op |-> "merge", pair |-> {ann, bob}],
   [op |-> "not_same", pair |-> {acme, apex}],
   [op |-> "not_same", pair |-> {apex, bob}],
   [op |-> "set_field", e |-> apex, org |-> "x"],
   [op |-> "set_field", e |-> apex, org |-> "y"],
   [op |-> "hide", e |-> apex]}

MCSightings ==
  {[t |-> <<bob, knows, acme>>, from |-> 2], [t |-> <<ann, worksAt, apex>>, from |-> 2]}

MCMergeable == {{acme, apex}, {acme, bob}}
=============================================================================
