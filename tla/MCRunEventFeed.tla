--------------------------- MODULE MCRunEventFeed ---------------------------
(* A small instance of RunEventFeed: the operations are all of one task,   *)
(* which every page shows.                                                 *)
EXTENDS RunEventFeed

CONSTANT t1

TaskOfValue == [o \in Operations |-> t1]
ShownTaskValue == [p \in Pages |-> t1]
=============================================================================
